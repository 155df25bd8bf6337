--------------------------- MODULE Platform_proofs ---------------------------
(***************************************************************************)
(* Theorems about the components that join a host to others, each with its *)
(* inductive invariant: the updates of an installation (HostUpdate), a     *)
(* model of another Node (RemoteModel), the client of an MCP server        *)
(* (McpClient), the clients of a Node behind the Relay (RelayTunnel); and  *)
(* about their composition (MCPlatform).                                   *)
(***************************************************************************)
EXTENDS MCPlatform, FiniteSetTheorems, SequenceTheorems, TLAPS

-----------------------------------------------------------------------------
(* Updates of an installation (HostUpdate)                                 *)

\* The pointers of a state are to staged releases, and the one to fall back to is another one.
Stands(s) ==
    /\ s.current \in versions \cup {None} /\ s.previous \in versions \cup {None}
    /\ s.current = s.previous => s.current = None

\* Nothing has been concluded while the broker is at work, and an update is of a bundle.
UnderWay ==
    /\ host.pc # "idle" => outcome = "none"
    /\ host.pc \notin {"idle", "activating"} => host.bundle \in Release

\* The steps an update takes with the services of the host stopped.
StoppedPc == {"extracting", "installing", "checking", "resuming", "starting", "rejecting",
              "restarting"}

\* Only those of a release that is rejected may still be stopping.
AtRest ==
    host.pc \in StoppedPc =>
        \A r \in host.active :
            service[r] = None \/ (host.pc \in {"rejecting", "restarting"} /\ r \in lingering)

\* The steps before which the services have been waited for, and from there to the withdrawal.
AwaitedPc == {"extracting", "installing", "checking", "resuming", "starting", "waiting",
              "withdrawing"}

\* No service an update is about still has to stop, neither then nor when all has gone well.
Settled ==
    /\ host.pc \in AwaitedPc => host.active \cap lingering = {}
    /\ (host.pc = "idle" /\ outcome \in {"updated", "refused", "restored"}) =>
           host.active \cap lingering \cap roles = {}

\* What every step of an update finds in the release store, compared with the state before.
StoreAt ==
    /\ host.pc \in {"stopping", "extracting", "installing"} => store = host.before
    /\ (host.pc = "resuming" /\ ~host.killed) =>
           (host.before.current # host.bundle => store.current = host.before.current)
    /\ host.pc \in {"checking", "starting", "waiting", "withdrawing", "rejecting"} =>
           /\ store.current = host.bundle
           /\ host.before.current # host.bundle => store.previous = host.before.current
    /\ host.pc = "restarting" =>
           (host.before.current # host.bundle => store.current = host.before.current)

\* While the health of the services is awaited they run the bundle.
NewRuns == host.pc = "waiting" => \A r \in host.active : service[r] = store.current

\* The inductive invariant of HostUpdate.
HostInv ==
    /\ HostTypeOK
    /\ Stands(store) /\ Stands(host.before)
    /\ UnderWay /\ AtRest /\ Settled /\ StoreAt /\ NewRuns
    /\ AllOrNothing

\* What an invariant of the host says of its safety properties.
LEMMA HostInvSound == HostInv => HostSound
  BY DEF HostInv, HostSound, PointersStand, Stands, StoppedForTheSwitch, AtRest, StoppedPc

\* The installer leaves the host in a state that satisfies the invariant.
LEMMA HostInitInv == HostInit => HostInv
<1> SUFFICES ASSUME HostInit PROVE HostInv
  OBVIOUS
<1>1. PICK first \in Release :
        /\ store = [current |-> first, previous |-> None, failed |-> None]
        /\ versions = {first} /\ staging = FALSE /\ incoming = {} /\ roles \in SUBSET Role
        /\ service = [r \in Role |-> IF r \in roles THEN first ELSE None]
        /\ host = [pc |-> "idle", bundle |-> None, before |-> store, active |-> {},
                   killed |-> FALSE]
        /\ lingering = {} /\ outcome = "none" /\ lapses = 0
  BY DEF HostInit
<1>2. store \in State
  BY <1>1 DEF State, Pointer
<1>3. lapses \in 0..MaxLapses
  BY <1>1, HostAssumption
<1>4. service \in [Role -> Pointer]
  BY <1>1 DEF Pointer
<1>5. host \in [pc : HostPc, bundle : Pointer, before : State, active : SUBSET Role,
                killed : BOOLEAN]
  BY <1>1, <1>2 DEF HostPc, Pointer
<1>6. HostTypeOK
  BY <1>1, <1>2, <1>3, <1>4, <1>5 DEF HostTypeOK
<1>7. Stands(store) /\ Stands(host.before)
  BY <1>1, HostAssumption DEF Stands
<1>8. UnderWay /\ AtRest /\ Settled /\ StoreAt /\ NewRuns /\ AllOrNothing
  BY <1>1 DEF UnderWay, AtRest, StoppedPc, Settled, AwaitedPc, StoreAt, NewRuns, AllOrNothing
<1> QED
  BY <1>6, <1>7, <1>8 DEF HostInv

\* The record of the broker after a move, and how the counter of lapses stays in its range.
LEMMA HostMoves ==
  ASSUME HostTypeOK
  PROVE  /\ \A pc \in HostPc : Goes(pc) =>
                host'.pc = pc /\ host'.bundle = host.bundle /\ host'.before = host.before
                /\ host'.active = host.active /\ host'.killed = host.killed
                /\ host' \in [pc : HostPc, bundle : Pointer, before : State,
                              active : SUBSET Role, killed : BOOLEAN]
         /\ Lapse => lapses' \in 0..MaxLapses
         /\ \A which : Started(which) \in [Role -> Pointer] /\ Stopped(which) \in [Role -> Pointer]
<1> USE HostAssumption DEF HostTypeOK
<1>1. ASSUME NEW pc \in HostPc, Goes(pc)
      PROVE  host'.pc = pc /\ host'.bundle = host.bundle /\ host'.before = host.before
                /\ host'.active = host.active /\ host'.killed = host.killed
                /\ host' \in [pc : HostPc, bundle : Pointer, before : State,
                              active : SUBSET Role, killed : BOOLEAN]
  BY <1>1 DEF Goes
<1>2. Lapse => lapses' \in 0..MaxLapses
  BY DEF Lapse
<1>3. \A which : Started(which) \in [Role -> Pointer] /\ Stopped(which) \in [Role -> Pointer]
  BY DEF Started, Stopped, State, Pointer
<1> QED
  BY <1>1, <1>2, <1>3

\* Every step of the host keeps its types.
LEMMA HostTypeStep == HostTypeOK /\ UnderWay /\ [HostNext]_hvars => HostTypeOK'
<1> SUFFICES ASSUME HostTypeOK, UnderWay, [HostNext]_hvars PROVE HostTypeOK'
  OBVIOUS
<1> USE HostAssumption
<1> DEFINE Hosts == [pc : HostPc, bundle : Pointer, before : State, active : SUBSET Role,
                     killed : BOOLEAN]
           Runs == [Role -> Pointer]
           Results == {"none", "updated", "refused", "restored", "broken"}
<1>t. /\ store \in State /\ versions \subseteq Release /\ incoming \subseteq Release
      /\ staging \in BOOLEAN /\ roles \subseteq Role /\ service \in Runs
      /\ lingering \subseteq Role /\ host \in Hosts
      /\ outcome \in Results /\ lapses \in 0..MaxLapses
  BY DEF HostTypeOK
<1>w. (/\ store' \in State /\ versions' \subseteq Release /\ incoming' \subseteq Release
       /\ staging' \in BOOLEAN /\ roles' \subseteq Role /\ service' \in Runs
       /\ lingering' \subseteq Role /\ host' \in Hosts
       /\ outcome' \in Results /\ lapses' \in 0..MaxLapses) => HostTypeOK'
  BY DEF HostTypeOK
<1>g. \A pc \in HostPc : Goes(pc) => host' \in Hosts
  BY HostMoves
<1>r. \A how \in Results : Replied(how) => host' \in Hosts /\ outcome' \in Results
  <2>1. "idle" \in HostPc
    BY DEF HostPc
  <2> QED
    BY <1>g, <2>1 DEF Replied
<1>l. /\ Lapse => lapses' \in 0..MaxLapses
      /\ CommandFails => lapses' \in 0..MaxLapses
  BY <1>t, HostMoves DEF CommandFails
<1>s. \A which : Started(which) \in Runs /\ Stopped(which) \in Runs
  BY HostMoves
<1>a. \A which \in SUBSET Role : AskedToStop(which) =>
         service' \in Runs /\ lingering' \subseteq Role
  <2> SUFFICES ASSUME NEW which \in SUBSET Role, AskedToStop(which)
      PROVE  service' \in Runs /\ lingering' \subseteq Role
    OBVIOUS
  <2>1. PICK slow \in SUBSET which :
            service' = Stopped(which \ slow) /\ lingering' = lingering \cup slow
    BY DEF AskedToStop
  <2> QED
    BY <2>1, <1>t, <1>s
<1>b. \A b \in Pointer : /\ store.current \in Pointer /\ store.previous \in Pointer
                         /\ [store EXCEPT !.failed = b] \in State
                         /\ host.before \in State /\ host.bundle \in Pointer
                         /\ [host.before EXCEPT !.failed = b] \in State
  BY <1>t DEF State
<1>e. host.pc \notin {"idle", "activating"} => host.bundle \in Release
  BY DEF UnderWay
<1> HIDE DEF Hosts, Runs, Results
<1>1. CASE StopServices
  <2>1. host' \in Hosts
    BY <1>1, <1>g DEF StopServices, HostPc
  <2> QED
    BY <1>1, <1>t, <1>w, <1>s, <2>1 DEF StopServices
<1>1a. CASE WithdrawServices
  <2>1. host' \in Hosts /\ host.active \in SUBSET Role
    BY <1>1a, <1>g, <1>t DEF WithdrawServices, HostPc, Hosts
  <2>2. service' \in Runs /\ lingering' \subseteq Role
    BY <1>1a, <1>a, <2>1 DEF WithdrawServices
  <2> QED
    BY <1>1a, <1>t, <1>w, <2>1, <2>2 DEF WithdrawServices
<1>2. CASE Install
  <2>1. host' \in Hosts /\ host.bundle \in Release
    BY <1>2, <1>g, <1>e DEF Install, HostPc
  <2>2. store' \in State
    BY <1>2, <1>t, <1>b, <2>1 DEF Install, State, Pointer
  <2> QED
    BY <1>2, <1>t, <1>w, <2>1, <2>2 DEF Install
<1>3. CASE UpdaterIsKilled
  <2>1. host' \in Hosts
    BY <1>3, <1>t DEF UpdaterIsKilled, HostPc, Hosts
  <2> QED
    BY <1>3, <1>t, <1>w, <1>l, <2>1 DEF UpdaterIsKilled
<1>4. CASE StartServices
  <2>1. host' \in Hosts /\ outcome' \in Results
    <3>1. CASE host.pc = "resuming" /\ Replied(IF host.killed THEN "broken" ELSE "refused")
      BY <3>1, <1>r DEF Results
    <3>2. CASE host.pc = "starting" /\ Goes("waiting") /\ UNCHANGED outcome
      BY <3>2, <1>g, <1>t DEF HostPc
    <3>3. CASE host.pc = "restarting" /\ Replied("restored")
      BY <3>3, <1>r DEF Results
    <3> QED
      BY <1>4, <3>1, <3>2, <3>3 DEF StartServices
  <2> QED
    BY <1>4, <1>t, <1>w, <1>s, <2>1 DEF StartServices
<1>5. CASE ServicesHealthy
  <2>1. host' \in Hosts /\ outcome' \in Results
    BY <1>5, <1>r DEF ServicesHealthy, Results
  <2> QED
    BY <1>5, <1>t, <1>w, <2>1 DEF ServicesHealthy
<1>6. CASE ServicesUnhealthy
  <2>1. host' \in Hosts
    BY <1>6, <1>g DEF ServicesUnhealthy, HostPc
  <2> QED
    BY <1>6, <1>t, <1>w, <2>1 DEF ServicesUnhealthy
<1>7. CASE BrokerDies
  <2>1. host' \in Hosts /\ outcome' \in Results
    BY <1>7, <1>r DEF BrokerDies, Results
  <2> QED
    BY <1>7, <1>t, <1>w, <1>l, <2>1 DEF BrokerDies
<1>8. CASE StagingIsCleared
  BY <1>8, <1>t, <1>w DEF StagingIsCleared
<1>9. ASSUME NEW b \in Release, Update(b) PROVE HostTypeOK'
  <2>1. host' \in Hosts
    BY <1>9, <1>t DEF Update, Hosts, HostPc, Pointer
  <2>2. outcome' \in Results
    BY <1>9 DEF Update, Results
  <2> QED
    BY <1>9, <1>t, <1>w, <2>1, <2>2 DEF Update
<1>10. ASSUME NEW b \in Release, BundleArrives(b) PROVE HostTypeOK'
  BY <1>10, <1>t, <1>w DEF BundleArrives
<1>11. ASSUME NEW yes \in BOOLEAN, Extract(yes) PROVE HostTypeOK'
  <2>1. host' \in Hosts
    BY <1>11, <1>g DEF Extract, HostPc
  <2> QED
    BY <1>11, <1>t, <1>w, <2>1 DEF Extract
<1>12. ASSUME NEW yes \in BOOLEAN, CheckHealth(yes) PROVE HostTypeOK'
  <2>1. host' \in Hosts
    BY <1>12, <1>g DEF CheckHealth, HostPc
  <2>2. [host.before EXCEPT !.failed = host.bundle] \in State
    <3>1. None \in Pointer
      BY DEF Pointer
    <3>2. host.bundle \in Pointer
      BY <1>b, <3>1
    <3> QED
      BY <1>b, <3>2
  <2>3. store' \in State
    BY <1>12, <1>t, <2>2 DEF CheckHealth, Restored
  <2> QED
    BY <1>12, <1>t, <1>w, <2>1, <2>3 DEF CheckHealth
<1>13. ASSUME NEW yes \in BOOLEAN, Reject(yes) PROVE HostTypeOK'
  <2>0. UNCHANGED <<versions, staging, incoming, roles, service, lingering, lapses>>
    BY <1>13 DEF Reject
  <2>1. CASE UNCHANGED store /\ Replied("broken")
    BY <2>0, <2>1, <1>t, <1>w, <1>r DEF Results
  <2>2. CASE store' = [current |-> None, previous |-> None, failed |-> store.current]
             /\ Goes("restarting") /\ UNCHANGED outcome
    <3>1. host' \in Hosts
      BY <2>2, <1>g DEF HostPc
    <3>2. store' \in State
      BY <2>2, <1>b DEF State, Pointer
    <3> QED
      BY <2>0, <2>2, <3>1, <3>2, <1>t, <1>w
  <2>3. CASE store' = [current |-> store.previous, previous |-> store.current,
                       failed |-> store.current]
             /\ Goes("restarting") /\ UNCHANGED outcome
    <3>1. host' \in Hosts
      BY <2>3, <1>g DEF HostPc
    <3>2. store' \in State
      BY <2>3, <1>b DEF State, Pointer
    <3> QED
      BY <2>0, <2>3, <3>1, <3>2, <1>t, <1>w
  <2> QED
    BY <1>13, <2>1, <2>2, <2>3 DEF Reject
<1>14. ASSUME NEW yes \in BOOLEAN, ActivationEnds(yes) PROVE HostTypeOK'
  <2>1. host' \in Hosts
    BY <1>14, <1>g DEF ActivationEnds, HostPc
  <2>2. host.active \subseteq Role
    BY <1>t DEF Hosts
  <2>3. service' \in Runs /\ lingering' \subseteq Role /\ roles' \subseteq Role
    BY <1>14, <1>t, <1>a, <2>2 DEF ActivationEnds
  <2> QED
    BY <1>14, <1>t, <1>w, <2>1, <2>3 DEF ActivationEnds
<1>15. ASSUME NEW which \in SUBSET Role, StopFails(which) PROVE HostTypeOK'
  <2>1. host' \in Hosts /\ outcome' \in Results
    BY <1>15, <1>r DEF StopFails, Results
  <2>2. service' \in Runs /\ lingering' \subseteq Role
    BY <1>15, <1>a DEF StopFails
  <2> QED
    BY <1>15, <1>t, <1>w, <1>l, <2>1, <2>2 DEF StopFails
<1>16. ASSUME NEW which \in SUBSET Role, StartFails(which) PROVE HostTypeOK'
  <2>1. host' \in Hosts /\ outcome' \in Results
    BY <1>16, <1>r DEF StartFails, Results
  <2> QED
    BY <1>16, <1>t, <1>w, <1>s, <1>l, <2>1 DEF StartFails
<1>17. ASSUME NEW r \in Role, Activate(r) PROVE HostTypeOK'
  <2>1. host' \in Hosts
    BY <1>17, <1>t DEF Activate, HostPc, Hosts
  <2>2. outcome' \in Results
    BY <1>17 DEF Activate, Results
  <2> QED
    BY <1>17, <1>t, <1>w, <1>s, <2>1, <2>2 DEF Activate
<1>18. ASSUME NEW r \in Role, Deactivate(r) PROVE HostTypeOK'
  <2>1. service' \in Runs /\ lingering' \subseteq Role
    BY <1>18, <1>a DEF Deactivate
  <2> QED
    BY <1>18, <1>t, <1>w, <2>1 DEF Deactivate
<1>19. ASSUME NEW r \in Role, ServiceRestarts(r) PROVE HostTypeOK'
  <2>1. service' \in Runs
    BY <1>19, <1>t, <1>b, HostAssumption DEF ServiceRestarts, Runs, Pointer
  <2> QED
    BY <1>19, <1>t, <1>w, <2>1 DEF ServiceRestarts
<1>19a. ASSUME NEW r \in Role, ServiceStops(r) PROVE HostTypeOK'
  BY <1>19a, <1>t, <1>w, <1>s DEF ServiceStops
<1>20. CASE UNCHANGED hvars
  BY <1>20, <1>t, <1>w DEF hvars
<1> QED
  BY <1>1, <1>2, <1>3, <1>4, <1>5, <1>6, <1>7, <1>8, <1>9, <1>10, <1>11, <1>12, <1>13, <1>14,
     <1>15, <1>16, <1>17, <1>18, <1>19, <1>19a, <1>1a, <1>20 DEF HostNext

\* Every step of the host keeps the rest of the invariant: the two states the broker may leave
\* behind stand, and the update is where its step says.
LEMMA HostCoreStep == HostInv /\ [HostNext]_hvars =>
    (Stands(store) /\ Stands(host.before) /\ UnderWay /\ AtRest /\ Settled /\ StoreAt /\ NewRuns
     /\ AllOrNothing)'
<1> SUFFICES ASSUME HostInv, [HostNext]_hvars
    PROVE  (Stands(store) /\ Stands(host.before) /\ UnderWay /\ AtRest /\ Settled /\ StoreAt
            /\ NewRuns /\ AllOrNothing)'
  OBVIOUS
<1> USE HostAssumption
<1>i. /\ HostTypeOK /\ Stands(store) /\ Stands(host.before)
      /\ UnderWay /\ AtRest /\ Settled /\ StoreAt /\ NewRuns /\ AllOrNothing
  BY DEF HostInv
<1>t. /\ store \in State /\ host.before \in State /\ host.active \subseteq Role
      /\ host.killed \in BOOLEAN /\ service \in [Role -> Pointer] /\ roles \subseteq Role
      /\ host \in [pc : HostPc, bundle : Pointer, before : State, active : SUBSET Role,
                  killed : BOOLEAN]
  BY <1>i DEF HostTypeOK
<1>g. \A pc \in HostPc : Goes(pc) =>
         host'.pc = pc /\ host'.bundle = host.bundle /\ host'.before = host.before
         /\ host'.active = host.active /\ host'.killed = host.killed
  BY <1>i, HostMoves
<1>r. \A how : Replied(how) =>
         host'.pc = "idle" /\ host'.bundle = host.bundle /\ host'.before = host.before
         /\ host'.active = host.active /\ host'.killed = host.killed /\ outcome' = how
  BY <1>g DEF Replied, HostPc
<1>n. \A which \in SUBSET Role : \A r \in which :
         /\ Stopped(which)[r] = None
         /\ service[r] = None => Started(which)[r] = store.current
  BY DEF Stopped, Started
<1>k. \A which \in SUBSET Role : AskedToStop(which) =>
         /\ \A r \in which : service'[r] = None \/ r \in lingering'
         /\ \A r \in Role \ which : service'[r] = service[r]
         /\ lingering' \subseteq lingering \cup which
  <2> SUFFICES ASSUME NEW which \in SUBSET Role, AskedToStop(which)
      PROVE  /\ \A r \in which : service'[r] = None \/ r \in lingering'
             /\ \A r \in Role \ which : service'[r] = service[r]
             /\ lingering' \subseteq lingering \cup which
    OBVIOUS
  <2>1. PICK slow \in SUBSET which :
            service' = Stopped(which \ slow) /\ lingering' = lingering \cup slow
    BY DEF AskedToStop
  <2> QED
    BY <2>1 DEF Stopped
<1> DEFINE Goal == Stands(store) /\ Stands(host.before) /\ UnderWay /\ AtRest /\ Settled /\ StoreAt
                   /\ NewRuns /\ AllOrNothing
<1>w. Goal' => (Stands(store) /\ Stands(host.before) /\ UnderWay /\ AtRest /\ Settled /\ StoreAt
                /\ NewRuns /\ AllOrNothing)'
  OBVIOUS
<1>1. CASE StopServices
  <2>1. /\ UNCHANGED <<store, versions, roles, lingering, outcome>>
        /\ service' = Stopped(host.active) /\ host.active \cap lingering = {}
        /\ host'.bundle = host.bundle /\ host'.before = host.before
        /\ host'.active = host.active /\ host'.killed = host.killed
        /\ host.pc = "stopping" /\ host'.pc = "extracting"
    BY <1>1, <1>g DEF StopServices, HostPc
  <2>2. \A r \in host.active : service'[r] = None
    BY <2>1, <1>n, <1>t
  <2> QED
    BY <1>i, <2>1, <2>2
       DEF Stands, UnderWay, AtRest, StoppedPc, Settled, AwaitedPc, StoreAt, NewRuns, AllOrNothing
<1>1a. CASE WithdrawServices
  <2>1. /\ UNCHANGED <<store, versions, roles, outcome>>
        /\ host'.bundle = host.bundle /\ host'.before = host.before
        /\ host'.active = host.active /\ host'.killed = host.killed
        /\ host.pc = "withdrawing" /\ host'.pc = "rejecting"
    BY <1>1a, <1>g DEF WithdrawServices, HostPc
  <2>2. \A r \in host.active : service'[r] = None \/ r \in lingering'
    BY <1>1a, <1>k, <1>t DEF WithdrawServices
  <2> QED
    BY <1>i, <2>1, <2>2
       DEF Stands, UnderWay, AtRest, StoppedPc, Settled, AwaitedPc, StoreAt, NewRuns, AllOrNothing
<1>2. CASE Install
  <2>1. /\ host.pc = "installing" /\ versions' = versions \cup {host.bundle}
        /\ UNCHANGED <<roles, service, lingering, outcome>>
        /\ host'.bundle = host.bundle /\ host'.before = host.before
        /\ host'.active = host.active /\ host'.killed = host.killed /\ host'.pc = "checking"
        /\ store' = IF store.current = host.bundle THEN store
                ELSE [current |-> host.bundle, previous |-> store.current, failed |-> None]
    BY <1>2, <1>g DEF Install, HostPc
  <2>2. host.bundle \in Release /\ store = host.before
    BY <1>i, <2>1 DEF UnderWay, StoreAt
  <2>3. Stands(store)'
    BY <1>i, <2>1, <2>2 DEF Stands
  <2>4. Stands(host.before)'
    BY <1>i, <2>1, <2>2 DEF Stands
  <2> QED
    BY <1>i, <2>1, <2>2, <2>3, <2>4
       DEF UnderWay, AtRest, StoppedPc, Settled, AwaitedPc, StoreAt, NewRuns, AllOrNothing
<1>3. CASE UpdaterIsKilled
  <2>1. /\ host.pc \in {"extracting", "installing", "checking"}
        /\ UNCHANGED <<store, versions, roles, service, lingering, outcome>>
        /\ host'.bundle = host.bundle /\ host'.before = host.before
        /\ host'.active = host.active /\ host'.killed /\ host'.pc = "resuming"
    BY <1>3, <1>t DEF UpdaterIsKilled
  <2> QED
    BY <1>i, <2>1
       DEF Stands, UnderWay, AtRest, StoppedPc, Settled, AwaitedPc, StoreAt, NewRuns, AllOrNothing
<1>4. CASE StartServices
  <2>1. /\ UNCHANGED <<store, versions, roles, lingering>> /\ service' = Started(host.active)
        /\ host.active \cap lingering = {}
        /\ host'.bundle = host.bundle /\ host'.before = host.before
        /\ host'.active = host.active /\ host'.killed = host.killed
        /\ \/ /\ host.pc = "resuming" /\ host'.pc = "idle"
              /\ outcome' = IF host.killed THEN "broken" ELSE "refused"
           \/ host.pc = "starting" /\ host'.pc = "waiting" /\ outcome' = outcome
           \/ host.pc = "restarting" /\ host'.pc = "idle" /\ outcome' = "restored"
    BY <1>4, <1>g, <1>r DEF StartServices, HostPc
  <2>2. \A r \in host.active : service'[r] = store.current
    BY <2>1, <1>i, <1>n, <1>t DEF AtRest, StoppedPc
  <2>3. CASE host.pc = "resuming"
    BY <1>i, <2>1, <2>2, <2>3
       DEF Stands, UnderWay, AtRest, StoppedPc, Settled, AwaitedPc, StoreAt, NewRuns, AllOrNothing
  <2>4. CASE host.pc = "starting"
    BY <1>i, <2>1, <2>2, <2>4
       DEF Stands, UnderWay, AtRest, StoppedPc, Settled, AwaitedPc, StoreAt, NewRuns, AllOrNothing
  <2>5. CASE host.pc = "restarting"
    BY <1>i, <2>1, <2>2, <2>5
       DEF Stands, UnderWay, AtRest, StoppedPc, Settled, AwaitedPc, StoreAt, NewRuns, AllOrNothing
  <2> QED
    BY <2>1, <2>3, <2>4, <2>5
<1>5. CASE ServicesHealthy
  <2>1. /\ host.pc = "waiting" /\ UNCHANGED <<store, versions, roles, service, lingering>>
        /\ host'.bundle = host.bundle /\ host'.before = host.before
        /\ host'.active = host.active /\ host'.pc = "idle" /\ outcome' = "updated"
    BY <1>5, <1>r DEF ServicesHealthy
  <2> QED
    BY <1>i, <2>1
       DEF Stands, UnderWay, AtRest, StoppedPc, Settled, AwaitedPc, StoreAt, NewRuns, AllOrNothing
<1>6. CASE ServicesUnhealthy
  <2>1. /\ host.pc = "waiting" /\ UNCHANGED <<store, versions, roles, service, lingering, outcome>>
        /\ host'.bundle = host.bundle /\ host'.before = host.before
        /\ host'.active = host.active /\ host'.pc = "withdrawing"
    BY <1>6, <1>g DEF ServicesUnhealthy, HostPc
  <2> QED
    BY <1>i, <2>1
       DEF Stands, UnderWay, AtRest, StoppedPc, Settled, AwaitedPc, StoreAt, NewRuns, AllOrNothing
\* Whoever ends an action in another way leaves an outcome that promises nothing.
<1>b. ASSUME host'.pc = "idle", host'.before = host.before, outcome' \in {"none", "broken"},
             UNCHANGED <<store, versions>>
      PROVE  Goal'
  BY <1>i, <1>b
     DEF Stands, UnderWay, AtRest, StoppedPc, Settled, AwaitedPc, StoreAt, NewRuns, AllOrNothing
<1>7. CASE BrokerDies
  BY <1>7, <1>r, <1>b DEF BrokerDies
<1>8. CASE StagingIsCleared
  BY <1>8, <1>i
     DEF StagingIsCleared, Stands, UnderWay, AtRest, StoppedPc, Settled, AwaitedPc, StoreAt, NewRuns,
                    AllOrNothing
<1>9. ASSUME NEW b \in Release, Update(b) PROVE Goal'
  <2>1. /\ UNCHANGED <<store, versions>> /\ outcome' = "none"
        /\ host'.bundle = b /\ host'.before = store /\ host'.active = roles
        /\ host'.pc = "stopping"
    BY <1>9 DEF Update
  <2> QED
    BY <1>i, <2>1
       DEF Stands, UnderWay, AtRest, StoppedPc, Settled, AwaitedPc, StoreAt, NewRuns, AllOrNothing
<1>10. ASSUME NEW b \in Release, BundleArrives(b) PROVE Goal'
  BY <1>10, <1>i
     DEF BundleArrives, Stands, UnderWay, AtRest, StoppedPc, Settled, AwaitedPc, StoreAt, NewRuns,
                     AllOrNothing
<1>11. ASSUME NEW yes \in BOOLEAN, Extract(yes) PROVE Goal'
  <2>1. /\ host.pc = "extracting" /\ UNCHANGED <<store, versions, roles, service, lingering, outcome>>
        /\ host'.bundle = host.bundle /\ host'.before = host.before
        /\ host'.active = host.active /\ host'.killed = host.killed
        /\ host'.pc \in {"resuming", "installing"}
    BY <1>11, <1>g DEF Extract, HostPc
  <2> QED
    BY <1>i, <2>1
       DEF Stands, UnderWay, AtRest, StoppedPc, Settled, AwaitedPc, StoreAt, NewRuns, AllOrNothing
<1>12. ASSUME NEW yes \in BOOLEAN, CheckHealth(yes) PROVE Goal'
  <2>1. /\ host.pc = "checking" /\ UNCHANGED <<versions, roles, service, lingering, outcome>>
        /\ host'.bundle = host.bundle /\ host'.before = host.before
        /\ host'.active = host.active /\ host'.killed = host.killed
    BY <1>12, <1>g DEF CheckHealth, HostPc
  <2>2. CASE yes
    <3>1. host'.pc = "starting" /\ store' = store
      BY <1>12, <1>g, <2>2 DEF CheckHealth, HostPc
    <3> QED
      BY <1>i, <2>1, <3>1
         DEF Stands, UnderWay, AtRest, StoppedPc, Settled, AwaitedPc, StoreAt, NewRuns, AllOrNothing
  <2>3. CASE ~yes
    <3>1. host'.pc = "resuming" /\ store' = Restored
      BY <1>12, <1>g, <2>3 DEF CheckHealth, HostPc
    <3>2. CASE host.before.current = host.bundle
      <4>1. store' = store
        BY <3>1, <3>2 DEF Restored
      <4> QED
        BY <1>i, <2>1, <3>1, <3>2, <4>1
           DEF Stands, UnderWay, AtRest, StoppedPc, Settled, AwaitedPc, StoreAt, NewRuns, AllOrNothing
    <3>3. CASE host.before.current # host.bundle
      <4>1. store'.current = host.before.current /\ store'.previous = host.before.previous
        BY <3>1, <3>3, <1>t DEF Restored, State
      <4> QED
        BY <1>i, <2>1, <3>1, <4>1
           DEF Stands, UnderWay, AtRest, StoppedPc, Settled, AwaitedPc, StoreAt, NewRuns, AllOrNothing
    <3> QED
      BY <3>2, <3>3
  <2> QED
    BY <2>2, <2>3
<1>13. ASSUME NEW yes \in BOOLEAN, Reject(yes) PROVE Goal'
  <2>0. host.pc = "rejecting" /\ UNCHANGED <<versions, roles, service, lingering>>
    BY <1>13 DEF Reject
  <2>1. CASE UNCHANGED store /\ Replied("broken")
    BY <2>0, <2>1, <1>r, <1>b
  <2>2. CASE /\ store'.current = store.previous
             /\ store'.previous \in {None, store.current}
             /\ store'.current = store'.previous => store'.current = None
             /\ Goes("restarting") /\ UNCHANGED outcome
    <3>1. /\ host'.bundle = host.bundle /\ host'.before = host.before
          /\ host'.active = host.active /\ host'.killed = host.killed
          /\ host'.pc = "restarting"
      BY <2>2, <1>g DEF HostPc
    <3> QED
      BY <1>i, <2>0, <2>2, <3>1
         DEF Stands, UnderWay, AtRest, StoppedPc, Settled, AwaitedPc, StoreAt, NewRuns, AllOrNothing
  <2>3. CASE store' = [current |-> None, previous |-> None, failed |-> store.current]
             /\ store.previous = None /\ Goes("restarting") /\ UNCHANGED outcome
    BY <2>2, <2>3
  <2>4. CASE store' = [current |-> store.previous, previous |-> store.current,
                       failed |-> store.current]
             /\ store.previous # None /\ Goes("restarting") /\ UNCHANGED outcome
    BY <2>2, <2>4, <1>i DEF Stands
  <2> QED
    BY <1>13, <2>1, <2>3, <2>4 DEF Reject
<1>14. ASSUME NEW yes \in BOOLEAN, ActivationEnds(yes) PROVE Goal'
  <2>1. outcome = "none"
    BY <1>14, <1>i DEF ActivationEnds, UnderWay
  <2> QED
    BY <1>14, <2>1, <1>g, <1>b DEF ActivationEnds, HostPc
<1>15. ASSUME NEW which \in SUBSET Role, StopFails(which) PROVE Goal'
  BY <1>15, <1>r, <1>b DEF StopFails
<1>16. ASSUME NEW which \in SUBSET Role, StartFails(which) PROVE Goal'
  BY <1>16, <1>r, <1>b DEF StartFails
<1>17. ASSUME NEW r \in Role, Activate(r) PROVE Goal'
  <2>1. /\ UNCHANGED <<store, versions>> /\ outcome' = "none" /\ host'.before = host.before
        /\ host'.pc = "activating"
    BY <1>17, <1>t DEF Activate
  <2> QED
    BY <1>i, <2>1
       DEF Stands, UnderWay, AtRest, StoppedPc, Settled, AwaitedPc, StoreAt, NewRuns, AllOrNothing
<1>18. ASSUME NEW r \in Role, Deactivate(r) PROVE Goal'
  <2>1. /\ UNCHANGED <<store, versions, host, outcome>> /\ host.pc = "idle"
        /\ roles' = roles \ {r} /\ \A q \in Role \ {r} : service'[q] = service[q]
        /\ lingering' \subseteq lingering \cup {r}
    BY <1>18, <1>k DEF Deactivate
  <2> QED
    BY <1>i, <1>t, <2>1
       DEF Stands, UnderWay, AtRest, StoppedPc, Settled, AwaitedPc, StoreAt, NewRuns, AllOrNothing
<1>19. ASSUME NEW r \in Role, ServiceRestarts(r) PROVE Goal'
  <2>1. /\ UNCHANGED <<store, versions, host, outcome, roles, lingering>> /\ host.pc \in {"idle", "waiting"}
        /\ \A q \in Role : service'[q] = IF q = r THEN store.current ELSE service[q]
    BY <1>19, <1>t DEF ServiceRestarts
  <2> QED
    BY <1>i, <1>t, <2>1
       DEF Stands, UnderWay, AtRest, StoppedPc, Settled, AwaitedPc, StoreAt, NewRuns, AllOrNothing
<1>19a. ASSUME NEW r \in Role, ServiceStops(r) PROVE Goal'
  <2>1. /\ UNCHANGED <<store, versions, host, outcome, roles>> /\ r \in lingering
        /\ lingering' = lingering \ {r}
        /\ \A q \in Role : service'[q] = IF q = r THEN None ELSE service[q]
    BY <1>19a DEF ServiceStops, Stopped
  <2>2. AtRest'
    BY <1>i, <1>t, <2>1 DEF AtRest, StoppedPc
  <2>3. NewRuns'
    BY <1>i, <1>t, <2>1 DEF NewRuns, Settled, AwaitedPc
  <2>4. AllOrNothing'
    BY <1>i, <1>t, <2>1 DEF AllOrNothing, Settled
  <2>5. Settled'
    BY <1>i, <2>1 DEF Settled
  <2> QED
    BY <1>i, <2>1, <2>2, <2>3, <2>4, <2>5 DEF Stands, UnderWay, StoreAt
<1>20. CASE UNCHANGED hvars
  BY <1>20, <1>i
     DEF hvars, Stands, UnderWay, AtRest, StoppedPc, Settled, AwaitedPc, StoreAt, NewRuns, AllOrNothing
<1> QED
  BY <1>1, <1>2, <1>3, <1>4, <1>5, <1>6, <1>7, <1>8, <1>9, <1>10, <1>11, <1>12, <1>13, <1>14,
     <1>15, <1>16, <1>17, <1>18, <1>19, <1>19a, <1>1a, <1>20 DEF HostNext

\* The invariant holds in every state of HostUpdate, for any releases, roles and failures.
THEOREM HostInvariant == HostSpec => []HostInv
<1>1. HostInv /\ [HostNext]_hvars => HostInv'
  BY HostTypeStep, HostCoreStep DEF HostInv
<1> QED
  BY <1>1, HostInitInv, PTL DEF HostSpec

\* An update that nobody interrupts leaves one release on the whole host, the new one or the one
\* that was current, and the pointers of the store stand (ReleaseStore, HostLifecycleManager).
THEOREM UpdatesAreWhole == HostSpec => []HostSound
  BY HostInvariant, HostInvSound, PTL

-----------------------------------------------------------------------------
(* A model of another Node (RemoteModel)                                   *)

\* A log without its end, and one with it.
Open(s) == \A k \in 1..Len(s) : s[k] = "part"
Complete(s) ==
    /\ s # <<>> /\ s[Len(s)] \in Final
    /\ \A k \in 1..(Len(s) - 1) : s[k] = "part"

\* The invocations that hold the semaphore; what is taken and what is free is all there is.
Slots == {i \in Invocation : work[i] \in {"calling", "emitted"}}
SlotInv == free + Cardinality(Slots) = MaxConcurrency

\* A row, its log, the coroutine that works on it and the calls of the provider: the log is open
\* as long as the row runs, and a row that runs has its coroutine, unless its end was torn off.
RowInv(i) ==
    /\ row[i] = "none" => log[i] = <<>> /\ work[i] = "none" /\ called[i] = 0
    /\ row[i] = "running" => Open(log[i]) /\ (work[i] \in {"queued", "calling"} \/ i \in torn)
    /\ row[i] \notin {"none", "running"} => Complete(log[i]) /\ work[i] \in {"none", "emitted"}
    /\ work[i] = "queued" => called[i] = 0
    /\ called[i] <= 1
    /\ i \in torn => work[i] = "none" /\ row[i] # "none"

\* A record of the execution that stays true: a beginning of the log, and all of it if the
\* execution is over, unless its end could not be written.
Told(i, chunks) ==
    /\ IsPrefix(chunks, log[i])
    /\ i \in torn \/ (chunks = log[i] /\ row[i] \notin {"none", "running"})

\* What is under way to the caller, and what the caller has.
PostInv(i) ==
    /\ \A t \in Transport :
          /\ post[i][t].at = "held" => row[i] # "none"
          /\ post[i][t].at = "answered" => Told(i, post[i][t].chunks)
    /\ caller[i].got # <<>> => Told(i, caller[i].got)

\* The inductive invariant of RemoteModel.
RemoteInv ==
    /\ RemoteTypeOK /\ SlotInv
    /\ \A i \in Invocation : RowInv(i) /\ PostInv(i)

\* Sequences: a beginning of a sequence is one of a longer sequence, and a sequence of itself.
LEMMA PrefixGrows ==
  ASSUME NEW S, NEW s \in Seq(S), NEW p \in Seq(S), NEW c \in S
  PROVE  IsPrefix(s, s) /\ (IsPrefix(p, s) => IsPrefix(p, Append(s, c)))
<1>1. IsPrefix(s, s)
  BY DEF IsPrefix
<1>2. ASSUME IsPrefix(p, s) PROVE IsPrefix(p, Append(s, c))
  <2>1. Len(p) <= Len(s) /\ SubSeq(p, 1, Len(p)) = SubSeq(s, 1, Len(p)) /\ Len(p) \in Nat
        /\ Len(s) \in Nat
    BY <1>2 DEF IsPrefix
  <2>2. Append(s, c) \in Seq(S) /\ Len(Append(s, c)) = Len(s) + 1
        /\ \A k \in 1..Len(s) : Append(s, c)[k] = s[k]
    OBVIOUS
  <2>3. SubSeq(Append(s, c), 1, Len(p)) = SubSeq(s, 1, Len(p))
    BY <2>1, <2>2
  <2> QED
    BY <2>1, <2>2, <2>3 DEF IsPrefix
<1> QED
  BY <1>1, <1>2

\* A chunk keeps an open log open or closes it.
LEMMA LogGrows ==
  ASSUME NEW s \in Seq(Chunk), Open(s), NEW c \in Chunk
  PROVE  /\ c = "part" => Open(Append(s, c))
         /\ c # "part" => Complete(Append(s, c))
<1>1. /\ Len(Append(s, c)) = Len(s) + 1 /\ Append(s, c)[Len(s) + 1] = c
      /\ \A k \in 1..Len(s) : Append(s, c)[k] = s[k] /\ Len(s) \in Nat
  OBVIOUS
<1>2. Len(s) \in Nat
  OBVIOUS
<1>3. ASSUME c = "part" PROVE Open(Append(s, c))
  BY <1>1, <1>2, <1>3 DEF Open
<1>4. ASSUME c # "part" PROVE Complete(Append(s, c))
  <2>1. Append(s, c) # <<>>
    BY <1>1, <1>2
  <2> QED
    BY <1>1, <1>2, <1>4, <2>1 DEF Open, Complete, Final
<1> QED
  BY <1>3, <1>4

\* What the states of the rows mean.
LEMMA StatesOfChunks ==
    /\ StateOf("part") = "running"
    /\ \A c \in Final : StateOf(c) \in RowState \ {"none", "running"}
BY DEF StateOf, Final, Chunk, RowState

\* append() touches one invocation, and only as long as its row runs.
LEMMA Appended ==
  ASSUME RemoteTypeOK, NEW i \in Invocation, NEW c \in Chunk, AppendChunk(i, c)
  PROVE  /\ row' \in [Invocation -> RowState] /\ log' \in [Invocation -> Seq(Chunk)]
         /\ \A j \in Invocation : j # i => row'[j] = row[j] /\ log'[j] = log[j]
         /\ row[i] # "running" => row'[i] = row[i] /\ log'[i] = log[i]
         /\ row[i] = "running" => log'[i] = Append(log[i], c) /\ row'[i] = StateOf(c)
<1>1. StateOf(c) \in RowState
  BY StatesOfChunks DEF Final, RowState
<1>2. row \in [Invocation -> RowState] /\ log \in [Invocation -> Seq(Chunk)]
  BY DEF RemoteTypeOK
<1>3. CASE row[i] = "running"
  <2>1. log' = [log EXCEPT ![i] = Append(@, c)] /\ row' = [row EXCEPT ![i] = StateOf(c)]
    BY <1>3 DEF AppendChunk
  <2>2. Append(log[i], c) \in Seq(Chunk)
    BY <1>2
  <2> QED
    BY <1>1, <1>2, <1>3, <2>1, <2>2
<1>4. CASE row[i] # "running"
  BY <1>2, <1>4 DEF AppendChunk
<1> QED
  BY <1>3, <1>4

\* The safety properties follow from the invariant.
LEMMA RemoteInvSound == RemoteInv => RemoteSound
<1> SUFFICES ASSUME RemoteInv, NEW i \in Invocation
    PROVE  /\ called[i] <= 1
           /\ row[i] \in {"none", "running"} <=> Range(log[i]) \subseteq {"part"}
           /\ log[i] # <<>> => Range(Front(log[i])) \subseteq {"part"}
           /\ caller[i].got # <<>> =>
                /\ IsPrefix(caller[i].got, log[i])
                /\ (i \in torn \/ (caller[i].got = log[i] /\ Last(log[i]) \in Final))
  BY DEF RemoteSound, CalledOnce, LogSound, RecordIsTold
<1>1. RowInv(i) /\ PostInv(i) /\ log[i] \in Seq(Chunk)
  BY DEF RemoteInv, RemoteTypeOK
<1>2. called[i] <= 1
  BY <1>1 DEF RowInv
<1>3. Len(log[i]) \in Nat /\ DOMAIN log[i] = 1..Len(log[i])
  BY <1>1
<1>4. row[i] \in {"none", "running"} => Open(log[i])
  BY <1>1 DEF RowInv, Open
<1>5. row[i] \notin {"none", "running"} => Complete(log[i])
  BY <1>1 DEF RowInv
<1>6. Open(log[i]) => Range(log[i]) \subseteq {"part"}
  BY <1>3 DEF Open, Range
<1>7. Complete(log[i]) => Len(log[i]) \in 1..Len(log[i])
  BY <1>1, <1>3 DEF Complete
<1>8. Complete(log[i]) => ~(Range(log[i]) \subseteq {"part"})
  BY <1>3, <1>7 DEF Complete, Range, Final
<1>9. ASSUME log[i] # <<>> PROVE Range(Front(log[i])) \subseteq {"part"}
  <2>1. /\ Front(log[i]) = SubSeq(log[i], 1, Len(log[i]) - 1)
        /\ Len(log[i]) - 1 \in Nat
    BY <1>1, <1>3, <1>9 DEF Front
  <2>2. /\ DOMAIN Front(log[i]) = 1..(Len(log[i]) - 1)
        /\ \A k \in 1..(Len(log[i]) - 1) : Front(log[i])[k] = log[i][k]
    BY <1>1, <1>3, <2>1
  <2>3. \A k \in 1..(Len(log[i]) - 1) : log[i][k] = "part"
    BY <1>3, <1>4, <1>5 DEF Open, Complete
  <2> QED
    BY <2>2, <2>3 DEF Range
<1>10. ASSUME caller[i].got # <<>>
       PROVE  /\ IsPrefix(caller[i].got, log[i])
              /\ (i \in torn \/ (caller[i].got = log[i] /\ Last(log[i]) \in Final))
  BY <1>1, <1>5, <1>10 DEF PostInv, Told, Complete, Last
<1> QED
  BY <1>2, <1>4, <1>5, <1>6, <1>8, <1>9, <1>10

\* Nothing has been asked for in the beginning.
LEMMA RemoteInitInv == RemoteInit => RemoteInv
<1> SUFFICES ASSUME RemoteInit PROVE RemoteInv
  OBVIOUS
<1> USE RemoteAssumption
<1>1. RemoteTypeOK
  <2>1. <<>> \in Seq(Chunk)
    OBVIOUS
  <2>2. caller \in [Invocation -> [pc : {"idle", "over"} \cup Transport, got : Seq(Chunk)]]
    BY <2>1 DEF RemoteInit
  <2>3. Unsent \in [at : {"none", "sent", "held", "answered", "refused"}, chunks : Seq(Chunk)]
    BY <2>1 DEF Unsent
  <2>4. post \in [Invocation -> [Transport ->
          [at : {"none", "sent", "held", "answered", "refused"}, chunks : Seq(Chunk)]]]
    BY <2>3 DEF RemoteInit
  <2>5. row \in [Invocation -> RowState] /\ log \in [Invocation -> Seq(Chunk)]
        /\ work \in [Invocation -> {"none", "queued", "calling", "emitted"}]
        /\ called \in [Invocation -> Nat]
    BY <2>1 DEF RemoteInit, RowState
  <2>6. free \in 0..MaxConcurrency /\ outages \in 0..MaxOutages
    BY DEF RemoteInit
  <2> QED
    BY <2>2, <2>4, <2>5, <2>6 DEF RemoteTypeOK, RemoteInit
<1>2. SlotInv
  <2>1. Slots = {}
    BY DEF RemoteInit, Slots
  <2> QED
    BY <2>1, FS_EmptySet DEF SlotInv, RemoteInit
<1>3. \A i \in Invocation : RowInv(i)
  BY DEF RemoteInit, RowInv
<1>4. \A i \in Invocation : PostInv(i)
  BY DEF RemoteInit, PostInv, Unsent
<1> QED
  BY <1>1, <1>2, <1>3, <1>4 DEF RemoteInv

PostRow == [at : {"none", "sent", "held", "answered", "refused"}, chunks : Seq(Chunk)]
CallerRow == [pc : {"idle", "over"} \cup Transport, got : Seq(Chunk)]
PostSet == [Invocation -> [Transport -> PostRow]]
CallerSet == [Invocation -> CallerRow]

\* A row of a request that tells the caller nothing.
Silent(request) == request.at \in {"none", "sent", "refused"}

\* A move of the caller changes what it waits for and silences requests; it yields nothing.
LEMMA CallerMoves ==
  ASSUME RemoteTypeOK, NEW i \in Invocation, CallerLeaves(i) \/ \E t \in Transport : Posts(i, t)
  PROVE  /\ caller' \in CallerSet /\ post' \in PostSet
         /\ \A j \in Invocation : caller'[j].got = caller[j].got
         /\ \A j \in Invocation, u \in Transport :
               post'[j][u] = post[j][u] \/ Silent(post'[j][u])
<1>t. caller \in CallerSet /\ post \in PostSet
  BY DEF RemoteTypeOK, CallerSet, CallerRow, PostSet, PostRow
<1>u. Unsent \in PostRow /\ [Unsent EXCEPT !.at = "sent"] \in PostRow
      /\ Silent(Unsent) /\ Silent([Unsent EXCEPT !.at = "sent"])
  <2>1. Unsent \in PostRow /\ Unsent.at = "none"
    <3>1. <<>> \in Seq(Chunk)
      OBVIOUS
    <3> QED
      BY <3>1 DEF Unsent, PostRow
  <2>2. [Unsent EXCEPT !.at = "sent"] \in PostRow /\ [Unsent EXCEPT !.at = "sent"].at = "sent"
    BY <2>1 DEF PostRow
  <2> QED
    BY <2>1, <2>2 DEF Silent
<1>a. \A q \in PostRow : Abandoned(q) \in PostRow /\ (Abandoned(q) = q \/ Silent(Abandoned(q)))
  BY <1>u DEF Abandoned
<1>1. CASE CallerLeaves(i)
  <2>1. caller' \in CallerSet /\ \A j \in Invocation : caller'[j].got = caller[j].got
    BY <1>t, <1>1 DEF CallerLeaves, CallerSet, CallerRow
  <2> DEFINE R == [t \in Transport |-> Abandoned(post[i][t])]
  <2>2. R \in [Transport -> PostRow]
    BY <1>t, <1>a DEF PostSet
  <2>3. \A u \in Transport : R[u] = post[i][u] \/ Silent(R[u])
    BY <1>t, <1>a DEF PostSet
  <2>4. post' = [post EXCEPT ![i] = R]
    BY <1>1 DEF CallerLeaves
  <2> HIDE DEF R
  <2> QED
    BY <1>t, <2>1, <2>2, <2>3, <2>4 DEF PostSet
<1>2. ASSUME NEW t \in Transport, Posts(i, t) PROVE
         /\ caller' \in CallerSet /\ post' \in PostSet
         /\ \A j \in Invocation : caller'[j].got = caller[j].got
         /\ \A j \in Invocation, u \in Transport :
               post'[j][u] = post[j][u] \/ Silent(post'[j][u])
  <2>1. caller' \in CallerSet /\ \A j \in Invocation : caller'[j].got = caller[j].got
    BY <1>t, <1>2 DEF Posts, CallerSet, CallerRow
  <2> DEFINE R == [u \in Transport |-> IF u = t THEN [Unsent EXCEPT !.at = "sent"]
                                                ELSE Abandoned(post[i][u])]
  <2>2. R \in [Transport -> PostRow]
    BY <1>t, <1>a, <1>u DEF PostSet
  <2>3. \A u \in Transport : R[u] = post[i][u] \/ Silent(R[u])
    BY <1>t, <1>a, <1>u DEF PostSet
  <2>4. post' = [post EXCEPT ![i] = R]
    BY <1>2 DEF Posts
  <2> HIDE DEF R
  <2> QED
    BY <1>t, <2>1, <2>2, <2>3, <2>4 DEF PostSet
<1> QED
  BY <1>1, <1>2

\* The next transport is one, and so a caller that falls back has moved.
LEMMA FallsBackMoves ==
  ASSUME RemoteTypeOK, NEW i \in Invocation, FallsBack(i)
  PROVE  /\ CallerLeaves(i) \/ \E t \in Transport : Posts(i, t)
         /\ cooling' \in BOOLEAN
         /\ UNCHANGED <<row, log, work, free, stops, shared, called, torn, outages>>
<1>1. AfterDirect \in Transport /\ "relay" \in Transport
  BY DEF AfterDirect, Transport
<1>2. CallerLeaves(i) \/ \E t \in Transport : Posts(i, t)
  BY <1>1 DEF FallsBack
<1>3. cooling' \in BOOLEAN
  <2>1. cooling \in BOOLEAN
    BY DEF RemoteTypeOK
  <2>2. cooling' = (cooling \/ caller[i].pc = "p2p")
    BY DEF FallsBack
  <2> QED
    BY <2>1, <2>2, Zenon
<1>4. UNCHANGED <<row, log, work, free, stops, shared, called, torn, outages>>
  BY DEF FallsBack
<1> QED
  BY <1>2, <1>3, <1>4

\* The answer of the route goes to one request, and only if it is waited for.
LEMMA RepliesTo ==
  ASSUME RemoteTypeOK, NEW i \in Invocation, NEW t \in Transport,
         NEW at \in {"held", "answered", "refused"}, NEW chunks \in Seq(Chunk),
         Replies(i, t, at, chunks)
  PROVE  /\ post' \in PostSet
         /\ \A j \in Invocation, u \in Transport :
               <<j, u>> # <<i, t>> => post'[j][u] = post[j][u]
         /\ Silent(post'[i][t]) \/ post'[i][t] = [at |-> at, chunks |-> chunks]
<1>t. post \in PostSet
  BY DEF RemoteTypeOK, PostSet, PostRow
<1> DEFINE R == IF caller[i].pc = t THEN [at |-> at, chunks |-> chunks] ELSE Unsent
<1>1. R \in PostRow /\ (Silent(R) \/ R = [at |-> at, chunks |-> chunks])
  BY DEF PostRow, Unsent, Silent
<1>2. post' = [post EXCEPT ![i][t] = R]
  BY DEF Replies
<1> HIDE DEF R
<1> QED
  BY <1>t, <1>1, <1>2 DEF PostSet

\* The invocations that hold the semaphore are finitely many.
LEMMA SlotFacts ==
  ASSUME RemoteTypeOK, SlotInv
  PROVE  /\ free \in Nat /\ Cardinality(Slots) \in Nat
         /\ \A i \in Slots : /\ free < MaxConcurrency
                             /\ Cardinality(Slots \ {i}) = Cardinality(Slots) - 1
         /\ \A i \in Invocation \ Slots : Cardinality(Slots \cup {i}) = Cardinality(Slots) + 1
<1>1. IsFiniteSet(Slots)
  BY RemoteAssumption, FS_Subset DEF Slots
<1>2. Cardinality(Slots) \in Nat
  BY <1>1, FS_CardinalityType
<1>3. free \in Nat /\ MaxConcurrency \in Nat
  BY RemoteAssumption DEF RemoteTypeOK
<1>4. ASSUME NEW i \in Slots
      PROVE  free < MaxConcurrency /\ Cardinality(Slots \ {i}) = Cardinality(Slots) - 1
  <2>1. Cardinality(Slots \ {i}) = Cardinality(Slots) - 1
    BY <1>1, FS_RemoveElement
  <2>2. Cardinality(Slots \ {i}) \in Nat
    BY <1>1, FS_RemoveElement, FS_CardinalityType
  <2> QED
    BY <1>2, <1>3, <2>1, <2>2 DEF SlotInv
<1>5. ASSUME NEW i \in Invocation \ Slots
      PROVE  Cardinality(Slots \cup {i}) = Cardinality(Slots) + 1
  BY <1>1, FS_AddElement
<1> QED
  BY <1>2, <1>3, <1>4, <1>5

WorkSet == [Invocation -> {"none", "queued", "calling", "emitted"}]

\* The typing of RemoteModel in named sets.
RemoteTyping ==
    /\ caller \in CallerSet /\ post \in PostSet
    /\ cooling \in BOOLEAN /\ shared \in BOOLEAN
    /\ row \in [Invocation -> RowState] /\ log \in [Invocation -> Seq(Chunk)]
    /\ work \in WorkSet
    /\ free \in 0..MaxConcurrency
    /\ stops \subseteq Invocation /\ torn \subseteq Invocation
    /\ called \in [Invocation -> Nat]
    /\ outages \in 0..MaxOutages

LEMMA RemoteTypes == (RemoteTypeOK <=> RemoteTyping) /\ (RemoteTypeOK' <=> RemoteTyping')
BY DEF RemoteTypeOK, RemoteTyping, CallerSet, CallerRow, PostSet, PostRow, WorkSet

\* The counter of outages stays in its range.
LEMMA OutageBound == RemoteTypeOK /\ Outage => outages' \in 0..MaxOutages
BY RemoteAssumption DEF RemoteTypeOK, Outage

\* The end of the coroutine of one that held the semaphore.
LEMMA EndsFrees ==
  ASSUME RemoteTypeOK, SlotInv, NEW i \in Invocation, work[i] \in {"calling", "emitted"},
         Ends(i, free + 1)
  PROVE  work' \in WorkSet /\ stops' \subseteq Invocation /\ free' \in 0..MaxConcurrency
         /\ SlotInv'
         /\ work'[i] = "none" /\ \A j \in Invocation : j # i => work'[j] = work[j]
<1>1. i \in Slots
  BY DEF Slots
<1>2. work \in WorkSet /\ stops \subseteq Invocation /\ free \in 0..MaxConcurrency
  BY RemoteTypes DEF RemoteTyping
<1>3. /\ work' \in WorkSet /\ stops' \subseteq Invocation /\ free' = free + 1
      /\ work'[i] = "none" /\ \A j \in Invocation : j # i => work'[j] = work[j]
  BY <1>2 DEF Ends, WorkSet
<1>4. Slots' = Slots \ {i}
  BY <1>3 DEF Slots
<1>5. free + 1 \in 0..MaxConcurrency /\ Cardinality(Slots') = Cardinality(Slots) - 1
  BY <1>1, <1>2, <1>4, SlotFacts, RemoteAssumption
<1> QED
  BY <1>3, <1>5, SlotFacts DEF SlotInv

\* A step of the semaphore, the coroutine and the row of one invocation.
LEMMA ExecutionStep ==
  ASSUME RemoteInv, NEW i \in Invocation, Executing(i) \/ StoreFails(i)
  PROVE  /\ RemoteTypeOK' /\ SlotInv'
         /\ UNCHANGED <<caller, post>>
         /\ \A j \in Invocation : RowInv(j)'
         /\ \A j \in Invocation : j # i => row'[j] = row[j] /\ log'[j] = log[j]
         /\ \/ row'[i] = row[i] /\ log'[i] = log[i]
            \/ row[i] = "running" /\ \E c \in Chunk : log'[i] = Append(log[i], c)
         /\ torn \subseteq torn'
<1> DEFINE Goal ==
         /\ RemoteTypeOK' /\ SlotInv'
         /\ UNCHANGED <<caller, post>>
         /\ \A j \in Invocation : RowInv(j)'
         /\ \A j \in Invocation : j # i => row'[j] = row[j] /\ log'[j] = log[j]
         /\ \/ row'[i] = row[i] /\ log'[i] = log[i]
            \/ row[i] = "running" /\ \E c \in Chunk : log'[i] = Append(log[i], c)
         /\ torn \subseteq torn'
<1>i. RemoteTypeOK /\ RemoteTyping /\ SlotInv /\ \A j \in Invocation : RowInv(j)
  BY RemoteTypes DEF RemoteInv
<1>w. RemoteTyping' => RemoteTypeOK'
  BY RemoteTypes
<1>r. log[i] \in Seq(Chunk)
  BY <1>i DEF RemoteTyping
\* The other invocations are as they were.
<1>o. ASSUME \A j \in Invocation : j # i =>
               row'[j] = row[j] /\ log'[j] = log[j] /\ work'[j] = work[j]
               /\ called'[j] = called[j] /\ (j \in torn' <=> j \in torn)
      PROVE  \A j \in Invocation : j # i => RowInv(j)'
  BY <1>i, <1>o DEF RowInv
<1>1. CASE Acquire(i)
  <2>0. /\ work[i] = "queued" /\ free > 0 /\ Take(i)
        /\ UNCHANGED <<caller, cooling, post, shared, torn, outages>>
    BY <1>1 DEF Acquire
  <2>1. row[i] = "running" /\ Open(log[i]) /\ called[i] = 0 /\ i \notin torn /\ i \notin Slots
    BY <1>i, <2>0 DEF RowInv, Slots
  <2>2. CASE i \in stops
    <3>1. AppendChunk(i, "cancelled") /\ Ends(i, free) /\ UNCHANGED called
      BY <2>0, <2>2 DEF Take
    <3>2. "cancelled" \in Chunk /\ "cancelled" \in Final
      BY DEF Chunk, Final
    <3>3. /\ row' \in [Invocation -> RowState] /\ log' \in [Invocation -> Seq(Chunk)]
          /\ \A j \in Invocation : j # i => row'[j] = row[j] /\ log'[j] = log[j]
          /\ log'[i] = Append(log[i], "cancelled") /\ row'[i] = StateOf("cancelled")
      BY <1>i, <2>1, <3>1, <3>2, Appended
    <3>4. row'[i] \notin {"none", "running"} /\ Complete(log'[i])
      BY <2>1, <3>2, <3>3, <1>r, StatesOfChunks, LogGrows
    <3>5. /\ work' \in WorkSet /\ stops' \subseteq Invocation /\ free' = free
          /\ work'[i] = "none" /\ \A j \in Invocation : j # i => work'[j] = work[j]
      BY <1>i, <3>1 DEF Ends, RemoteTyping, WorkSet
    <3>6. Slots' = Slots
      BY <2>1, <3>5 DEF Slots
    <3>7. RemoteTyping'
      BY <1>i, <2>0, <3>1, <3>3, <3>5 DEF RemoteTyping
    <3>8. RowInv(i)'
      BY <1>i, <2>0, <2>1, <3>1, <3>4, <3>5 DEF RowInv
    <3>9. \A j \in Invocation : j # i => RowInv(j)'
      BY <1>o, <2>0, <3>1, <3>3, <3>5
    <3> QED
      BY <1>i, <1>w, <2>0, <2>1, <3>2, <3>3, <3>5, <3>6, <3>7, <3>8, <3>9 DEF SlotInv
  <2>3. CASE i \notin stops
    <3>1. /\ work' = [work EXCEPT ![i] = "calling"] /\ free' = free - 1
          /\ called' = [called EXCEPT ![i] = @ + 1] /\ UNCHANGED <<row, log, stops>>
      BY <2>0, <2>3 DEF Take
    <3>2. /\ work' \in WorkSet /\ called' \in [Invocation -> Nat] /\ free' \in 0..MaxConcurrency
          /\ work'[i] = "calling" /\ called'[i] = 1
          /\ \A j \in Invocation : j # i => work'[j] = work[j] /\ called'[j] = called[j]
      BY <1>i, <2>0, <2>1, <3>1, RemoteAssumption DEF RemoteTyping, WorkSet
    <3>3. Slots' = Slots \cup {i}
      BY <3>2 DEF Slots
    <3>4. SlotInv'
      <4>1. Cardinality(Slots') = Cardinality(Slots) + 1
        BY <1>i, <2>1, <3>3, SlotFacts
      <4> QED
        BY <1>i, <3>1, <4>1, SlotFacts, RemoteAssumption DEF SlotInv
    <3>5. RemoteTyping'
      BY <1>i, <2>0, <3>1, <3>2 DEF RemoteTyping
    <3>6. RowInv(i)'
      BY <1>i, <2>0, <2>1, <3>1, <3>2 DEF RowInv
    <3>7. \A j \in Invocation : j # i => RowInv(j)'
      BY <1>o, <2>0, <3>1, <3>2
    <3> QED
      BY <1>w, <2>0, <3>1, <3>4, <3>5, <3>6, <3>7
  <2> QED
    BY <2>2, <2>3
\* The end of the coroutine, with a chunk that is the last one or none.
<1>e. ASSUME work[i] \in {"calling", "emitted"}, Ends(i, free + 1),
             (UNCHANGED <<row, log>> /\ work[i] = "emitted")
                \/ \E c \in Final : AppendChunk(i, c),
             UNCHANGED <<caller, cooling, post, shared, called, torn, outages>>
      PROVE  Goal
  <2>1. /\ work' \in WorkSet /\ stops' \subseteq Invocation /\ free' \in 0..MaxConcurrency
        /\ SlotInv'
        /\ work'[i] = "none" /\ \A j \in Invocation : j # i => work'[j] = work[j]
    BY <1>e, <1>i, EndsFrees
  <2>2. /\ i \notin torn
        /\ row[i] = "running" \/ (row[i] # "none" /\ work[i] = "emitted")
        /\ work[i] = "emitted" => row[i] # "running"
    BY <1>e, <1>i DEF RowInv
  <2>3. CASE UNCHANGED <<row, log>> /\ row[i] # "running"
    <3>1. RowInv(i)'
      BY <1>e, <1>i, <2>1, <2>2, <2>3 DEF RowInv
    <3>2. \A j \in Invocation : j # i => RowInv(j)'
      BY <1>e, <1>o, <2>1, <2>3
    <3>3. RemoteTyping'
      BY <1>e, <1>i, <2>1, <2>3 DEF RemoteTyping
    <3> QED
      BY <1>e, <1>w, <2>1, <2>3, <3>1, <3>2, <3>3
  <2>4. ASSUME NEW c \in Final, AppendChunk(i, c), row[i] = "running"
        PROVE  Goal
    <3>0. c \in Chunk /\ c # "part"
      BY <2>4 DEF Final
    <3>1. /\ row' \in [Invocation -> RowState] /\ log' \in [Invocation -> Seq(Chunk)]
          /\ \A j \in Invocation : j # i => row'[j] = row[j] /\ log'[j] = log[j]
          /\ log'[i] = Append(log[i], c) /\ row'[i] = StateOf(c)
      BY <1>i, <2>4, <3>0, Appended
    <3>2. row'[i] \notin {"none", "running"} /\ Complete(log'[i])
      BY <1>i, <1>r, <2>4, <3>0, <3>1, StatesOfChunks, LogGrows DEF RowInv
    <3>3. RowInv(i)'
      BY <1>e, <1>i, <2>1, <2>2, <3>2 DEF RowInv
    <3>4. \A j \in Invocation : j # i => RowInv(j)'
      BY <1>e, <1>o, <2>1, <3>1
    <3>5. RemoteTyping'
      BY <1>e, <1>i, <2>1, <3>1 DEF RemoteTyping
    <3> QED
      BY <1>e, <1>w, <2>1, <2>4, <3>0, <3>1, <3>3, <3>4, <3>5
  <2>5. ASSUME NEW c \in Final, AppendChunk(i, c), row[i] # "running"
        PROVE  Goal
    <3>1. UNCHANGED <<row, log>>
      BY <2>5 DEF AppendChunk
    <3> QED
      BY <2>3, <2>5, <3>1
  <2> QED
    BY <1>e, <2>2, <2>3, <2>4, <2>5
<1>2. CASE StreamEnds(i)
  <2>1. "cancelled" \in Final /\ "failed" \in Final
    BY DEF Final, Chunk
  <2>2. /\ Ends(i, free + 1)
        /\ UNCHANGED <<caller, cooling, post, shared, called, torn, outages>>
        /\ \/ work[i] = "emitted" /\ UNCHANGED <<row, log>>
           \/ work[i] = "calling" /\ AppendChunk(i, IF i \in stops THEN "cancelled" ELSE "failed")
    BY <1>2 DEF StreamEnds
  <2>3. CASE work[i] = "emitted" /\ UNCHANGED <<row, log>>
    BY <1>e, <2>2, <2>3
  <2>4. CASE work[i] = "calling" /\ AppendChunk(i, IF i \in stops THEN "cancelled" ELSE "failed")
    <3>1. \E c \in Final : AppendChunk(i, c)
      BY <2>1, <2>4
    <3> QED
      BY <1>e, <2>2, <2>4, <3>1
  <2> QED
    BY <2>2, <2>3, <2>4
<1>3. CASE StreamFails(i)
  <2>1. "failed" \in Final
    BY DEF Final, Chunk
  <2> QED
    BY <1>3, <1>e, <2>1 DEF StreamFails
<1>4. ASSUME NEW chunk \in {"part", "stop", "failed"}, Emit(i, chunk) PROVE Goal
  <2>0. /\ work[i] = "calling" /\ AppendChunk(i, chunk)
        /\ work' = [work EXCEPT ![i] = IF chunk = "part" THEN work[i] ELSE "emitted"]
        /\ UNCHANGED <<caller, cooling, post, free, stops, shared, called, torn, outages>>
    BY <1>4 DEF Emit
  <2>1. chunk \in Chunk /\ (chunk # "part" => chunk \in Final)
    BY <1>4 DEF Chunk, Final
  <2>2. row[i] = "running" /\ Open(log[i]) /\ i \notin torn
    BY <1>i, <2>0 DEF RowInv
  <2>3. /\ row' \in [Invocation -> RowState] /\ log' \in [Invocation -> Seq(Chunk)]
        /\ \A j \in Invocation : j # i => row'[j] = row[j] /\ log'[j] = log[j]
        /\ log'[i] = Append(log[i], chunk) /\ row'[i] = StateOf(chunk)
    BY <1>i, <2>0, <2>1, <2>2, Appended
  <2>4. /\ work' \in WorkSet /\ \A j \in Invocation : j # i => work'[j] = work[j]
        /\ chunk = "part" => work'[i] = "calling"
        /\ chunk # "part" => work'[i] = "emitted"
    BY <1>i, <2>0 DEF RemoteTyping, WorkSet
  <2>5. Slots' = Slots
    BY <2>0, <2>4 DEF Slots
  <2>6. RowInv(i)'
    <3>1. CASE chunk = "part"
      <4>1. row'[i] = "running" /\ Open(log'[i])
        BY <1>r, <2>1, <2>2, <2>3, <3>1, StatesOfChunks, LogGrows
      <4> QED
        BY <1>i, <2>0, <2>2, <2>4, <3>1, <4>1 DEF RowInv
    <3>2. CASE chunk # "part"
      <4>1. row'[i] \notin {"none", "running"} /\ Complete(log'[i])
        BY <1>r, <2>1, <2>2, <2>3, <3>2, StatesOfChunks, LogGrows
      <4> QED
        BY <1>i, <2>0, <2>2, <2>4, <3>2, <4>1 DEF RowInv
    <3> QED
      BY <3>1, <3>2
  <2>7. \A j \in Invocation : j # i => RowInv(j)'
    BY <1>o, <2>0, <2>3, <2>4
  <2>8. RemoteTyping'
    BY <1>i, <2>0, <2>3, <2>4 DEF RemoteTyping
  <2> QED
    BY <1>i, <1>w, <2>0, <2>1, <2>2, <2>3, <2>5, <2>6, <2>7, <2>8 DEF SlotInv
<1>5. CASE StoreFails(i)
  <2>0. /\ work[i] = "calling" /\ Outage /\ torn' = torn \cup {i} /\ Ends(i, free + 1)
        /\ UNCHANGED <<caller, cooling, post, row, log, shared, called>>
    BY <1>5 DEF StoreFails
  <2>1. /\ work' \in WorkSet /\ stops' \subseteq Invocation /\ free' \in 0..MaxConcurrency
        /\ SlotInv'
        /\ work'[i] = "none" /\ \A j \in Invocation : j # i => work'[j] = work[j]
    BY <1>i, <2>0, EndsFrees
  <2>2. outages' \in 0..MaxOutages
    BY <1>i, <2>0, OutageBound
  <2>3. RowInv(i)'
    BY <1>i, <2>0, <2>1 DEF RowInv
  <2>4. \A j \in Invocation : j # i => RowInv(j)'
    BY <1>o, <2>0, <2>1
  <2>5. RemoteTyping'
    BY <1>i, <2>0, <2>1, <2>2 DEF RemoteTyping
  <2> QED
    BY <1>w, <2>0, <2>1, <2>3, <2>4, <2>5
<1> QED
  BY <1>1, <1>2, <1>3, <1>4, <1>5 DEF Executing

\* What is true of a log stays true: a record that was told is not overtaken by the end of an
\* execution that is over, nor by the note of a restart where the end could not be written.
LEMMA ToldKept ==
  ASSUME RemoteInv, NEW i \in Invocation, NEW c \in Seq(Chunk), Told(i, c),
         \/ log'[i] = log[i] /\ (row'[i] = row[i] \/ row[i] = "none")
         \/ row[i] = "running" /\ \E chunk \in Chunk : log'[i] = Append(log[i], chunk),
         torn \subseteq torn'
  PROVE  Told(i, c)'
<1>1. RowInv(i) /\ log[i] \in Seq(Chunk)
  BY RemoteTypes DEF RemoteInv, RemoteTyping
<1>2. CASE i \in torn
  <2>1. IsPrefix(c, log[i]) /\ i \in torn'
    BY <1>2 DEF Told
  <2>2. IsPrefix(c, log'[i])
    <3>1. CASE log'[i] = log[i]
      BY <2>1, <3>1
    <3>2. ASSUME NEW chunk \in Chunk, log'[i] = Append(log[i], chunk) PROVE IsPrefix(c, log'[i])
      BY <1>1, <2>1, <3>2, PrefixGrows
    <3> QED
      BY <3>1, <3>2
  <2> QED
    BY <2>1, <2>2 DEF Told
<1>3. CASE i \notin torn
  <2>1. IsPrefix(c, log[i]) /\ c = log[i] /\ row[i] \notin {"none", "running"}
    BY <1>3 DEF Told
  <2>2. log'[i] = log[i] /\ row'[i] = row[i]
    BY <2>1
  <2> QED
    BY <2>1, <2>2 DEF Told
<1> QED
  BY <1>2, <1>3

\* Requests and the caller are told what is true when nothing but the log moves, requests are
\* silenced, and what is told is true.
LEMMA PostKept ==
  ASSUME RemoteInv,
         \A i \in Invocation :
            \/ log'[i] = log[i] /\ (row'[i] = row[i] \/ (row[i] = "none" /\ row'[i] # "none"))
            \/ /\ row[i] = "running" /\ row'[i] # "none"
               /\ \E chunk \in Chunk : log'[i] = Append(log[i], chunk),
         torn \subseteq torn',
         \A i \in Invocation, t \in Transport :
            \/ post'[i][t] = post[i][t]
            \/ Silent(post'[i][t])
            \/ post'[i][t].at = "held" /\ row'[i] # "none"
            \/ post'[i][t].at = "answered" /\ Told(i, post[i][t].chunks)',
         \A i \in Invocation : caller'[i].got = caller[i].got \/ Told(i, caller[i].got)'
  PROVE  \A i \in Invocation : PostInv(i)'
<1> SUFFICES ASSUME NEW i \in Invocation PROVE PostInv(i)'
  OBVIOUS
<1>0. RemoteTyping /\ PostInv(i) /\ RowInv(i)
  BY RemoteTypes DEF RemoteInv
<1>1. \A c \in Seq(Chunk) : Told(i, c) => Told(i, c)'
  BY ToldKept
<1>2. ASSUME NEW t \in Transport
      PROVE  /\ post'[i][t].at = "held" => row'[i] # "none"
             /\ post'[i][t].at = "answered" => Told(i, post[i][t].chunks)'
  <2>1. post[i][t].chunks \in Seq(Chunk)
    BY <1>0 DEF RemoteTyping, PostSet, PostRow
  <2>2. CASE post'[i][t] = post[i][t]
    <3>1. post[i][t].at = "held" => row'[i] # "none"
      BY <1>0 DEF PostInv
    <3>2. ASSUME post[i][t].at = "answered" PROVE Told(i, post[i][t].chunks)'
      <4>1. Told(i, post[i][t].chunks)
        BY <1>0, <3>2 DEF PostInv
      <4> DEFINE c == post[i][t].chunks
      <4>2. c \in Seq(Chunk) /\ Told(i, c) /\ post'[i][t].chunks = c
        BY <2>1, <2>2, <4>1
      <4>3. IsPrefix(c, log'[i]) /\ (i \in torn' \/ (c = log'[i] /\ row'[i] \notin {"none", "running"}))
        <5> HIDE DEF c
        <5>1. PICK d \in Seq(Chunk) : d = c
          BY <4>2
        <5>2. Told(i, d)'
          BY <1>1, <4>2, <5>1
        <5> QED
          BY <5>1, <5>2 DEF Told
      <4> QED
        BY <4>2, <4>3 DEF Told
    <3> QED
      BY <2>2, <3>1, <3>2
  <2>3. CASE Silent(post'[i][t])
    BY <2>3 DEF Silent
  <2>4. CASE post'[i][t].at = "held" /\ row'[i] # "none"
    BY <2>4
  <2>5. CASE post'[i][t].at = "answered" /\ Told(i, post[i][t].chunks)'
    BY <2>5
  <2> QED
    BY <2>2, <2>3, <2>4, <2>5
<1>3. caller'[i].got # <<>> => Told(i, caller[i].got)'
  <2>1. CASE Told(i, caller[i].got)'
    BY <2>1
  <2>2. ASSUME caller'[i].got = caller[i].got, caller[i].got # <<>> PROVE Told(i, caller[i].got)'
    <3>1. Told(i, caller[i].got) /\ caller[i].got \in Seq(Chunk)
      BY <1>0, <2>2 DEF PostInv, RemoteTyping, CallerSet, CallerRow
    <3>2. PICK d \in Seq(Chunk) : d = caller[i].got
      BY <3>1
    <3>3. Told(i, d)'
      BY <1>1, <3>1, <3>2
    <3> QED
      BY <2>2, <3>2, <3>3 DEF Told
  <2> QED
    BY <2>1, <2>2
<1> QED
  BY <1>2, <1>3 DEF PostInv

\* Steps that leave the rows alone.
LEMMA RowsStay ==
  ASSUME RemoteInv, UNCHANGED <<row, log, work, free, called, torn>>
  PROVE  SlotInv' /\ \A i \in Invocation : RowInv(i)'
<1>1. Slots' = Slots
  BY DEF Slots
<1> QED
  BY <1>1 DEF RemoteInv, SlotInv, RowInv

\* The steps of a caller.
LEMMA CallerStep ==
  ASSUME RemoteInv, NEW i \in Invocation,
         \/ Calling(i) \/ RelayBreaks(i) \/ CallerIsCancelled(i)
         \/ \E t \in Transport : Begin(i, t)
  PROVE  RemoteInv'
<1>i. RemoteTypeOK /\ RemoteTyping /\ \A j \in Invocation : PostInv(j) /\ RowInv(j)
  BY RemoteTypes DEF RemoteInv
<1>1. ASSUME CallerLeaves(i) \/ \E t \in Transport : Posts(i, t), cooling' \in BOOLEAN,
             UNCHANGED <<row, log, work, free, stops, shared, called, torn, outages>>
      PROVE  RemoteInv'
  <2>1. /\ caller' \in CallerSet /\ post' \in PostSet
        /\ \A j \in Invocation : caller'[j].got = caller[j].got
        /\ \A j \in Invocation, u \in Transport :
               post'[j][u] = post[j][u] \/ Silent(post'[j][u])
    BY <1>i, <1>1, CallerMoves
  <2>2. RemoteTypeOK'
    BY <1>i, <1>1, <2>1, RemoteTypes DEF RemoteTyping
  <2>3. \A j \in Invocation : PostInv(j)'
    BY <1>1, <2>1, PostKept
  <2> QED
    BY <1>1, <2>2, <2>3, RowsStay DEF RemoteInv
<1>2. ASSUME FallsBack(i) PROVE RemoteInv'
  BY <1>1, <1>2, <1>i, FallsBackMoves
<1>3. CASE Receive(i)
  <2> DEFINE t == caller[i].pc
             got == post[i][t].chunks
  <2>1. /\ t \in Transport /\ post[i][t].at = "answered"
        /\ caller' = [caller EXCEPT ![i] = [pc |-> "over", got |-> got]]
        /\ post' = [post EXCEPT ![i][t] = Unsent]
        /\ cooling' = (cooling /\ t # "p2p")
        /\ UNCHANGED <<row, log, work, free, stops, shared, called, torn, outages>>
    BY <1>3 DEF Receive
  <2>2. Told(i, got) /\ got \in Seq(Chunk)
    BY <1>i, <2>1 DEF PostInv, RemoteTyping, PostSet, PostRow
  <2>3. Unsent \in PostRow /\ Silent(Unsent)
    <3>1. <<>> \in Seq(Chunk)
      OBVIOUS
    <3> QED
      BY <3>1 DEF Unsent, PostRow, Silent
  <2>4. cooling' \in BOOLEAN
    BY <2>1, Zenon
  <2> HIDE DEF t, got
  <2>5. /\ caller' \in CallerSet /\ caller'[i].got = got
        /\ \A j \in Invocation : j # i => caller'[j] = caller[j]
    <3>1. [pc |-> "over", got |-> got] \in CallerRow
      BY <2>2 DEF CallerRow
    <3> QED
      BY <1>i, <2>1, <3>1 DEF RemoteTyping, CallerSet
  <2>6. /\ post' \in PostSet
        /\ \A j \in Invocation, u \in Transport :
               post'[j][u] = post[j][u] \/ Silent(post'[j][u])
    BY <1>i, <2>1, <2>3 DEF RemoteTyping, PostSet
  <2>7. RemoteTypeOK'
    BY <1>i, <2>1, <2>4, <2>5, <2>6, RemoteTypes DEF RemoteTyping
  <2>8. Told(i, caller[i].got)'
    BY <2>1, <2>2, <2>5 DEF Told
  <2>9. \A j \in Invocation : caller'[j].got = caller[j].got \/ Told(j, caller[j].got)'
    BY <2>5, <2>8
  <2>10. \A j \in Invocation : PostInv(j)'
    BY <2>1, <2>6, <2>9, PostKept
  <2> QED
    BY <2>1, <2>7, <2>10, RowsStay DEF RemoteInv
<1>4. CASE CallerIsCancelled(i)
  BY <1>1, <1>4, <1>i DEF CallerIsCancelled, RemoteTyping
<1>5. ASSUME NEW t \in Transport, Begin(i, t) PROVE RemoteInv'
  BY <1>1, <1>5, <1>i DEF Begin, RemoteTyping
<1> QED
  BY <1>2, <1>3, <1>4, <1>5 DEF Calling, RelayBreaks, IsRefused, TimesOut

\* The steps of the route.
LEMMA RouteStep ==
  ASSUME RemoteInv, NEW i \in Invocation, NEW t \in Transport, Invoke(i, t) \/ Answer(i, t)
  PROVE  RemoteInv'
<1>i. /\ RemoteTypeOK /\ RemoteTyping /\ SlotInv
      /\ \A j \in Invocation : PostInv(j) /\ RowInv(j)
  BY RemoteTypes DEF RemoteInv
<1>c. log[i] \in Seq(Chunk) /\ <<>> \in Seq(Chunk)
  BY <1>i DEF RemoteTyping
<1>r. \A j \in Invocation, u \in Transport : j # i => <<j, u>> # <<i, t>>
  OBVIOUS
<1>q. \A u \in Transport : u # t => <<i, u>> # <<i, t>>
  OBVIOUS
\* The log of an execution without a coroutine is told in full, unless it is torn.
<1>t. work[i] = "none" /\ row[i] # "none" => Told(i, log[i])
  BY <1>i, <1>c, PrefixGrows DEF Told, RowInv, Chunk
\* The answer of the route, when nothing else moves.
<1>1. ASSUME NEW at \in {"held", "answered", "refused"}, NEW chunks \in Seq(Chunk),
             Replies(i, t, at, chunks),
             at = "held" => row'[i] # "none",
             at = "answered" => chunks = log[i] /\ work[i] = "none" /\ row[i] # "none",
             UNCHANGED <<caller, log, torn>>,
             row' = row \/ (row[i] = "none" /\ row' = [row EXCEPT ![i] = "running"])
      PROVE  post' \in PostSet /\ \A j \in Invocation : PostInv(j)'
  <2>1. /\ post' \in PostSet
        /\ \A j \in Invocation, u \in Transport :
               <<j, u>> # <<i, t>> => post'[j][u] = post[j][u]
        /\ Silent(post'[i][t]) \/ post'[i][t] = [at |-> at, chunks |-> chunks]
    BY <1>1, <1>i, RepliesTo
  <2>2. \A j \in Invocation :
            log'[j] = log[j] /\ (row'[j] = row[j] \/ (row[j] = "none" /\ row'[j] # "none"))
    BY <1>1, <1>i DEF RemoteTyping
  <2>3. \/ Silent(post'[i][t])
        \/ post'[i][t].at = "held" /\ row'[i] # "none"
        \/ post'[i][t].at = "answered" /\ Told(i, post[i][t].chunks)'
    <3>1. CASE Silent(post'[i][t])
      BY <3>1
    <3>2. CASE post'[i][t] = [at |-> at, chunks |-> chunks] /\ at = "answered"
      <4>1. Told(i, chunks) /\ row[i] # "none" /\ post'[i][t].chunks = chunks
        BY <1>1, <1>t, <3>2
      <4>2. Told(i, post[i][t].chunks)'
        BY <1>1, <4>1 DEF Told
      <4> QED
        BY <3>2, <4>2
    <3>3. CASE post'[i][t] = [at |-> at, chunks |-> chunks] /\ at = "held"
      BY <1>1, <3>3
    <3>4. CASE post'[i][t] = [at |-> at, chunks |-> chunks] /\ at = "refused"
      BY <3>4 DEF Silent
    <3> QED
      BY <1>1, <2>1, <3>1, <3>2, <3>3, <3>4
  <2>4. \A j \in Invocation, u \in Transport :
            \/ post'[j][u] = post[j][u]
            \/ Silent(post'[j][u])
            \/ post'[j][u].at = "held" /\ row'[j] # "none"
            \/ post'[j][u].at = "answered" /\ Told(j, post[j][u].chunks)'
    <3> SUFFICES ASSUME NEW j \in Invocation, NEW u \in Transport
        PROVE  \/ post'[j][u] = post[j][u]
               \/ Silent(post'[j][u])
               \/ post'[j][u].at = "held" /\ row'[j] # "none"
               \/ post'[j][u].at = "answered" /\ Told(j, post[j][u].chunks)'
      OBVIOUS
    <3>1. CASE j = i /\ u = t
      BY <2>3, <3>1
    <3>2. CASE ~(j = i /\ u = t)
      BY <2>1, <3>2
    <3> QED
      BY <3>1, <3>2
  <2> QED
    BY <1>1, <2>1, <2>2, <2>4, PostKept
<1>2. CASE Invoke(i, t)
  <2>0. /\ \/ ~shared /\ Refused(i, t)
           \/ shared /\ Admits(i) /\ Created(i, t)
           \/ shared /\ ~Admits(i) /\ Found(i, t)
        /\ UNCHANGED <<caller, cooling, log, free, shared, called, torn, outages>>
    BY <1>2 DEF Invoke
  <2>1. CASE Refused(i, t)
    <3>1. Replies(i, t, "refused", <<>>) /\ UNCHANGED <<row, work, stops>>
      BY <2>1 DEF Refused
    <3>2. post' \in PostSet /\ \A j \in Invocation : PostInv(j)'
      BY <1>1, <1>c, <2>0, <3>1
    <3>3. RemoteTypeOK'
      BY <1>i, <2>0, <3>1, <3>2, RemoteTypes DEF RemoteTyping
    <3> QED
      BY <2>0, <3>1, <3>2, <3>3, RowsStay DEF RemoteInv
  <2>2. CASE Admits(i) /\ Created(i, t)
    <3>1. /\ row[i] = "none" /\ row' = [row EXCEPT ![i] = "running"]
          /\ work' = [work EXCEPT ![i] = "queued"] /\ stops' = stops \ {i}
          /\ Replies(i, t, "held", <<>>)
      BY <2>2 DEF Admits, Created
    <3>2. /\ row' \in [Invocation -> RowState] /\ work' \in WorkSet /\ stops' \subseteq Invocation
          /\ row'[i] = "running" /\ work'[i] = "queued"
          /\ \A j \in Invocation : j # i => row'[j] = row[j] /\ work'[j] = work[j]
      BY <1>i, <3>1 DEF RemoteTyping, WorkSet, RowState
    <3>3. post' \in PostSet /\ \A j \in Invocation : PostInv(j)'
      BY <1>1, <1>c, <2>0, <3>1, <3>2
    <3>4. RemoteTypeOK'
      BY <1>i, <2>0, <3>2, <3>3, RemoteTypes DEF RemoteTyping
    <3>5. log[i] = <<>> /\ work[i] = "none" /\ called[i] = 0 /\ i \notin torn
      BY <1>i, <3>1 DEF RowInv
    <3>6. Slots' = Slots
      BY <3>2, <3>5 DEF Slots
    <3>7. RowInv(i)'
      BY <2>0, <3>2, <3>5 DEF RowInv, Open
    <3>8. \A j \in Invocation : j # i => RowInv(j)'
      BY <1>i, <2>0, <3>2 DEF RowInv
    <3> QED
      BY <1>i, <2>0, <3>3, <3>4, <3>6, <3>7, <3>8 DEF RemoteInv, SlotInv
  <2>3. CASE ~Admits(i) /\ Found(i, t)
    <3>1. row[i] # "none" /\ UNCHANGED <<row, work, stops>>
      BY <2>3 DEF Admits, Found
    <3>2. post' \in PostSet /\ \A j \in Invocation : PostInv(j)'
      <4>1. CASE work[i] = "none"
        <5>1. Replies(i, t, "answered", log[i])
          BY <2>3, <4>1 DEF Found
        <5> QED
          BY <1>1, <1>c, <2>0, <3>1, <4>1, <5>1
      <4>2. CASE work[i] # "none"
        <5>1. Replies(i, t, "held", <<>>)
          BY <2>3, <4>2 DEF Found
        <5> QED
          BY <1>1, <1>c, <2>0, <3>1, <5>1
      <4> QED
        BY <4>1, <4>2
    <3>3. RemoteTypeOK'
      BY <1>i, <2>0, <3>1, <3>2, RemoteTypes DEF RemoteTyping
    <3> QED
      BY <2>0, <3>1, <3>2, <3>3, RowsStay DEF RemoteInv
  <2> QED
    BY <2>0, <2>1, <2>2, <2>3
<1>3. CASE Answer(i, t)
  <2>0. /\ post[i][t].at = "held" /\ work[i] = "none"
        /\ IF i \in torn THEN Replies(i, t, "refused", <<>>)
                         ELSE Replies(i, t, "answered", log[i])
        /\ UNCHANGED <<caller, cooling, row, log, work, free, stops, shared, called, torn, outages>>
    BY <1>3 DEF Answer
  <2>1. row[i] # "none"
    BY <1>i, <2>0 DEF PostInv
  <2>2. post' \in PostSet /\ \A j \in Invocation : PostInv(j)'
    <3>1. CASE i \in torn
      BY <1>1, <1>c, <2>0, <3>1
    <3>2. CASE i \notin torn
      BY <1>1, <1>c, <2>0, <2>1, <3>2
    <3> QED
      BY <3>1, <3>2
  <2>3. RemoteTypeOK'
    BY <1>i, <2>0, <2>2, RemoteTypes DEF RemoteTyping
  <2> QED
    BY <2>0, <2>2, <2>3, RowsStay DEF RemoteInv
<1> QED
  BY <1>2, <1>3

\* A restart of the target writes off what runs, with a note at the end of its log.
LEMMA RestartStep == RemoteInv /\ TargetRestarts => RemoteInv'
<1> SUFFICES ASSUME RemoteInv, TargetRestarts PROVE RemoteInv'
  OBVIOUS
<1>i. /\ RemoteTypeOK /\ RemoteTyping /\ SlotInv
      /\ \A j \in Invocation : PostInv(j) /\ RowInv(j)
  BY RemoteTypes DEF RemoteInv
<1>0. /\ row' = [i \in Invocation |-> IF row[i] = "running" THEN "outcome_unknown" ELSE row[i]]
      /\ log' = [i \in Invocation |-> IF row[i] = "running" THEN Append(log[i], "unknown")
                                                         ELSE log[i]]
      /\ work' = [i \in Invocation |-> "none"]
      /\ post' = [i \in Invocation |-> [t \in Transport |->
            IF post[i][t].at = "held" THEN [Unsent EXCEPT !.at = "refused"] ELSE post[i][t]]]
      /\ free' = MaxConcurrency /\ stops' = {} /\ Outage
      /\ UNCHANGED <<caller, cooling, shared, called, torn>>
  BY DEF TargetRestarts
<1>1. "unknown" \in Chunk /\ "unknown" # "part"
  BY DEF Chunk
<1>2. \A i \in Invocation : log[i] \in Seq(Chunk) /\ Append(log[i], "unknown") \in Seq(Chunk)
  BY <1>i, <1>1 DEF RemoteTyping
<1>3. /\ row' \in [Invocation -> RowState] /\ log' \in [Invocation -> Seq(Chunk)]
      /\ work' \in WorkSet
  BY <1>i, <1>0, <1>2 DEF RemoteTyping, RowState, WorkSet
<1>4. \A i \in Invocation :
         /\ work'[i] = "none"
         /\ row[i] = "running" => row'[i] = "outcome_unknown" /\ log'[i] = Append(log[i], "unknown")
         /\ row[i] # "running" => row'[i] = row[i] /\ log'[i] = log[i]
  BY <1>0
<1>5. \A i \in Invocation : RowInv(i)'
  <2> SUFFICES ASSUME NEW i \in Invocation PROVE RowInv(i)'
    OBVIOUS
  <2>1. CASE row[i] = "running"
    <3>1. Complete(log'[i])
      BY <1>i, <1>1, <1>2, <1>4, <2>1, LogGrows DEF RowInv
    <3> QED
      BY <1>i, <1>0, <1>4, <2>1, <3>1 DEF RowInv
  <2>2. CASE row[i] # "running"
    BY <1>i, <1>0, <1>4, <2>2 DEF RowInv
  <2> QED
    BY <2>1, <2>2
<1>6. SlotInv'
  <2>1. Slots' = {}
    BY <1>4 DEF Slots
  <2> QED
    BY <1>0, <2>1, FS_EmptySet, RemoteAssumption DEF SlotInv
<1>7. [Unsent EXCEPT !.at = "refused"] \in PostRow /\ Silent([Unsent EXCEPT !.at = "refused"])
  <2>1. <<>> \in Seq(Chunk)
    OBVIOUS
  <2>2. Unsent \in PostRow
    BY <2>1 DEF Unsent, PostRow
  <2> QED
    BY <2>2 DEF PostRow, Silent
<1>8. /\ post' \in PostSet
      /\ \A i \in Invocation, t \in Transport : post'[i][t] = post[i][t] \/ Silent(post'[i][t])
  BY <1>i, <1>0, <1>7 DEF RemoteTyping, PostSet
<1>9. \A i \in Invocation : PostInv(i)'
  <2>1. \A i \in Invocation :
            \/ log'[i] = log[i] /\ (row'[i] = row[i] \/ (row[i] = "none" /\ row'[i] # "none"))
            \/ /\ row[i] = "running" /\ row'[i] # "none"
               /\ \E chunk \in Chunk : log'[i] = Append(log[i], chunk)
    BY <1>1, <1>4
  <2> QED
    BY <1>0, <1>8, <2>1, PostKept
<1>10. RemoteTypeOK'
  <2>1. outages' \in 0..MaxOutages
    BY <1>0, <1>i, OutageBound
  <2> QED
    BY <1>i, <1>0, <1>3, <1>8, <2>1, RemoteAssumption, RemoteTypes DEF RemoteTyping
<1> QED
  BY <1>5, <1>6, <1>9, <1>10 DEF RemoteInv

\* The steps that touch neither rows nor requests.
LEMMA AsideStep ==
  RemoteInv /\ ((\E i \in Invocation : Cancel(i)) \/ CooledDown \/ Reconfigure
                \/ UNCHANGED rvars) => RemoteInv'
<1> SUFFICES ASSUME RemoteInv,
                    (\E i \in Invocation : Cancel(i)) \/ CooledDown \/ Reconfigure
                    \/ UNCHANGED rvars
    PROVE  RemoteInv'
  OBVIOUS
<1>i. RemoteTypeOK /\ RemoteTyping
  BY RemoteTypes DEF RemoteInv
<1>1. UNCHANGED <<caller, post, row, log, work, free, called, torn>>
  BY DEF Cancel, CooledDown, Reconfigure, rvars
<1>2. stops' \subseteq Invocation /\ cooling' \in BOOLEAN /\ shared' \in BOOLEAN
      /\ outages' \in 0..MaxOutages
  <2>1. CASE \E i \in Invocation : Cancel(i)
    BY <1>i, <2>1 DEF Cancel, RemoteTyping
  <2>2. CASE CooledDown
    BY <1>i, <2>2 DEF CooledDown, RemoteTyping
  <2>3. CASE Reconfigure
    BY <1>i, <2>3, OutageBound DEF Reconfigure, RemoteTyping
  <2>4. CASE UNCHANGED rvars
    BY <1>i, <2>4 DEF rvars, RemoteTyping
  <2> QED
    BY <2>1, <2>2, <2>3, <2>4
<1>3. RemoteTypeOK'
  BY <1>i, <1>1, <1>2, RemoteTypes DEF RemoteTyping
<1>4. \A i \in Invocation : PostInv(i)'
  BY <1>1, PostKept
<1> QED
  BY <1>1, <1>3, <1>4, RowsStay DEF RemoteInv

\* Every step keeps the invariant.
LEMMA RemoteStep == RemoteInv /\ [RemoteNext]_rvars => RemoteInv'
<1> SUFFICES ASSUME RemoteInv, [RemoteNext]_rvars PROVE RemoteInv'
  OBVIOUS
<1>1. ASSUME NEW i \in Invocation, Executing(i) \/ StoreFails(i) PROVE RemoteInv'
  <2>1. /\ RemoteTypeOK' /\ SlotInv'
        /\ UNCHANGED <<caller, post>>
        /\ \A j \in Invocation : RowInv(j)'
        /\ \A j \in Invocation : j # i => row'[j] = row[j] /\ log'[j] = log[j]
        /\ \/ row'[i] = row[i] /\ log'[i] = log[i]
           \/ row[i] = "running" /\ \E c \in Chunk : log'[i] = Append(log[i], c)
        /\ torn \subseteq torn'
    BY <1>1, ExecutionStep
  <2>2. \A c \in Chunk : log'[i] = Append(log[i], c) => row'[i] # "none"
    <3>1. log'[i] # <<>> => row'[i] # "none"
      BY <2>1 DEF RowInv
    <3>2. log[i] \in Seq(Chunk)
      BY RemoteTypes DEF RemoteInv, RemoteTyping
    <3>3. \A c \in Chunk : Append(log[i], c) # <<>>
      BY <3>2, AppendProperties
    <3> QED
      BY <3>1, <3>3
  <2>3. \A j \in Invocation :
            \/ log'[j] = log[j] /\ (row'[j] = row[j] \/ (row[j] = "none" /\ row'[j] # "none"))
            \/ /\ row[j] = "running" /\ row'[j] # "none"
               /\ \E chunk \in Chunk : log'[j] = Append(log[j], chunk)
    BY <2>1, <2>2
  <2>4. \A j \in Invocation : PostInv(j)'
    BY <2>1, <2>3, PostKept
  <2> QED
    BY <2>1, <2>4 DEF RemoteInv
<1>2. ASSUME NEW i \in Invocation,
             \/ Calling(i) \/ RelayBreaks(i) \/ CallerIsCancelled(i)
             \/ \E t \in Transport : Begin(i, t)
      PROVE  RemoteInv'
  BY <1>2, CallerStep
<1>3. ASSUME NEW i \in Invocation, NEW t \in Transport, Invoke(i, t) \/ Answer(i, t)
      PROVE  RemoteInv'
  BY <1>3, RouteStep
<1>4. CASE TargetRestarts
  BY <1>4, RestartStep
<1>5. CASE (\E i \in Invocation : Cancel(i)) \/ CooledDown \/ Reconfigure \/ UNCHANGED rvars
  BY <1>5, AsideStep
<1> QED
  BY <1>1, <1>2, <1>3, <1>4, <1>5 DEF RemoteNext, InvocationNext

\* The invariant holds in every state of RemoteModel, for any number of invocations that compete,
\* any concurrency of the deployment, any stream and any outages.
THEOREM RemoteInvariant == RemoteSpec => []RemoteInv
BY RemoteInitInv, RemoteStep, PTL DEF RemoteSpec

\* A model of another Node is called at most once for an invocation, whatever transports are
\* tried; its log has one end; the caller is told that log (invoke(), append(), _stream()).
THEOREM RemoteIsSound == RemoteSpec => []RemoteSound
BY RemoteInvariant, RemoteInvSound, PTL

-----------------------------------------------------------------------------
(* The client of an MCP server (McpClient)                                 *)

\* Where a call has the lock it asked for.
Held == {"checking", "stopping", "starting", "stuck", "flying", "served"}

\* AsyncRWLock: one writer and no readers beside it.
LockSound(l) ==
    /\ l.writer # {} => l.readers = {}
    /\ \A c, d \in l.writer : c = d

\* A queue in which everybody is counted and has one place of his own.
Queued(q, waiting) ==
    /\ \A k \in 1..Len(q) : q[k] \in waiting
    /\ \A j, k \in 1..Len(q) : q[j] = q[k] => j = k

\* Somebody who is counted is not in the queue.
Notified(q, waiting) == \E d \in waiting : \A k \in 1..Len(q) : q[k] # d

\* AsyncRWLock: who is queued is counted; who sleeps has somebody left to wake him up.
QueueSound(l) ==
    /\ l.asleep # {} => l.writer # {} \/ l.waiting # {}
    /\ l.queue # <<>> => l.writer # {} \/ l.readers # {} \/ Notified(l.queue, l.waiting)
    /\ Queued(l.queue, l.waiting)

\* The lock knows exactly the calls that are where they need it.
HoldInv ==
    /\ LockSound(rwlock)
    /\ \A c \in Call :
          /\ c \in rwlock.readers <=> actor[c].pc \in Held /\ actor[c].want = "read"
          /\ c \in rwlock.writer <=> actor[c].pc \in Held /\ actor[c].want = "write"
          /\ c \in rwlock.waiting => actor[c].pc = "locking" /\ actor[c].want = "write"
          /\ actor[c].pc \in Held \cup {"locking"} => actor[c].want # "none"
          /\ actor[c].want = "read" => c \in ReadOnly /\ ~actor[c].again

QueueInv == ~dropped => QueueSound(rwlock)

\* The session is that of the connection on the stack, which nobody has closed.
SessionInv == session = stack /\ (session # 0 => pipe[session] # "closed")

\* Owners are numbered in the order of their starts; who waits for a start knows the owner;
\* before the provider starts there is nothing.
OwnerInv ==
    /\ \E n \in 0..MaxOwners : \A g \in Owner : life[g] # "none" <=> g <= n
    /\ manager.pc = "off" =>
          /\ owner = 0
          /\ \A g \in Owner : life[g] = "none"
          /\ \A a \in Actor : actor[a].pc = "idle"
    /\ manager.pc = "starting" => manager.owner \in Owner
    /\ \A a \in Actor : /\ actor[a].pc = "starting" => actor[a].owner \in Owner
                        /\ actor[a].pc = "stuck" => dropped
    /\ OwnerIsKnown

\* The server runs a call once an attempt, and there is a second attempt only after an error.
RunInv ==
    \A c \in Call :
        /\ actor[c].pc = "idle" => ~actor[c].again
        /\ actor[c].pc \notin {"served", "done"} => ran[c] <= (IF actor[c].again THEN 1 ELSE 0)
        /\ actor[c].pc = "served" => ran[c] <= (IF actor[c].again THEN 2 ELSE 1)
        /\ c \in late => actor[c].pc = "done" /\ ran[c] <= 1

\* The inductive invariant of McpClient.
McpInv == McpTypeOK /\ HoldInv /\ QueueInv /\ SessionInv /\ OwnerInv /\ RunInv

\* The fields of a lock.
LEMMA LockFields ==
  ASSUME NEW l \in LockRow
  PROVE  /\ l.readers \subseteq Call /\ l.writer \subseteq Call /\ l.waiting \subseteq Call
         /\ l.asleep \subseteq Call /\ l.queue \in Seq(Call) /\ Len(l.queue) \in Nat
         /\ Range(l.queue) = {l.queue[k] : k \in 1..Len(l.queue)}
BY DEF LockRow, Range

\* notify(1) takes the first of the queue, who is still counted.
LEMMA NotifyWakes ==
  ASSUME NEW l \in LockRow
  PROVE  /\ NotifyWriter(l) \in LockRow
         /\ NotifyWriter(l).readers = l.readers /\ NotifyWriter(l).writer = l.writer
         /\ NotifyWriter(l).waiting = l.waiting /\ NotifyWriter(l).asleep = l.asleep
         /\ Queued(l.queue, l.waiting) =>
               /\ NotifyWriter(l).queue # <<>> => Notified(NotifyWriter(l).queue, l.waiting)
               /\ Queued(NotifyWriter(l).queue, l.waiting)
<1>f. l.queue \in Seq(Call) /\ Len(l.queue) \in Nat
  BY LockFields
<1>1. CASE l.queue = <<>>
  <2>1. NotifyWriter(l) = l
    BY <1>1 DEF NotifyWriter, LockRow
  <2> QED
    BY <1>1, <2>1
<1>2. CASE l.queue # <<>>
  <2>1. NotifyWriter(l) = [l EXCEPT !.queue = Tail(l.queue)]
    BY <1>2 DEF NotifyWriter
  <2>2. /\ Tail(l.queue) \in Seq(Call) /\ Len(Tail(l.queue)) = Len(l.queue) - 1
        /\ Len(l.queue) > 0
        /\ \A k \in 1..(Len(l.queue) - 1) : Tail(l.queue)[k] = l.queue[k + 1]
    BY <1>f, <1>2
  <2>3. /\ NotifyWriter(l) \in LockRow
        /\ NotifyWriter(l).readers = l.readers /\ NotifyWriter(l).writer = l.writer
        /\ NotifyWriter(l).waiting = l.waiting /\ NotifyWriter(l).asleep = l.asleep
        /\ NotifyWriter(l).queue = Tail(l.queue)
    BY <2>1, <2>2 DEF LockRow
  <2>4. ASSUME Queued(l.queue, l.waiting)
        PROVE  /\ NotifyWriter(l).queue # <<>> => Notified(NotifyWriter(l).queue, l.waiting)
               /\ Queued(NotifyWriter(l).queue, l.waiting)
    <3> DEFINE q == Tail(l.queue)
    <3>1. 1 \in 1..Len(l.queue) /\ \A k \in 1..Len(q) : k + 1 \in 1..Len(l.queue)
                                                     /\ q[k] = l.queue[k + 1] /\ k + 1 # 1
      BY <1>f, <2>2
    <3>2. l.queue[1] \in l.waiting /\ \A k \in 1..Len(q) : q[k] # l.queue[1]
      BY <2>4, <3>1 DEF Queued
    <3>3. \A k \in 1..Len(q) : q[k] \in l.waiting
      BY <2>4, <3>1 DEF Queued
    <3>4. \A j, k \in 1..Len(q) : q[j] = q[k] => j = k
      <4> SUFFICES ASSUME NEW j \in 1..Len(q), NEW k \in 1..Len(q), q[j] = q[k] PROVE j = k
        OBVIOUS
      <4>1. j + 1 = k + 1
        BY <2>4, <3>1 DEF Queued
      <4>2. j \in Int /\ k \in Int
        BY <1>f, <2>2
      <4> QED
        BY <4>1, <4>2
    <3> QED
      BY <2>3, <3>2, <3>3, <3>4 DEF Queued, Notified
  <2> QED
    BY <1>2, <2>3, <2>4
<1> QED
  BY <1>1, <1>2

\* What a call gives back is no longer held, whoever is notified, and somebody is.
LEMMA FreedLock ==
  ASSUME NEW l \in LockRow, NEW c, LockSound(l)
  PROVE  /\ Freed(l, c) \in LockRow
         /\ Freed(l, c).readers = l.readers \ {c} /\ Freed(l, c).writer = l.writer \ {c}
         /\ Freed(l, c).waiting = l.waiting
         /\ LockSound(Freed(l, c))
         /\ QueueSound(l) => QueueSound(Freed(l, c))
<1>f. l.queue \in Seq(Call) /\ Len(l.queue) \in Nat
  BY LockFields
<1>1. CASE c \in l.readers
  <2> DEFINE left == [l EXCEPT !.readers = l.readers \ {c}]
  <2>1. /\ left \in LockRow /\ left.readers = l.readers \ {c} /\ left.writer = l.writer
        /\ left.waiting = l.waiting /\ left.asleep = l.asleep /\ left.queue = l.queue
    BY DEF LockRow
  <2>2. Freed(l, c) = IF left.readers = {} THEN NotifyWriter(left) ELSE left
    BY <1>1 DEF Freed, EndRead
  <2>3. l.writer = {}
    BY <1>1 DEF LockSound
  <2> HIDE DEF left
  <2>4. CASE left.readers # {}
    <3>1. Freed(l, c) = left
      BY <2>2, <2>4
    <3>2. LockSound(left) /\ (QueueSound(l) => QueueSound(left))
      BY <2>1, <2>3, <2>4 DEF LockSound, QueueSound
    <3> QED
      BY <2>1, <2>3, <3>1, <3>2
  <2>5. CASE left.readers = {}
    <3>1. Freed(l, c) = NotifyWriter(left)
      BY <2>2, <2>5
    <3>2. /\ NotifyWriter(left) \in LockRow
          /\ NotifyWriter(left).readers = left.readers /\ NotifyWriter(left).writer = left.writer
          /\ NotifyWriter(left).waiting = left.waiting /\ NotifyWriter(left).asleep = left.asleep
      BY <2>1, NotifyWakes
    <3>3. ASSUME QueueSound(l) PROVE QueueSound(NotifyWriter(left))
      <4>1. Queued(left.queue, left.waiting)
        BY <2>1, <3>3 DEF QueueSound
      <4>2. /\ NotifyWriter(left).queue # <<>> => Notified(NotifyWriter(left).queue, left.waiting)
            /\ Queued(NotifyWriter(left).queue, left.waiting)
        BY <2>1, <4>1, NotifyWakes
      <4>3. l.asleep # {} => l.waiting # {}
        BY <2>3, <3>3 DEF QueueSound
      <4> QED
        BY <2>1, <3>2, <4>2, <4>3 DEF QueueSound
    <3>4. LockSound(NotifyWriter(left))
      BY <2>1, <2>3, <3>2 DEF LockSound
    <3> QED
      BY <2>1, <2>3, <3>1, <3>2, <3>3, <3>4
  <2> QED
    BY <2>4, <2>5
<1>2. CASE c \notin l.readers /\ c \in l.writer
  <2> DEFINE left == [l EXCEPT !.writer = {}]
  <2>1. /\ left \in LockRow /\ left.readers = l.readers /\ left.writer = {}
        /\ left.waiting = l.waiting /\ left.asleep = l.asleep /\ left.queue = l.queue
    BY DEF LockRow
  <2>2. Freed(l, c) = IF left.waiting # {} THEN NotifyWriter(left)
                                           ELSE [left EXCEPT !.asleep = {}]
    BY <1>2 DEF Freed, EndWrite
  <2>3. l.readers = {} /\ l.writer \ {c} = {}
    BY <1>2 DEF LockSound
  <2> HIDE DEF left
  <2>4. CASE left.waiting = {}
    <3>1. Freed(l, c) = [left EXCEPT !.asleep = {}]
      BY <2>2, <2>4
    <3>2. /\ Freed(l, c) \in LockRow /\ Freed(l, c).readers = l.readers /\ Freed(l, c).writer = {}
          /\ Freed(l, c).waiting = l.waiting /\ Freed(l, c).asleep = {}
          /\ Freed(l, c).queue = l.queue
      BY <2>1, <3>1 DEF LockRow
    <3>3. ASSUME QueueSound(l) PROVE QueueSound(Freed(l, c))
      <4>1. \A k \in 1..Len(l.queue) : l.queue[k] \in {}
        BY <2>1, <2>4, <3>3 DEF QueueSound, Queued
      <4>2. Len(l.queue) = 0
        BY <1>f, <4>1
      <4>3. l.queue = <<>>
        BY <1>f, <4>2
      <4> QED
        BY <3>2, <3>3, <4>3 DEF QueueSound
    <3> QED
      BY <2>3, <3>2, <3>3 DEF LockSound
  <2>5. CASE left.waiting # {}
    <3>1. Freed(l, c) = NotifyWriter(left)
      BY <2>2, <2>5
    <3>2. /\ NotifyWriter(left) \in LockRow
          /\ NotifyWriter(left).readers = left.readers /\ NotifyWriter(left).writer = left.writer
          /\ NotifyWriter(left).waiting = left.waiting /\ NotifyWriter(left).asleep = left.asleep
      BY <2>1, NotifyWakes
    <3>3. ASSUME QueueSound(l) PROVE QueueSound(NotifyWriter(left))
      <4>1. Queued(left.queue, left.waiting)
        BY <2>1, <3>3 DEF QueueSound
      <4>2. /\ NotifyWriter(left).queue # <<>> => Notified(NotifyWriter(left).queue, left.waiting)
            /\ Queued(NotifyWriter(left).queue, left.waiting)
        BY <2>1, <4>1, NotifyWakes
      <4> QED
        BY <2>1, <2>5, <3>2, <4>2 DEF QueueSound
    <3> QED
      BY <2>1, <2>3, <3>1, <3>2, <3>3 DEF LockSound
  <2> QED
    BY <2>4, <2>5
<1>3. CASE c \notin l.readers /\ c \notin l.writer
  <2>1. Freed(l, c) = l
    BY <1>3 DEF Freed
  <2> QED
    BY <1>3, <2>1
<1> QED
  BY <1>1, <1>2, <1>3

\* Who asks for the lock has it, or is counted or asleep while somebody else has it or is to.
LEMMA AskedLock ==
  ASSUME NEW l \in LockRow, NEW c \in Call, NEW want \in {"read", "write"}, LockSound(l),
         c \notin l.readers, c \notin l.writer
  PROVE  /\ Asked(l, c, want) \in LockRow
         /\ LockSound(Asked(l, c, want))
         /\ \A d \in Call :
               /\ d \in Asked(l, c, want).readers <=>
                     d \in l.readers \/ (d = c /\ Holds(Asked(l, c, want), c) /\ want = "read")
               /\ d \in Asked(l, c, want).writer <=>
                     d \in l.writer \/ (d = c /\ Holds(Asked(l, c, want), c) /\ want = "write")
               /\ d \in Asked(l, c, want).waiting =>
                     d \in l.waiting \/ (d = c /\ ~Holds(Asked(l, c, want), c))
         /\ c \in Asked(l, c, want).waiting =>
               ~Holds(Asked(l, c, want), c) \/ (want = "read" /\ c \in l.waiting)
         /\ (QueueSound(l) /\ c \notin Range(l.queue) /\ (c \in l.waiting => want = "write"))
               => QueueSound(Asked(l, c, want))
<1>f. /\ l.readers \subseteq Call /\ l.writer \subseteq Call /\ l.waiting \subseteq Call
      /\ l.queue \in Seq(Call) /\ Len(l.queue) \in Nat
      /\ Range(l.queue) = {l.queue[k] : k \in 1..Len(l.queue)}
  BY LockFields
<1> DEFINE r == Asked(l, c, want)
<1>1. CASE want = "read" /\ (l.writer # {} \/ l.waiting # {})
  <2>1. r = [l EXCEPT !.asleep = l.asleep \cup {c}]
    BY <1>1 DEF Asked, AskRead
  <2>2. /\ r \in LockRow /\ r.readers = l.readers /\ r.writer = l.writer
        /\ r.waiting = l.waiting /\ r.queue = l.queue
    BY <2>1 DEF LockRow
  <2> HIDE DEF r
  <2>3. ~Holds(r, c)
    BY <2>2 DEF Holds
  <2>4. LockSound(r) /\ (QueueSound(l) => QueueSound(r))
    BY <1>1, <2>2 DEF LockSound, QueueSound
  <2> QED
    BY <1>1, <2>2, <2>3, <2>4 DEF r
<1>2. CASE want = "read" /\ ~(l.writer # {} \/ l.waiting # {})
  <2>1. r = [l EXCEPT !.readers = l.readers \cup {c}]
    BY <1>2 DEF Asked, AskRead
  <2>2. /\ r \in LockRow /\ r.readers = l.readers \cup {c} /\ r.writer = l.writer
        /\ r.waiting = l.waiting /\ r.queue = l.queue /\ r.asleep = l.asleep
    BY <2>1 DEF LockRow
  <2> HIDE DEF r
  <2>3. Holds(r, c)
    BY <2>2 DEF Holds
  <2>4. LockSound(r) /\ (QueueSound(l) => QueueSound(r))
    BY <1>2, <2>2 DEF LockSound, QueueSound
  <2> QED
    BY <1>2, <2>2, <2>3, <2>4 DEF r
<1>3. CASE want = "write" /\ (l.writer # {} \/ l.readers # {})
  <2>1. r = [l EXCEPT !.waiting = l.waiting \cup {c}, !.queue = Append(l.queue, c)]
    BY <1>3 DEF Asked, AskWrite
  <2>2. /\ r \in LockRow /\ r.readers = l.readers /\ r.writer = l.writer
        /\ r.waiting = l.waiting \cup {c} /\ r.queue = Append(l.queue, c) /\ r.asleep = l.asleep
    <3>1. Append(l.queue, c) \in Seq(Call) /\ l.waiting \cup {c} \in SUBSET Call
      BY <1>f
    <3> HIDE DEF r
    <3> QED
      BY <2>1, <3>1 DEF LockRow
  <2> HIDE DEF r
  <2>3. ~Holds(r, c)
    BY <2>2 DEF Holds
  <2>4. /\ Len(r.queue) = Len(l.queue) + 1 /\ r.queue[Len(l.queue) + 1] = c
        /\ \A k \in 1..Len(l.queue) : r.queue[k] = l.queue[k]
    BY <1>f, <2>2
  <2>5. ASSUME Queued(l.queue, l.waiting), c \notin Range(l.queue)
        PROVE  Queued(r.queue, r.waiting)
    <3>1. \A k \in 1..Len(l.queue) : l.queue[k] # c
      BY <1>f, <2>5
    <3>2. \A k \in 1..Len(r.queue) : k \in 1..Len(l.queue) \/ k = Len(l.queue) + 1
      BY <1>f, <2>4
    <3>3. \A k \in 1..Len(r.queue) : r.queue[k] \in r.waiting
      BY <2>2, <2>4, <2>5, <3>2 DEF Queued
    <3>4. \A j, k \in 1..Len(r.queue) : r.queue[j] = r.queue[k] => j = k
      BY <2>4, <2>5, <3>1, <3>2 DEF Queued
    <3> QED
      BY <3>3, <3>4 DEF Queued
  <2>6. (QueueSound(l) /\ c \notin Range(l.queue)) => QueueSound(r)
    BY <1>3, <2>2, <2>5 DEF QueueSound
  <2>7. LockSound(r)
    BY <2>2 DEF LockSound
  <2> QED
    BY <1>3, <2>2, <2>3, <2>6, <2>7 DEF r
<1>4. CASE want = "write" /\ ~(l.writer # {} \/ l.readers # {})
  <2>1. r = [l EXCEPT !.waiting = l.waiting \ {c}, !.writer = {c}]
    BY <1>4 DEF Asked, AskWrite
  <2>2. /\ r \in LockRow /\ r.readers = l.readers /\ r.writer = {c}
        /\ r.waiting = l.waiting \ {c} /\ r.queue = l.queue /\ r.asleep = l.asleep
    <3>1. {c} \in SUBSET Call /\ l.waiting \ {c} \in SUBSET Call
      BY <1>f
    <3> HIDE DEF r
    <3> QED
      BY <2>1, <3>1 DEF LockRow
  <2> HIDE DEF r
  <2>3. Holds(r, c) /\ c \notin r.waiting
    BY <2>2 DEF Holds
  <2>4. LockSound(r)
    BY <1>4, <2>2 DEF LockSound
  <2>5. (QueueSound(l) /\ c \notin Range(l.queue)) => QueueSound(r)
    BY <1>f, <2>2 DEF QueueSound, Queued
  <2> QED
    BY <1>4, <2>2, <2>3, <2>4, <2>5 DEF r
<1> QED
  BY <1>1, <1>2, <1>3, <1>4

\* Who gives up the wait is counted no more; the holders are as they were.
LEMMA GivenUpLock ==
  ASSUME NEW l \in LockRow, NEW c \in Call, NEW passes \in BOOLEAN
  PROVE  /\ GivesUp(l, c, passes) \in LockRow
         /\ GivesUp(l, c, passes).readers = l.readers /\ GivesUp(l, c, passes).writer = l.writer
         /\ GivesUp(l, c, passes).waiting = l.waiting \ {c}
<1>f. l.queue \in Seq(Call) /\ Len(l.queue) \in Nat /\ DOMAIN l.queue = 1..Len(l.queue)
  BY LockFields
<1>1. Without(l.queue, c) \in Seq(Call)
  <2>1. CASE c \in Range(l.queue)
    <3> DEFINE k == CHOOSE k \in DOMAIN l.queue : l.queue[k] = c
    <3>1. \E n \in DOMAIN l.queue : l.queue[n] = c
      BY <2>1 DEF Range
    <3>2. k \in DOMAIN l.queue
      BY <3>1, Zenon
    <3>3. k \in 1..Len(l.queue)
      BY <1>f, <3>2
    <3> HIDE DEF k
    <3>4. SubSeq(l.queue, 1, k - 1) \in Seq(Call) /\ SubSeq(l.queue, k + 1, Len(l.queue)) \in Seq(Call)
      BY <1>f, <3>3
    <3>5. RemoveAt(l.queue, k) \in Seq(Call)
      BY <3>4 DEF RemoveAt
    <3>6. Without(l.queue, c) = RemoveAt(l.queue, k)
      BY <2>1 DEF Without, k
    <3> QED
      BY <3>5, <3>6
  <2>2. CASE c \notin Range(l.queue)
    BY <1>f, <2>2 DEF Without
  <2> QED
    BY <2>1, <2>2
<1> DEFINE q == Without(l.queue, c)
           gone == [l EXCEPT !.waiting = l.waiting \ {c}, !.asleep = l.asleep \ {c}, !.queue = q]
<1>2. GivesUp(l, c, passes) = IF passes /\ c \in l.waiting THEN NotifyWriter(gone) ELSE gone
  BY DEF GivesUp
<1> HIDE DEF q
<1>3. /\ gone \in LockRow /\ gone.readers = l.readers /\ gone.writer = l.writer
      /\ gone.waiting = l.waiting \ {c}
  BY <1>1 DEF LockRow, q
<1> HIDE DEF gone
<1> QED
  BY <1>2, <1>3, NotifyWakes

ActorSet == [Actor -> ActorRow]

\* One actor moves, the others stay.
Only(a) == \A b \in Actor : b # a => actor'[b] = actor[b]

\* An actor that leaves gives back what it holds.
LEMMA LeavesRow ==
  ASSUME McpTypeOK, HoldInv, NEW a \in Actor, Leaves(a), actor[a].pc # "locking"
  PROVE  /\ actor' \in ActorSet /\ Only(a)
         /\ actor'[a].pc = "done" /\ ~actor'[a].again
         /\ rwlock' \in LockRow /\ HoldInv'
         /\ QueueSound(rwlock) => QueueSound(rwlock')
<1>t. actor \in ActorSet /\ rwlock \in LockRow /\ LockSound(rwlock)
  BY DEF McpTypeOK, ActorSet, HoldInv
<1>1. /\ actor' \in ActorSet /\ Only(a)
      /\ actor'[a].pc = "done" /\ actor'[a].want = "none" /\ ~actor'[a].again
  <2> DEFINE R == [Absent EXCEPT !.pc = "done"]
  <2>1. Absent \in ActorRow
    BY McpAssumption DEF Absent, ActorRow, ActorPc
  <2>2. R \in ActorRow /\ R.pc = "done" /\ R.want = "none" /\ R.again = FALSE
    BY <2>1 DEF Absent, ActorRow, ActorPc
  <2>3. actor' = [actor EXCEPT ![a] = R]
    BY DEF Leaves
  <2> HIDE DEF R
  <2> QED
    BY <1>t, <2>2, <2>3 DEF ActorSet, Only
<1>2. rwlock' = Freed(rwlock, a)
  BY DEF Leaves
<1>3. /\ Freed(rwlock, a) \in LockRow
      /\ Freed(rwlock, a).readers = rwlock.readers \ {a}
      /\ Freed(rwlock, a).writer = rwlock.writer \ {a}
      /\ Freed(rwlock, a).waiting = rwlock.waiting
      /\ LockSound(Freed(rwlock, a))
      /\ QueueSound(rwlock) => QueueSound(Freed(rwlock, a))
  BY <1>t, FreedLock
<1>4. ASSUME NEW c \in Call
      PROVE  /\ c \in rwlock'.readers <=> actor'[c].pc \in Held /\ actor'[c].want = "read"
             /\ c \in rwlock'.writer <=> actor'[c].pc \in Held /\ actor'[c].want = "write"
             /\ c \in rwlock'.waiting => actor'[c].pc = "locking" /\ actor'[c].want = "write"
             /\ actor'[c].pc \in Held \cup {"locking"} => actor'[c].want # "none"
             /\ actor'[c].want = "read" => c \in ReadOnly /\ ~actor'[c].again
  <2>1. CASE c = a
    BY <1>1, <1>2, <1>3, <2>1 DEF HoldInv, Held
  <2>2. CASE c # a
    <3>1. actor'[c] = actor[c]
      BY <1>1, <2>2 DEF Only, Actor
    <3>2. /\ c \in rwlock'.readers <=> c \in rwlock.readers
          /\ c \in rwlock'.writer <=> c \in rwlock.writer
          /\ c \in rwlock'.waiting <=> c \in rwlock.waiting
      BY <1>2, <1>3, <2>2
    <3> QED
      BY <3>1, <3>2 DEF HoldInv
  <2> QED
    BY <2>1, <2>2
<1>5. LockSound(rwlock')
  BY <1>2, <1>3
<1>6. HoldInv'
  BY <1>4, <1>5 DEF HoldInv, LockSound
<1> QED
  BY <1>1, <1>2, <1>3, <1>6

\* An actor that goes from one place to another where it has the lock, and does not touch it.
LEMMA StaysRow ==
  ASSUME McpTypeOK, HoldInv, NEW a \in Actor, a = Bridge \/ actor[a].pc \in Held,
         NEW pc \in Held, NEW g \in 0..MaxOwners,
         actor' = [actor EXCEPT ![a].pc = pc, ![a].owner = g], UNCHANGED rwlock
  PROVE  /\ actor' \in ActorSet /\ Only(a)
         /\ actor'[a].pc = pc /\ actor'[a].owner = g /\ actor'[a].again = actor[a].again
         /\ HoldInv'
<1>t. actor \in ActorSet
  BY DEF McpTypeOK, ActorSet
<1>1. /\ actor' \in ActorSet /\ Only(a)
      /\ actor'[a].pc = pc /\ actor'[a].owner = g
      /\ actor'[a].again = actor[a].again /\ actor'[a].want = actor[a].want
  BY <1>t DEF ActorSet, ActorRow, Only, ActorPc, Held
<1>2. \A c \in Call : /\ actor'[c].want = actor[c].want /\ actor'[c].again = actor[c].again
                      /\ actor'[c].pc \in Held <=> actor[c].pc \in Held
                      /\ actor[c].pc = "locking" <=> actor'[c].pc = "locking"
  BY <1>1, McpAssumption DEF Only, Actor, Held
<1>3. \A c \in Call :
             /\ c \in rwlock'.readers <=> actor'[c].pc \in Held /\ actor'[c].want = "read"
             /\ c \in rwlock'.writer <=> actor'[c].pc \in Held /\ actor'[c].want = "write"
             /\ c \in rwlock'.waiting => actor'[c].pc = "locking" /\ actor'[c].want = "write"
             /\ actor'[c].pc \in Held \cup {"locking"} => actor'[c].want # "none"
             /\ actor'[c].want = "read" => c \in ReadOnly /\ ~actor'[c].again
  BY <1>2 DEF HoldInv
<1>4. LockSound(rwlock')
  BY DEF HoldInv
<1>5. HoldInv'
  BY <1>3, <1>4 DEF HoldInv, LockSound
<1> QED
  BY <1>1, <1>5

\* A call that asks for the lock has it or sleeps.
LEMMA WaitsRow ==
  ASSUME McpTypeOK, HoldInv, NEW c \in Call, NEW want \in {"read", "write"}, NEW again \in BOOLEAN,
         want = "read" => c \in ReadOnly /\ ~again,
         NEW l \in LockRow, LockSound(l),
         \A d \in Call : d # c => /\ d \in l.readers <=> d \in rwlock.readers
                                  /\ d \in l.writer <=> d \in rwlock.writer
                                  /\ d \in l.waiting <=> d \in rwlock.waiting,
         c \notin l.readers, c \notin l.writer, c \in l.waiting => want = "write",
         Waits(c, want, again, l)
  PROVE  /\ actor' \in ActorSet /\ Only(c)
         /\ actor'[c].pc \in {"checking", "locking"} /\ actor'[c].again = again
         /\ rwlock' \in LockRow /\ HoldInv'
         /\ (QueueSound(l) /\ c \notin Range(l.queue)) => QueueSound(rwlock')
<1>t. actor \in ActorSet
  BY DEF McpTypeOK, ActorSet
<1> DEFINE asked == Asked(l, c, want)
<1>1. /\ rwlock' = asked
      /\ actor' = [actor EXCEPT ![c] =
              [pc |-> IF Holds(asked, c) THEN "checking" ELSE "locking",
               want |-> want, owner |-> 0, again |-> again]]
  BY DEF Waits
<1>2. /\ asked \in LockRow /\ LockSound(asked)
      /\ \A d \in Call :
               /\ d \in asked.readers <=>
                     d \in l.readers \/ (d = c /\ Holds(asked, c) /\ want = "read")
               /\ d \in asked.writer <=>
                     d \in l.writer \/ (d = c /\ Holds(asked, c) /\ want = "write")
               /\ d \in asked.waiting =>
                     d \in l.waiting \/ (d = c /\ ~Holds(asked, c))
      /\ c \in asked.waiting => ~Holds(asked, c) \/ (want = "read" /\ c \in l.waiting)
      /\ (QueueSound(l) /\ c \notin Range(l.queue) /\ (c \in l.waiting => want = "write"))
               => QueueSound(asked)
  BY AskedLock
<1>3. want = "read" => c \notin asked.waiting
  <2>1. ASSUME want = "read" PROVE asked.waiting = l.waiting
    BY <2>1 DEF Asked, AskRead, LockRow
  <2> QED
    BY <2>1
<1> HIDE DEF asked
<1>4. /\ actor' \in ActorSet /\ Only(c)
      /\ actor'[c].pc = (IF Holds(asked, c) THEN "checking" ELSE "locking")
      /\ actor'[c].want = want /\ actor'[c].again = again
  <2>1. [pc |-> IF Holds(asked, c) THEN "checking" ELSE "locking",
         want |-> want, owner |-> 0, again |-> again] \in ActorRow
    BY McpAssumption DEF ActorRow, ActorPc
  <2> QED
    BY <1>1, <1>t, <2>1 DEF ActorSet, Only, Actor
<1>5. ASSUME NEW d \in Call
      PROVE  /\ d \in rwlock'.readers <=> actor'[d].pc \in Held /\ actor'[d].want = "read"
             /\ d \in rwlock'.writer <=> actor'[d].pc \in Held /\ actor'[d].want = "write"
             /\ d \in rwlock'.waiting => actor'[d].pc = "locking" /\ actor'[d].want = "write"
             /\ actor'[d].pc \in Held \cup {"locking"} => actor'[d].want # "none"
             /\ actor'[d].want = "read" => d \in ReadOnly /\ ~actor'[d].again
  <2>1. CASE d = c
    BY <1>1, <1>2, <1>3, <1>4, <2>1 DEF Held
  <2>2. CASE d # c
    <3>1. actor'[d] = actor[d]
      BY <1>4, <2>2 DEF Only, Actor
    <3>2. /\ d \in rwlock'.readers <=> d \in rwlock.readers
          /\ d \in rwlock'.writer <=> d \in rwlock.writer
          /\ d \in rwlock'.waiting => d \in rwlock.waiting
      BY <1>1, <1>2, <2>2
    <3> QED
      BY <3>1, <3>2 DEF HoldInv
  <2> QED
    BY <2>1, <2>2
<1>6. LockSound(rwlock')
  BY <1>1, <1>2
<1>7. HoldInv'
  BY <1>5, <1>6 DEF HoldInv, LockSound
<1> QED
  BY <1>1, <1>2, <1>4, <1>7

\* The steps of an actor that restarts the owner or goes on to send.
LEMMA RestartRow ==
  ASSUME McpTypeOK, HoldInv, NEW a \in Actor, Restarting(a)
  PROVE  /\ actor' \in ActorSet /\ Only(a)
         /\ actor[a].pc \in {"checking", "stopping", "starting", "stuck"}
         /\ actor'[a].pc \in {"flying", "done", "stopping", "starting"}
         /\ actor'[a].pc # "done" => actor'[a].again = actor[a].again
         /\ actor'[a].pc = "starting" => actor'[a].owner \in Owner
         /\ rwlock' \in LockRow /\ HoldInv'
         /\ QueueSound(rwlock) => QueueSound(rwlock')
         /\ UNCHANGED <<pipe, session, stack, manager, ran, late, dropped, troubles>>
<1> DEFINE Goal ==
         /\ actor' \in ActorSet /\ Only(a)
         /\ actor'[a].pc \in {"flying", "done", "stopping", "starting"}
         /\ actor'[a].pc # "done" => actor'[a].again = actor[a].again
         /\ actor'[a].pc = "starting" => actor'[a].owner \in Owner
         /\ rwlock' \in LockRow /\ HoldInv'
         /\ QueueSound(rwlock) => QueueSound(rwlock')
<1>1. actor[a].pc \in {"checking", "stopping", "starting", "stuck"}
  BY DEF Restarting, Check, Reconnect, OwnerHasStopped, OwnerHasStarted, OwnerHasFailed, ActorAt
<1>2. actor[a].pc \in Held /\ actor[a].pc # "locking"
  BY <1>1 DEF Held
<1>3. UNCHANGED <<pipe, session, stack, manager, ran, late, dropped, troubles>>
  BY DEF Restarting, Check, Reconnect, OwnerHasStopped, OwnerHasStarted, OwnerHasFailed
<1>t. owner \in 0..MaxOwners /\ session \in 0..MaxOwners /\ rwlock \in LockRow
  BY DEF McpTypeOK
<1>4. ASSUME Leaves(a) PROVE Goal
  BY <1>2, <1>4, LeavesRow
<1>5. ASSUME Sends(a) PROVE Goal
  <2>1. CASE session = 0
    BY <1>4, <1>5, <2>1 DEF Sends
  <2>2. CASE session # 0
    <3>1. actor' = [actor EXCEPT ![a].pc = "flying", ![a].owner = session] /\ UNCHANGED rwlock
      BY <1>5, <2>2 DEF Sends
    <3>2. "flying" \in Held
      BY DEF Held
    <3>3. /\ actor' \in ActorSet /\ Only(a)
          /\ actor'[a].pc = "flying" /\ actor'[a].again = actor[a].again
          /\ HoldInv'
      BY <1>2, <1>t, <3>1, <3>2, StaysRow
    <3> QED
      BY <1>t, <3>1, <3>3
  <2> QED
    BY <2>1, <2>2
<1>6. ASSUME StopsOwner(a) PROVE Goal
  <2>1. actor' = [actor EXCEPT ![a].pc = "stopping", ![a].owner = owner] /\ UNCHANGED rwlock
    BY <1>6 DEF StopsOwner
  <2>2. "stopping" \in Held
    BY DEF Held
  <2>3. /\ actor' \in ActorSet /\ Only(a)
        /\ actor'[a].pc = "stopping" /\ actor'[a].again = actor[a].again
        /\ HoldInv'
    BY <1>2, <1>t, <2>1, <2>2, StaysRow
  <2> QED
    BY <1>t, <2>1, <2>3
<1>7. ASSUME StartsOwner(a) PROVE Goal
  <2>1. actor' = [actor EXCEPT ![a].pc = "starting", ![a].owner = NextOwner] /\ UNCHANGED rwlock
        /\ NextOwner \in Owner
    BY <1>7 DEF StartsOwner
  <2>2. "starting" \in Held /\ NextOwner \in 0..MaxOwners
    BY <2>1 DEF Held, Owner
  <2> HIDE DEF Goal
  <2>3. /\ actor' \in ActorSet /\ Only(a)
        /\ actor'[a].pc = "starting" /\ actor'[a].owner = NextOwner
        /\ actor'[a].again = actor[a].again
        /\ HoldInv'
    BY ZenonT(30), <1>2, <2>1, <2>2, StaysRow
  <2> QED
    BY <1>t, <2>1, <2>3 DEF Goal
<1>8. Goal
  <2>1. CASE Check(a)
    BY <1>5, <1>6, <2>1 DEF Check
  <2>2. CASE Reconnect(a)
    BY <1>6, <1>7, <2>2 DEF Reconnect
  <2>3. CASE OwnerHasStopped(a)
    BY <1>4, <1>7, <2>3 DEF OwnerHasStopped
  <2>4. CASE OwnerHasStarted(a)
    BY <1>5, <2>4 DEF OwnerHasStarted
  <2>5. CASE OwnerHasFailed(a)
    BY <1>4, <2>5 DEF OwnerHasFailed
  <2> QED
    BY <2>1, <2>2, <2>3, <2>4, <2>5 DEF Restarting
<1> QED
  BY <1>1, <1>3, <1>8

\* The steps of a call that do not restart the owner.
LEMMA CallRow ==
  ASSUME McpTypeOK, HoldInv, QueueInv, NEW c \in Call,
         \/ Enter(c) \/ WakesUp(c) \/ ServerRuns(c) \/ Flying(c)
         \/ \E passes \in BOOLEAN : CallIsCancelled(c, passes)
  PROVE  /\ actor' \in ActorSet /\ Only(c)
         /\ rwlock' \in LockRow /\ HoldInv'
         /\ QueueInv'
         /\ \/ /\ actor[c].pc = "idle" /\ manager.pc = "running"
               /\ actor'[c].pc \in {"checking", "locking"} /\ ~actor'[c].again
               /\ UNCHANGED <<ran, late, dropped, troubles>>
            \/ /\ actor[c].pc = "locking"
               /\ actor'[c].pc \in {"checking", "locking"} /\ actor'[c].again = actor[c].again
               /\ UNCHANGED <<ran, late, dropped, troubles>>
            \/ /\ actor[c].pc = "flying" /\ actor'[c].pc = "served"
               /\ actor'[c].again = actor[c].again
               /\ ran' = [ran EXCEPT ![c] = @ + 1]
               /\ UNCHANGED <<late, dropped, troubles>>
            \/ /\ InFlight(c)
               /\ actor'[c].pc \in {"checking", "locking"} /\ actor'[c].again /\ ~actor[c].again
               /\ UNCHANGED <<ran, late, dropped, troubles>>
            \/ /\ InFlight(c) /\ actor'[c].pc = "done" /\ ~actor'[c].again
               /\ late' = late \/ (late' = late \cup {c} /\ ~actor[c].again)
               /\ UNCHANGED <<ran, dropped, troubles>>
            \/ /\ actor[c].pc \in {"locking", "stopping", "flying", "served"}
               /\ actor'[c].pc = "done" /\ ~actor'[c].again
               /\ dropped' = TRUE /\ Trouble /\ UNCHANGED <<ran, late>>
            \/ /\ actor[c].pc = "starting" /\ actor'[c].pc = "stuck"
               /\ actor'[c].again = actor[c].again
               /\ dropped' = TRUE /\ Trouble /\ UNCHANGED <<ran, late>>
         /\ UNCHANGED <<owner, life, told, pipe, session, stack, watch, manager>>
<1>t. actor \in ActorSet /\ rwlock \in LockRow /\ LockSound(rwlock) /\ c \in Actor
  BY DEF McpTypeOK, ActorSet, HoldInv, Actor
<1>f. /\ Range(rwlock.queue) = {rwlock.queue[k] : k \in 1..Len(rwlock.queue)}
  BY <1>t, LockFields
<1>u. UNCHANGED <<owner, life, told, pipe, session, stack, watch, manager>>
  BY DEF Enter, WakesUp, ServerRuns, Flying, CallReturns, CallFails, CallIsCancelled
<1>h. /\ c \in rwlock.readers <=> actor[c].pc \in Held /\ actor[c].want = "read"
      /\ c \in rwlock.writer <=> actor[c].pc \in Held /\ actor[c].want = "write"
      /\ c \in rwlock.waiting => actor[c].pc = "locking" /\ actor[c].want = "write"
      /\ actor[c].pc \in Held \cup {"locking"} => actor[c].want # "none"
      /\ actor[c].want = "read" => c \in ReadOnly /\ ~actor[c].again
  BY DEF HoldInv
<1>q. QueueSound(rwlock) => \A k \in 1..Len(rwlock.queue) : rwlock.queue[k] \in rwlock.waiting
  BY DEF QueueSound, Queued
<1>1. CASE Enter(c)
  <2>1. /\ actor[c].pc = "idle" /\ manager.pc = "running"
        /\ Waits(c, IF c \in ReadOnly THEN "read" ELSE "write", FALSE, rwlock)
        /\ UNCHANGED <<ran, late, dropped, troubles>>
    BY <1>1 DEF Enter, ActorAt
  <2> DEFINE want == IF c \in ReadOnly THEN "read" ELSE "write"
  <2>2. want \in {"read", "write"} /\ (want = "read" => c \in ReadOnly) /\ FALSE \in BOOLEAN
        /\ Waits(c, want, FALSE, rwlock)
    BY <2>1
  <2>3. c \notin rwlock.readers /\ c \notin rwlock.writer /\ c \notin rwlock.waiting
    BY <1>h, <2>1 DEF Held
  <2> HIDE DEF want
  <2>4. /\ actor' \in ActorSet /\ Only(c)
        /\ actor'[c].pc \in {"checking", "locking"} /\ actor'[c].again = FALSE
        /\ rwlock' \in LockRow /\ HoldInv'
        /\ (QueueSound(rwlock) /\ c \notin Range(rwlock.queue)) => QueueSound(rwlock')
    BY <1>t, <2>2, <2>3, WaitsRow
  <2>5. QueueInv'
    BY <1>f, <1>q, <2>1, <2>3, <2>4 DEF QueueInv
  <2> QED
    BY <1>u, <2>1, <2>4, <2>5
<1>2. CASE WakesUp(c)
  <2>1. /\ actor[c].pc = "locking" /\ ~Sleeps(rwlock, c)
        /\ Waits(c, actor[c].want, actor[c].again, rwlock)
        /\ UNCHANGED <<ran, late, dropped, troubles>>
    BY <1>2 DEF WakesUp, ActorAt
  <2>2. /\ actor[c].want \in {"read", "write"} /\ actor[c].again \in BOOLEAN
        /\ actor[c].want = "read" => c \in ReadOnly /\ ~actor[c].again
    BY <1>h, <1>t, <2>1 DEF ActorSet, ActorRow
  <2>3. c \notin rwlock.readers /\ c \notin rwlock.writer /\ c \notin Range(rwlock.queue)
        /\ (c \in rwlock.waiting => actor[c].want = "write")
    BY <1>h, <2>1 DEF Held, Sleeps
  <2>4. /\ actor' \in ActorSet /\ Only(c)
        /\ actor'[c].pc \in {"checking", "locking"} /\ actor'[c].again = actor[c].again
        /\ rwlock' \in LockRow /\ HoldInv'
        /\ (QueueSound(rwlock) /\ c \notin Range(rwlock.queue)) => QueueSound(rwlock')
    <3> DEFINE want == actor[c].want
               again == actor[c].again
    <3>1. /\ want \in {"read", "write"} /\ again \in BOOLEAN
          /\ want = "read" => c \in ReadOnly /\ ~again
          /\ c \in rwlock.waiting => want = "write"
          /\ Waits(c, want, again, rwlock)
      BY <2>1, <2>2, <2>3
    <3>2. again = actor[c].again
      OBVIOUS
    <3> HIDE DEF want, again
    <3>3. /\ actor' \in ActorSet /\ Only(c)
          /\ actor'[c].pc \in {"checking", "locking"} /\ actor'[c].again = again
          /\ rwlock' \in LockRow /\ HoldInv'
          /\ (QueueSound(rwlock) /\ c \notin Range(rwlock.queue)) => QueueSound(rwlock')
      BY <1>t, <2>3, <3>1, WaitsRow
    <3> QED
      BY <3>2, <3>3
  <2>5. QueueInv'
    BY <2>1, <2>3, <2>4 DEF QueueInv
  <2> QED
    BY <1>u, <2>1, <2>4, <2>5
<1>3. CASE ServerRuns(c)
  <2>1. /\ actor[c].pc = "flying" /\ actor' = [actor EXCEPT ![c].pc = "served"]
        /\ ran' = [ran EXCEPT ![c] = @ + 1] /\ UNCHANGED <<rwlock, late, dropped, troubles>>
    BY <1>3 DEF ServerRuns, ActorAt
  <2>2. /\ actor' \in ActorSet /\ Only(c)
        /\ actor'[c].pc = "served" /\ actor'[c].again = actor[c].again
        /\ actor'[c].want = actor[c].want
    BY <1>t, <2>1 DEF ActorSet, ActorRow, ActorPc, Only
  <2>3. HoldInv'
    <3>1. \A d \in Call : d # c => actor'[d] = actor[d]
      BY <2>2 DEF Only, Actor
    <3>2. \A d \in Call :
             /\ d \in rwlock'.readers <=> actor'[d].pc \in Held /\ actor'[d].want = "read"
             /\ d \in rwlock'.writer <=> actor'[d].pc \in Held /\ actor'[d].want = "write"
             /\ d \in rwlock'.waiting => actor'[d].pc = "locking" /\ actor'[d].want = "write"
             /\ actor'[d].pc \in Held \cup {"locking"} => actor'[d].want # "none"
             /\ actor'[d].want = "read" => d \in ReadOnly /\ ~actor'[d].again
      <4> SUFFICES ASSUME NEW d \in Call
          PROVE  /\ d \in rwlock'.readers <=> actor'[d].pc \in Held /\ actor'[d].want = "read"
                 /\ d \in rwlock'.writer <=> actor'[d].pc \in Held /\ actor'[d].want = "write"
                 /\ d \in rwlock'.waiting => actor'[d].pc = "locking" /\ actor'[d].want = "write"
                 /\ actor'[d].pc \in Held \cup {"locking"} => actor'[d].want # "none"
                 /\ actor'[d].want = "read" => d \in ReadOnly /\ ~actor'[d].again
        OBVIOUS
      <4>1. CASE d = c
        BY <1>h, <2>1, <2>2, <4>1 DEF Held
      <4>2. CASE d # c
        BY <2>1, <3>1, <4>2 DEF HoldInv
      <4> QED
        BY <4>1, <4>2
    <3>3. LockSound(rwlock')
      BY <1>t, <2>1
    <3> QED
      BY <3>2, <3>3 DEF HoldInv, LockSound
  <2>4. QueueInv'
    <3>1. rwlock' = rwlock /\ dropped' = dropped
      BY <2>1
    <3> QED
      BY <3>1 DEF QueueInv, QueueSound
  <2> QED
    BY <1>t, <1>u, <2>1, <2>2, <2>3, <2>4
\* A call that is in flight leaves.
<1>l. ASSUME InFlight(c), Leaves(c), UNCHANGED dropped
      PROVE  /\ actor' \in ActorSet /\ Only(c) /\ actor'[c].pc = "done" /\ ~actor'[c].again
             /\ rwlock' \in LockRow /\ HoldInv' /\ QueueInv'
  <2>1. actor[c].pc # "locking"
    BY <1>l DEF InFlight
  <2>2. /\ actor' \in ActorSet /\ Only(c)
        /\ actor'[c].pc = "done" /\ ~actor'[c].again
        /\ rwlock' \in LockRow /\ HoldInv'
        /\ QueueSound(rwlock) => QueueSound(rwlock')
    BY <1>l, <1>t, <2>1, LeavesRow
  <2> QED
    BY <1>l, <2>2 DEF QueueInv
<1>4. CASE CallReturns(c)
  <2>1. InFlight(c) /\ Leaves(c) /\ UNCHANGED <<ran, late, dropped, troubles>>
    BY <1>4 DEF CallReturns, InFlight, ActorAt
  <2> QED
    BY <1>l, <1>u, <2>1
<1>5. ASSUME NEW e \in {"refused", "timeout", "broken"}, CallFails(c, e)
      PROVE  /\ actor' \in ActorSet /\ Only(c)
             /\ rwlock' \in LockRow /\ HoldInv'
             /\ QueueInv'
             /\ \/ /\ InFlight(c)
                   /\ actor'[c].pc \in {"checking", "locking"} /\ actor'[c].again /\ ~actor[c].again
                   /\ UNCHANGED <<ran, late, dropped, troubles>>
                \/ /\ InFlight(c) /\ actor'[c].pc = "done" /\ ~actor'[c].again
                   /\ late' = late \/ (late' = late \cup {c} /\ ~actor[c].again)
                   /\ UNCHANGED <<ran, dropped, troubles>>
  <2>0. /\ InFlight(c) /\ UNCHANGED <<ran, dropped, troubles>>
        /\ late' = IF e = "timeout" /\ ~actor[c].again THEN late \cup {c} ELSE late
    BY <1>5 DEF CallFails
  <2>1. CASE IsTransportError(e) /\ ~actor[c].again
    <3>1. Waits(c, "write", TRUE, Freed(rwlock, c)) /\ e = "broken"
      BY <1>5, <2>1 DEF CallFails, IsTransportError
    <3> DEFINE l == Freed(rwlock, c)
    <3>2. /\ l \in LockRow /\ LockSound(l)
          /\ l.readers = rwlock.readers \ {c} /\ l.writer = rwlock.writer \ {c}
          /\ l.waiting = rwlock.waiting
          /\ QueueSound(rwlock) => QueueSound(l)
      BY <1>t, FreedLock
    <3>3. c \notin rwlock.waiting
      BY <1>h, <2>0 DEF InFlight
    <3>4. QueueSound(l) => c \notin Range(l.queue)
      <4>1. Range(l.queue) = {l.queue[k] : k \in 1..Len(l.queue)}
        BY <3>2, LockFields
      <4>2. QueueSound(l) => \A k \in 1..Len(l.queue) : l.queue[k] \in l.waiting
        BY DEF QueueSound, Queued
      <4> QED
        BY <3>2, <3>3, <4>1, <4>2
    <3>5. Waits(c, "write", TRUE, l)
      BY <3>1
    <3> HIDE DEF l
    <3>6. /\ actor' \in ActorSet /\ Only(c)
          /\ actor'[c].pc \in {"checking", "locking"} /\ actor'[c].again = TRUE
          /\ rwlock' \in LockRow /\ HoldInv'
          /\ (QueueSound(l) /\ c \notin Range(l.queue)) => QueueSound(rwlock')
      <4>1. "write" \in {"read", "write"} /\ TRUE \in BOOLEAN
        OBVIOUS
      <4> QED
        BY <3>2, <3>3, <3>5, <4>1, WaitsRow
    <3>7. QueueInv'
      BY <2>0, <3>2, <3>4, <3>6 DEF QueueInv
    <3> QED
      BY <2>0, <2>1, <3>1, <3>6, <3>7
  <2>2. CASE ~(IsTransportError(e) /\ ~actor[c].again)
    <3>1. Leaves(c)
      BY <1>5, <2>2 DEF CallFails
    <3> QED
      BY <1>l, <2>0, <3>1
  <2> QED
    BY <2>1, <2>2
<1>6. ASSUME NEW passes \in BOOLEAN, CallIsCancelled(c, passes)
      PROVE  /\ actor' \in ActorSet /\ Only(c)
             /\ rwlock' \in LockRow /\ HoldInv'
             /\ QueueInv'
             /\ \/ /\ actor[c].pc \in {"locking", "stopping", "flying", "served"}
                   /\ actor'[c].pc = "done" /\ ~actor'[c].again
                   /\ dropped' = TRUE /\ Trouble /\ UNCHANGED <<ran, late>>
                \/ /\ actor[c].pc = "starting" /\ actor'[c].pc = "stuck"
                   /\ actor'[c].again = actor[c].again
                   /\ dropped' = TRUE /\ Trouble /\ UNCHANGED <<ran, late>>
  <2>0. /\ actor[c].pc \in {"locking", "stopping", "starting", "flying", "served"}
        /\ dropped' = TRUE /\ Trouble /\ UNCHANGED <<ran, late>>
    BY <1>6 DEF CallIsCancelled
  <2>q. QueueInv'
    BY <2>0 DEF QueueInv
  <2>1. CASE actor[c].pc = "starting"
    <3>1. actor' = [actor EXCEPT ![c].pc = "stuck"] /\ UNCHANGED rwlock
      BY <1>6, <2>1 DEF CallIsCancelled, ActorAt
    <3>2. /\ actor' \in ActorSet /\ Only(c)
          /\ actor'[c].pc = "stuck" /\ actor'[c].again = actor[c].again
          /\ actor'[c].want = actor[c].want
      BY <1>t, <3>1 DEF ActorSet, ActorRow, ActorPc, Only
    <3>3. \A d \in Call : d # c => actor'[d] = actor[d]
      BY <3>2 DEF Only, Actor
    <3>4. ASSUME NEW d \in Call
          PROVE  /\ d \in rwlock'.readers <=> actor'[d].pc \in Held /\ actor'[d].want = "read"
                 /\ d \in rwlock'.writer <=> actor'[d].pc \in Held /\ actor'[d].want = "write"
                 /\ d \in rwlock'.waiting => actor'[d].pc = "locking" /\ actor'[d].want = "write"
                 /\ actor'[d].pc \in Held \cup {"locking"} => actor'[d].want # "none"
                 /\ actor'[d].want = "read" => d \in ReadOnly /\ ~actor'[d].again
      <4>1. CASE d = c
        BY <1>h, <2>1, <3>1, <3>2, <4>1 DEF Held
      <4>2. CASE d # c
        BY <3>1, <3>3, <4>2 DEF HoldInv
      <4> QED
        BY <4>1, <4>2
    <3>5. LockSound(rwlock') /\ rwlock' \in LockRow
      BY <1>t, <3>1
    <3>6. HoldInv'
      BY <3>4, <3>5 DEF HoldInv, LockSound
    <3> QED
      BY <2>0, <2>1, <2>q, <3>2, <3>5, <3>6
  <2>2. CASE actor[c].pc # "starting"
    <3> DEFINE R == [Absent EXCEPT !.pc = "done"]
               gone == GivesUp(rwlock, c, passes)
    <3>1. actor' = [actor EXCEPT ![c] = R] /\ rwlock' = Freed(gone, c)
      BY <1>6, <2>2 DEF CallIsCancelled, ActorAt
    <3>2. R \in ActorRow /\ R.pc = "done" /\ R.want = "none" /\ R.again = FALSE
      <4>1. Absent \in ActorRow
        BY McpAssumption DEF Absent, ActorRow, ActorPc
      <4> QED
        BY <4>1 DEF Absent, ActorRow, ActorPc
    <3>3. /\ gone \in LockRow /\ gone.readers = rwlock.readers /\ gone.writer = rwlock.writer
          /\ gone.waiting = rwlock.waiting \ {c}
      BY <1>t, GivenUpLock
    <3> HIDE DEF R, gone
    <3>4. LockSound(gone)
      BY <1>t, <3>3 DEF LockSound
    <3>5. /\ rwlock' \in LockRow /\ LockSound(rwlock')
          /\ rwlock'.readers = rwlock.readers \ {c} /\ rwlock'.writer = rwlock.writer \ {c}
          /\ rwlock'.waiting = rwlock.waiting \ {c}
      BY <3>1, <3>3, <3>4, FreedLock
    <3>6. /\ actor' \in ActorSet /\ Only(c)
          /\ actor'[c].pc = "done" /\ actor'[c].want = "none" /\ ~actor'[c].again
      BY <1>t, <3>1, <3>2 DEF ActorSet, Only
    <3>7. ASSUME NEW d \in Call
          PROVE  /\ d \in rwlock'.readers <=> actor'[d].pc \in Held /\ actor'[d].want = "read"
                 /\ d \in rwlock'.writer <=> actor'[d].pc \in Held /\ actor'[d].want = "write"
                 /\ d \in rwlock'.waiting => actor'[d].pc = "locking" /\ actor'[d].want = "write"
                 /\ actor'[d].pc \in Held \cup {"locking"} => actor'[d].want # "none"
                 /\ actor'[d].want = "read" => d \in ReadOnly /\ ~actor'[d].again
      <4>1. CASE d = c
        BY <3>5, <3>6, <4>1 DEF Held
      <4>2. CASE d # c
        <5>1. actor'[d] = actor[d]
          BY <3>6, <4>2 DEF Only, Actor
        <5> QED
          BY <3>5, <4>2, <5>1 DEF HoldInv
      <4> QED
        BY <4>1, <4>2
    <3>8. HoldInv'
      BY <3>5, <3>7 DEF HoldInv, LockSound
    <3> QED
      BY <2>0, <2>2, <2>q, <3>5, <3>6, <3>8
  <2> QED
    BY <2>1, <2>2
<1> QED
  BY <1>1, <1>2, <1>3, <1>4, <1>5, <1>6, <1>u DEF Flying

LEMMA TroubleBound == McpTypeOK /\ Trouble => troubles' \in 0..MaxTroubles
BY McpAssumption DEF McpTypeOK, Trouble

\* The owner that is started next is a new one.
LEMMA NextIsNew ==
  ASSUME McpTypeOK, NEW n \in 0..MaxOwners, \A g \in Owner : life[g] # "none" <=> g <= n
  PROVE  NextOwner = n + 1
<1>1. {g \in Owner : life[g] # "none"} = 1..n
  BY McpAssumption DEF Owner
<1>2. n \in Nat
  BY McpAssumption
<1>3. Cardinality(1..n) = n
  BY <1>2, FS_Interval
<1> QED
  BY <1>1, <1>3 DEF NextOwner

\* The part of the typing that is not about actors and the lock.
RestTyping ==
    /\ owner \in 0..MaxOwners
    /\ life \in [Owner -> Life]
    /\ told \subseteq Owner
    /\ pipe \in [Owner -> {"none", "open", "dead", "closed"}]
    /\ session \in 0..MaxOwners
    /\ stack \in 0..MaxOwners
    /\ watch \in [uri : BOOLEAN, task : BOOLEAN]
    /\ manager \in [pc : ManagerPc, owner : 0..MaxOwners]
    /\ troubles \in 0..MaxTroubles

\* A new owner is started: it is the one in _owner_task.
Began(g) ==
    /\ g \in Owner /\ owner' = g
    /\ life' = [life EXCEPT ![g] = "starting"]

\* An owner is started after those there have been.
LEMMA BeganKnown ==
  ASSUME McpTypeOK, OwnerInv, owner = 0, Began(NextOwner), told' = told, dropped' = dropped
  PROVE  /\ owner' \in 0..MaxOwners /\ life' \in [Owner -> Life]
         /\ \E n \in 0..MaxOwners : \A g \in Owner : life'[g] # "none" <=> g <= n
         /\ OwnerIsKnown'
<1>t. life \in [Owner -> Life] /\ told \subseteq Owner
  BY DEF McpTypeOK
<1>1. PICK n \in 0..MaxOwners : \A g \in Owner : life[g] # "none" <=> g <= n
  BY DEF OwnerInv
<1>2. NextOwner = n + 1
  BY <1>1, NextIsNew
<1>3. n + 1 \in Owner /\ n \in Nat /\ owner' = n + 1
      /\ life' = [life EXCEPT ![n + 1] = "starting"]
  BY <1>2, McpAssumption DEF Began
<1>4. /\ n + 1 \in 0..MaxOwners /\ owner' \in 0..MaxOwners
      /\ life' \in [Owner -> Life] /\ life'[n + 1] = "starting"
      /\ \A g \in Owner : g # n + 1 => life'[g] = life[g]
  BY <1>3, <1>t DEF Owner, Life
<1>5. \A g \in Owner : life'[g] # "none" <=> g <= n + 1
  BY <1>1, <1>3, <1>4, McpAssumption DEF Owner
<1>6. life[n + 1] = "none"
  BY <1>1, <1>3
<1>7. OwnerIsKnown'
  <2>1. CASE dropped
    BY <2>1 DEF OwnerIsKnown
  <2>2. ASSUME NEW g \in Owner, life[g] = "failed" PROVE OwnerIsKnown'
    <3>1. life'[g] = "failed"
      BY <1>4, <1>6, <2>2
    <3> QED
      BY <3>1 DEF OwnerIsKnown
  <2>3. CASE \A g \in Owner : life[g] \in {"starting", "up"} /\ g \notin told => owner = g
    <3>1. \A g \in Owner : ~(life[g] \in {"starting", "up"} /\ g \notin told)
      BY <2>3 DEF Owner
    <3>2. \A g \in Owner : life'[g] \in {"starting", "up"} /\ g \notin told' => owner' = g
      BY <1>3, <1>4, <3>1
    <3> QED
      BY <3>2 DEF OwnerIsKnown
  <2> QED
    BY <2>1, <2>2, <2>3 DEF OwnerInv, OwnerIsKnown
<1> QED
  BY <1>4, <1>5, <1>7

\* An owner that is told to stop is forgotten.
LEMMA ToldKnown ==
  ASSUME McpTypeOK, OwnerInv, owner # 0 => owner \in told', told \subseteq told', owner' = 0,
         life' = life, dropped' = dropped
  PROVE  OwnerIsKnown'
<1>1. CASE \A g \in Owner : life[g] \in {"starting", "up"} /\ g \notin told => owner = g
  <2>1. \A g \in Owner : ~(life'[g] \in {"starting", "up"} /\ g \notin told')
    BY <1>1 DEF Owner
  <2> QED
    BY <2>1 DEF OwnerIsKnown
<1>2. CASE dropped \/ \E g \in Owner : life[g] = "failed"
  BY <1>2 DEF OwnerIsKnown
<1> QED
  BY <1>1, <1>2 DEF OwnerInv, OwnerIsKnown

\* The steps of an owner and of its connection.
LEMMA OwnerSteps ==
  ASSUME McpTypeOK, SessionInv, OwnerInv, NEW g \in Owner,
         OwnerStep(g) \/ OwnerFails(g) \/ ServerDies(g)
  PROVE  /\ RestTyping' /\ SessionInv' /\ OwnerInv'
         /\ UNCHANGED <<actor, rwlock, ran, late, dropped>>
<1>t. RestTyping
  BY DEF McpTypeOK, RestTyping
<1>u. UNCHANGED <<actor, rwlock, ran, late, dropped, owner, told, manager>>
  BY DEF OwnerStep, OwnerStarts, OwnerFails, OwnerDrains, OwnerUnlinks, OwnerCloses, ServerDies
<1>s. stack # 0 => stack \in Owner
  BY <1>t DEF RestTyping, Owner
<1>w. Unwatched \in [uri : BOOLEAN, task : BOOLEAN]
  BY DEF Unwatched
\* What happens to the connection.
<1>1. /\ pipe' \in [Owner -> {"none", "open", "dead", "closed"}]
      /\ session' \in 0..MaxOwners /\ stack' \in 0..MaxOwners /\ SessionInv'
  <2>1. CASE OwnerStarts(g)
    BY <1>t, <2>1 DEF OwnerStarts, RestTyping, SessionInv, Owner
  <2>2. CASE OwnerFails(g) \/ OwnerUnlinks(g)
    <3>1. /\ session' = 0 /\ stack' = 0
          /\ pipe' = IF stack = 0 THEN pipe ELSE [pipe EXCEPT ![stack] = "closed"]
      BY <2>2 DEF OwnerFails, OwnerUnlinks
    <3> QED
      BY <1>t, <1>s, <3>1, McpAssumption DEF RestTyping, SessionInv
  <2>3. CASE OwnerDrains(g) \/ OwnerCloses(g)
    BY <1>t, <2>3 DEF OwnerDrains, OwnerCloses, RestTyping, SessionInv
  <2>4. CASE ServerDies(g)
    BY <1>t, <1>s, <2>4 DEF ServerDies, RestTyping, SessionInv
  <2> QED
    BY <2>1, <2>2, <2>3, <2>4 DEF OwnerStep
\* What happens to the owner.
<1>2. /\ life' \in [Owner -> Life]
      /\ watch' \in [uri : BOOLEAN, task : BOOLEAN] /\ troubles' \in 0..MaxTroubles
  <2>1. CASE OwnerStarts(g)
    BY <1>t, <2>1 DEF OwnerStarts, RestTyping, Life
  <2>2. CASE OwnerFails(g)
    <3>1. troubles' \in 0..MaxTroubles
      BY <2>2, TroubleBound DEF OwnerFails
    <3> QED
      BY <1>t, <1>w, <2>2, <3>1 DEF OwnerFails, RestTyping, Life
  <2>3. CASE OwnerDrains(g)
    BY <1>t, <2>3 DEF OwnerDrains, RestTyping, Life
  <2>4. CASE OwnerUnlinks(g)
    BY <1>t, <1>w, <2>4 DEF OwnerUnlinks, RestTyping, Life
  <2>5. CASE OwnerCloses(g)
    BY <1>t, <2>5 DEF OwnerCloses, RestTyping, Life
  <2>6. CASE ServerDies(g)
    <3>1. troubles' \in 0..MaxTroubles
      BY <2>6, TroubleBound DEF ServerDies
    <3> QED
      BY <1>t, <2>6, <3>1 DEF ServerDies, RestTyping
  <2> QED
    BY <2>1, <2>2, <2>3, <2>4, <2>5, <2>6 DEF OwnerStep
<1>3. \/ life' = life
      \/ /\ life[g] \notin {"none", "failed", "closed"}
         /\ \A h \in Owner : h # g => life'[h] = life[h]
         /\ \/ life[g] = "starting" /\ life'[g] \in {"up", "failed"}
            \/ life'[g] \in {"draining", "unlinking", "closed"}
  <2>1. CASE OwnerStarts(g)
    BY <1>t, <2>1 DEF OwnerStarts, RestTyping
  <2>2. CASE OwnerFails(g)
    BY <1>t, <2>2 DEF OwnerFails, RestTyping
  <2>3. CASE OwnerDrains(g)
    BY <1>t, <2>3 DEF OwnerDrains, RestTyping
  <2>4. CASE OwnerUnlinks(g)
    BY <1>t, <2>4 DEF OwnerUnlinks, RestTyping
  <2>5. CASE OwnerCloses(g)
    BY <1>t, <2>5 DEF OwnerCloses, RestTyping
  <2>6. CASE ServerDies(g)
    BY <2>6 DEF ServerDies
  <2> QED
    BY <2>1, <2>2, <2>3, <2>4, <2>5, <2>6 DEF OwnerStep
<1>4. \A h \in Owner : life'[h] # "none" <=> life[h] # "none"
  BY <1>3
<1>5. OwnerIsKnown'
  <2>1. CASE life' = life
    BY <1>u, <2>1 DEF OwnerInv, OwnerIsKnown
  <2>2. CASE life'[g] = "failed"
    BY <2>2 DEF OwnerIsKnown
  <2>3. CASE /\ life[g] \notin {"none", "failed", "closed"}
             /\ \A h \in Owner : h # g => life'[h] = life[h]
             /\ \/ life[g] = "starting" /\ life'[g] = "up"
                \/ life'[g] \in {"draining", "unlinking", "closed"}
    <3>1. CASE dropped \/ \E h \in Owner : life[h] = "failed"
      <4>1. \A h \in Owner : life[h] = "failed" => life'[h] = "failed"
        BY <2>3
      <4> QED
        BY <1>u, <3>1, <4>1 DEF OwnerIsKnown
    <3>2. CASE \A h \in Owner : life[h] \in {"starting", "up"} /\ h \notin told => owner = h
      <4>1. \A h \in Owner : life'[h] \in {"starting", "up"} => life[h] \in {"starting", "up"}
        BY <2>3
      <4> QED
        BY <1>u, <3>2, <4>1 DEF OwnerIsKnown
    <3> QED
      BY <3>1, <3>2 DEF OwnerInv, OwnerIsKnown
  <2> QED
    BY <1>3, <2>1, <2>2, <2>3
<1>6. OwnerInv'
  <2>1. \E n \in 0..MaxOwners : \A h \in Owner : life'[h] # "none" <=> h <= n
    BY <1>4 DEF OwnerInv
  <2>2. manager'.pc = "off" =>
          /\ owner' = 0
          /\ \A h \in Owner : life'[h] = "none"
          /\ \A a \in Actor : actor'[a].pc = "idle"
    BY <1>4, <1>u DEF OwnerInv
  <2>3. /\ manager'.pc = "starting" => manager'.owner \in Owner
        /\ \A a \in Actor : /\ actor'[a].pc = "starting" => actor'[a].owner \in Owner
                            /\ actor'[a].pc = "stuck" => dropped'
    BY <1>u DEF OwnerInv
  <2> QED
    BY <1>5, <2>1, <2>2, <2>3 DEF OwnerInv
<1>7. RestTyping'
  BY <1>t, <1>u, <1>1, <1>2 DEF RestTyping
<1> QED
  BY <1>u, <1>1, <1>6, <1>7

\* A restart starts an owner, tells one to stop, or forgets the one whose start has failed.
LEMMA RestartOwner ==
  ASSUME McpTypeOK, HoldInv, SessionInv, OwnerInv, NEW a \in Actor, Restarting(a)
  PROVE  RestTyping' /\ SessionInv' /\ OwnerInv'
<1>t. RestTyping
  BY DEF McpTypeOK, RestTyping
<1>r. /\ Only(a)
      /\ actor[a].pc \in {"checking", "stopping", "starting", "stuck"}
      /\ actor'[a].pc \in {"flying", "done", "stopping", "starting"}
      /\ actor'[a].pc = "starting" => actor'[a].owner \in Owner
      /\ UNCHANGED <<pipe, session, stack, manager, ran, late, dropped, troubles>>
  BY RestartRow
<1> DEFINE Same == UNCHANGED <<owner, told, life>>
           Stop == owner # 0 /\ told' = told \cup {owner} /\ owner' = 0 /\ life' = life
           Start == owner = 0 /\ Began(NextOwner) /\ told' = told
           Forget == owner' = 0 /\ UNCHANGED <<told, life>>
                     /\ (dropped \/ \E g \in Owner : life[g] = "failed")
<1>1. Same \/ Stop \/ Start \/ Forget
  <2>1. StartsOwner(a) => Start
    BY DEF StartsOwner, Began
  <2>2. owner # 0 /\ StopsOwner(a) => Stop
    BY DEF StopsOwner
  <2>3. CASE Check(a)
    BY <2>2, <2>3 DEF Check
  <2>4. CASE Reconnect(a)
    BY <2>1, <2>2, <2>4 DEF Reconnect
  <2>5. CASE OwnerHasStopped(a)
    BY <2>1, <2>5 DEF OwnerHasStopped
  <2>6. CASE OwnerHasStarted(a)
    BY <2>6 DEF OwnerHasStarted
  <2>7. CASE OwnerHasFailed(a)
    <3>1. dropped \/ \E g \in Owner : life[g] = "failed"
      BY <2>7 DEF OwnerHasFailed, ActorAt, OwnerInv
    <3> QED
      BY <2>7, <3>1 DEF OwnerHasFailed
  <2> QED
    BY <2>3, <2>4, <2>5, <2>6, <2>7 DEF Restarting
<1>2. watch' \in [uri : BOOLEAN, task : BOOLEAN]
  <2>1. CASE watch' = watch
    BY <1>t, <2>1 DEF RestTyping
  <2>2. CASE OwnerHasStarted(a)
    <3>1. (watch.task \/ (watch.uri /\ session # 0)) \in BOOLEAN
      BY Zenon
    <3>2. watch' = [watch EXCEPT !.task = watch.task \/ (watch.uri /\ session # 0)]
      BY <2>2 DEF OwnerHasStarted
    <3> QED
      BY <1>t, <3>1, <3>2 DEF RestTyping
  <2> QED
    BY <2>1, <2>2 DEF Restarting, Check, Reconnect, OwnerHasStopped, OwnerHasFailed
<1>3. /\ owner' \in 0..MaxOwners /\ life' \in [Owner -> Life] /\ told' \subseteq Owner
      /\ \E n \in 0..MaxOwners : \A g \in Owner : life'[g] # "none" <=> g <= n
      /\ OwnerIsKnown'
  <2>1. CASE Same
    BY <1>t, <1>r, <2>1 DEF RestTyping, OwnerInv, OwnerIsKnown
  <2>2. CASE Stop
    <3>1. OwnerIsKnown'
      BY <1>r, <2>2, ToldKnown
    <3>2. owner' \in 0..MaxOwners /\ told' \subseteq Owner
      BY <1>t, <2>2, McpAssumption DEF RestTyping, Owner
    <3> QED
      BY <1>t, <2>2, <3>1, <3>2 DEF RestTyping, OwnerInv
  <2>3. CASE Start
    BY <1>t, <1>r, <2>3, BeganKnown DEF RestTyping
  <2>4. CASE Forget
    <3>1. owner' \in 0..MaxOwners
      BY <2>4, McpAssumption
    <3>2. OwnerIsKnown'
      BY <1>r, <2>4 DEF OwnerIsKnown
    <3> QED
      BY <1>t, <2>4, <3>1, <3>2 DEF RestTyping, OwnerInv
  <2> QED
    BY <1>1, <2>1, <2>2, <2>3, <2>4
<1>4. RestTyping' /\ SessionInv'
  BY <1>t, <1>r, <1>2, <1>3 DEF RestTyping, SessionInv
<1>5. manager'.pc # "off" /\ (manager'.pc = "starting" => manager'.owner \in Owner)
  BY <1>r DEF OwnerInv
<1>6. \A b \in Actor : /\ actor'[b].pc = "starting" => actor'[b].owner \in Owner
                       /\ actor'[b].pc = "stuck" => dropped'
  BY <1>r DEF OwnerInv, Only
<1>7. OwnerInv'
  BY <1>3, <1>5, <1>6 DEF OwnerInv
<1> QED
  BY <1>4, <1>7

\* The steps of a call that do not restart the owner leave the owners alone.
LEMMA CallOwner ==
  ASSUME McpTypeOK, HoldInv, QueueInv, SessionInv, OwnerInv, NEW c \in Call,
         \/ Enter(c) \/ WakesUp(c) \/ ServerRuns(c) \/ Flying(c)
         \/ \E passes \in BOOLEAN : CallIsCancelled(c, passes)
  PROVE  RestTyping' /\ SessionInv' /\ OwnerInv'
<1>t. RestTyping /\ c \in Actor
  BY DEF McpTypeOK, RestTyping, Actor
<1>r. /\ Only(c)
      /\ actor[c].pc = "idle" => manager.pc = "running"
      /\ actor'[c].pc # "starting" /\ (actor'[c].pc = "stuck" => dropped')
      /\ dropped => dropped'
      /\ troubles' = troubles \/ Trouble
      /\ UNCHANGED <<owner, life, told, pipe, session, stack, watch, manager>>
  <2>1. /\ Only(c)
        /\ UNCHANGED <<owner, life, told, pipe, session, stack, watch, manager>>
    BY CallRow
  <2>2. \/ actor[c].pc = "idle" /\ manager.pc = "running"
              /\ actor'[c].pc \in {"checking", "locking"} /\ UNCHANGED <<dropped, troubles>>
        \/ /\ actor[c].pc \in {"locking", "flying", "served"}
           /\ actor'[c].pc \in {"checking", "locking", "served", "done"}
           /\ UNCHANGED <<dropped, troubles>>
        \/ /\ actor[c].pc \in {"locking", "stopping", "flying", "served", "starting"}
           /\ actor'[c].pc \in {"done", "stuck"} /\ dropped' = TRUE /\ Trouble
    BY CallRow DEF InFlight
  <2> QED
    BY <2>1, <2>2
<1>1. troubles' \in 0..MaxTroubles
  BY <1>t, <1>r, TroubleBound DEF RestTyping
<1>2. RestTyping' /\ SessionInv'
  BY <1>t, <1>r, <1>1 DEF RestTyping, SessionInv
<1>3. OwnerIsKnown'
  BY <1>r DEF OwnerInv, OwnerIsKnown
<1>4. manager'.pc # "off" /\ (manager'.pc = "starting" => manager'.owner \in Owner)
  BY <1>r, <1>t DEF OwnerInv
<1>5. \A b \in Actor : /\ actor'[b].pc = "starting" => actor'[b].owner \in Owner
                       /\ actor'[b].pc = "stuck" => dropped'
  BY <1>r DEF OwnerInv, Only
<1>6. \E n \in 0..MaxOwners : \A g \in Owner : life'[g] # "none" <=> g <= n
  BY <1>r DEF OwnerInv
<1>7. OwnerInv'
  BY <1>3, <1>4, <1>5, <1>6 DEF OwnerInv
<1> QED
  BY <1>2, <1>7

\* MCPServerProvider.start() makes the first owner, stop() tells the last one.
LEMMA ProvidingOwner ==
  ASSUME McpTypeOK, SessionInv, OwnerInv, Providing
  PROVE  /\ RestTyping' /\ SessionInv' /\ OwnerInv'
         /\ UNCHANGED <<actor, rwlock, ran, late, dropped>>
<1>t. RestTyping
  BY DEF McpTypeOK, RestTyping
<1>u. UNCHANGED <<actor, rwlock, pipe, session, stack, watch, ran, late, dropped, troubles>>
  BY DEF Providing, ProviderStarts, ProviderHasStarted, ProviderFails, ProviderStops,
         ProviderHasStopped
<1>a. \A b \in Actor : /\ actor'[b].pc = "starting" => actor'[b].owner \in Owner
                       /\ actor'[b].pc = "stuck" => dropped'
  BY <1>u DEF OwnerInv
<1>z. 0 \in 0..MaxOwners
  BY McpAssumption
<1> DEFINE Typed == /\ owner' \in 0..MaxOwners /\ life' \in [Owner -> Life] /\ told' \subseteq Owner
                    /\ manager' \in [pc : ManagerPc, owner : 0..MaxOwners]
           Known == /\ \E n \in 0..MaxOwners : \A g \in Owner : life'[g] # "none" <=> g <= n
                    /\ manager'.pc # "off" /\ (manager'.pc = "starting" => manager'.owner \in Owner)
                    /\ OwnerIsKnown'
<1>1. Typed /\ Known
  <2>1. CASE ProviderStarts
    <3>1. owner = 0 /\ \A g \in Owner : life[g] = "none"
      BY <2>1 DEF ProviderStarts, OwnerInv
    <3>2. \A g \in Owner : life[g] # "none" <=> g <= 0
      BY <3>1, McpAssumption DEF Owner
    <3>3. NextOwner = 0 + 1
      BY <1>z, <3>2, NextIsNew
    <3>4. NextOwner \in Owner /\ NextOwner \in 0..MaxOwners
      BY <3>3, McpAssumption DEF Owner
    <3>5. Began(NextOwner) /\ told' = told /\ manager' = [pc |-> "starting", owner |-> NextOwner]
      BY <2>1, <3>4 DEF ProviderStarts, Began, ManagerGoes
    <3>6. /\ owner' \in 0..MaxOwners /\ life' \in [Owner -> Life]
          /\ \E n \in 0..MaxOwners : \A g \in Owner : life'[g] # "none" <=> g <= n
          /\ OwnerIsKnown'
      BY <1>u, <3>1, <3>5, BeganKnown
    <3> QED
      BY <1>t, <3>4, <3>5, <3>6 DEF RestTyping, ManagerPc
  <2>2. CASE ProviderHasStarted \/ ProviderHasStopped
    <3>1. UNCHANGED <<owner, life, told>> /\ manager' \in [pc : ManagerPc, owner : 0..MaxOwners]
          /\ manager'.pc \in {"running", "gone"}
      BY <1>z, <2>2 DEF ProviderHasStarted, ProviderHasStopped, ManagerGoes, ManagerPc
    <3> QED
      BY <1>t, <1>u, <3>1 DEF RestTyping, OwnerInv, OwnerIsKnown
  <2>3. CASE ProviderFails
    <3>1. /\ UNCHANGED <<life, told>> /\ owner' = 0
          /\ manager' \in [pc : ManagerPc, owner : 0..MaxOwners] /\ manager'.pc = "gone"
      BY <1>z, <2>3 DEF ProviderFails, ManagerGoes, ManagerPc
    <3>2. \E g \in Owner : life'[g] = "failed"
      BY <2>3 DEF ProviderFails, OwnerInv
    <3> QED
      BY <1>t, <1>z, <3>1, <3>2 DEF RestTyping, OwnerInv, OwnerIsKnown
  <2>4. CASE ProviderStops
    <3>1. /\ life' = life /\ owner' = 0 /\ told' = told \cup ({owner} \ {0})
          /\ manager' = [pc |-> IF owner = 0 THEN "gone" ELSE "closing", owner |-> owner]
      BY <2>4 DEF ProviderStops, ManagerGoes
    <3>2. /\ manager' \in [pc : ManagerPc, owner : 0..MaxOwners]
          /\ manager'.pc \in {"gone", "closing"} /\ told' \subseteq Owner
      BY <1>t, <3>1 DEF RestTyping, ManagerPc, Owner
    <3>3. OwnerIsKnown'
      BY <1>u, <3>1, ToldKnown
    <3> QED
      BY <1>t, <1>z, <3>1, <3>2, <3>3 DEF RestTyping, OwnerInv
  <2> QED
    BY <2>1, <2>2, <2>3, <2>4 DEF Providing
<1>2. RestTyping' /\ SessionInv'
  BY <1>t, <1>u, <1>1 DEF RestTyping, SessionInv
<1>3. OwnerInv'
  BY <1>a, <1>1 DEF OwnerInv
<1> QED
  BY <1>u, <1>2, <1>3

\* The bridge takes no lock; its subscriptions touch no call.
LEMMA BridgeRow ==
  ASSUME McpTypeOK, HoldInv, SessionInv, OwnerInv,
         ReadResource \/ ReadEnds \/ \E on \in BOOLEAN : SetSubscribed(on)
  PROVE  /\ actor' \in ActorSet /\ Only(Bridge)
         /\ rwlock' \in LockRow /\ HoldInv'
         /\ QueueSound(rwlock) => QueueSound(rwlock')
         /\ RestTyping' /\ SessionInv' /\ OwnerInv'
         /\ UNCHANGED <<ran, late, dropped>>
<1>t. RestTyping /\ actor \in ActorSet /\ rwlock \in LockRow /\ Bridge \in Actor
  BY DEF McpTypeOK, RestTyping, ActorSet, Actor
<1>u. UNCHANGED <<owner, life, told, pipe, session, stack, manager, ran, late, dropped, troubles>>
  BY DEF ReadResource, ReadEnds, SetSubscribed
<1>1. /\ actor' \in ActorSet /\ Only(Bridge)
      /\ actor' = actor \/ (manager.pc # "off" /\ actor'[Bridge].pc \in {"checking", "done"})
      /\ rwlock' \in LockRow /\ HoldInv'
      /\ QueueSound(rwlock) => QueueSound(rwlock')
  <2>1. CASE ReadResource
    <3>1. /\ actor' = [actor EXCEPT ![Bridge].pc = "checking"] /\ rwlock' = rwlock
          /\ manager.pc # "off"
      BY <2>1 DEF ReadResource
    <3>2. actor' \in ActorSet /\ Only(Bridge) /\ actor'[Bridge].pc = "checking"
      BY <1>t, <3>1 DEF ActorSet, ActorRow, ActorPc, Only
    <3>3. \A c \in Call : actor'[c] = actor[c]
      BY <3>2, McpAssumption DEF Only, Actor
    <3>4. \A c \in Call :
             /\ c \in rwlock'.readers <=> actor'[c].pc \in Held /\ actor'[c].want = "read"
             /\ c \in rwlock'.writer <=> actor'[c].pc \in Held /\ actor'[c].want = "write"
             /\ c \in rwlock'.waiting => actor'[c].pc = "locking" /\ actor'[c].want = "write"
             /\ actor'[c].pc \in Held \cup {"locking"} => actor'[c].want # "none"
             /\ actor'[c].want = "read" => c \in ReadOnly /\ ~actor'[c].again
      BY <3>1, <3>3 DEF HoldInv
    <3>5. LockSound(rwlock')
      BY <3>1 DEF HoldInv
    <3>6. HoldInv'
      BY <3>4, <3>5 DEF HoldInv, LockSound
    <3> QED
      BY <1>t, <3>1, <3>2, <3>6
  <2>2. CASE ReadEnds
    <3>1. Leaves(Bridge) /\ actor[Bridge].pc # "locking" /\ actor[Bridge].pc # "idle"
      BY <2>2 DEF ReadEnds, ActorAt
    <3>2. manager.pc # "off"
      BY <1>t, <3>1 DEF OwnerInv
    <3> QED
      BY <1>t, <3>1, <3>2, LeavesRow
  <2>3. CASE \E on \in BOOLEAN : SetSubscribed(on)
    <3>1. actor' = actor /\ rwlock' = rwlock
      BY <2>3 DEF SetSubscribed
    <3>2. \A c \in Call :
             /\ c \in rwlock'.readers <=> actor'[c].pc \in Held /\ actor'[c].want = "read"
             /\ c \in rwlock'.writer <=> actor'[c].pc \in Held /\ actor'[c].want = "write"
             /\ c \in rwlock'.waiting => actor'[c].pc = "locking" /\ actor'[c].want = "write"
             /\ actor'[c].pc \in Held \cup {"locking"} => actor'[c].want # "none"
             /\ actor'[c].want = "read" => c \in ReadOnly /\ ~actor'[c].again
      BY <3>1 DEF HoldInv
    <3>3. LockSound(rwlock')
      BY <3>1 DEF HoldInv
    <3>4. HoldInv'
      BY <3>2, <3>3 DEF HoldInv, LockSound
    <3> QED
      BY <1>t, <3>1, <3>4 DEF Only
  <2> QED
    BY <2>1, <2>2, <2>3
<1>2. watch' \in [uri : BOOLEAN, task : BOOLEAN]
  <2>1. CASE watch' = watch
    BY <1>t, <2>1 DEF RestTyping
  <2>2. ASSUME NEW on \in BOOLEAN, SetSubscribed(on)
        PROVE  watch' \in [uri : BOOLEAN, task : BOOLEAN]
    <3>1. (session # 0) \in BOOLEAN
      OBVIOUS
    <3>2. watch' = [uri |-> on, task |-> session # 0]
      BY <2>2 DEF SetSubscribed
    <3> QED
      BY <3>1, <3>2
  <2> QED
    BY <2>1, <2>2 DEF ReadResource, ReadEnds
<1>3. RestTyping' /\ SessionInv'
  BY <1>t, <1>u, <1>2 DEF RestTyping, SessionInv
<1>4. /\ \E n \in 0..MaxOwners : \A g \in Owner : life'[g] # "none" <=> g <= n
      /\ manager'.pc = "starting" => manager'.owner \in Owner
      /\ OwnerIsKnown'
  BY <1>u DEF OwnerInv, OwnerIsKnown
<1>5. manager'.pc = "off" =>
          /\ owner' = 0
          /\ \A g \in Owner : life'[g] = "none"
          /\ \A a \in Actor : actor'[a].pc = "idle"
  BY <1>u, <1>1 DEF OwnerInv
<1>6. \A b \in Actor : /\ actor'[b].pc = "starting" => actor'[b].owner \in Owner
                       /\ actor'[b].pc = "stuck" => dropped'
  BY <1>u, <1>1 DEF OwnerInv, Only
<1>7. OwnerInv'
  BY <1>4, <1>5, <1>6 DEF OwnerInv
<1> QED
  BY <1>u, <1>1, <1>3, <1>7

\* Restarts and the bridge run nothing.
LEMMA RestartRuns ==
  ASSUME McpTypeOK, HoldInv, RunInv, NEW a \in Actor, Restarting(a)
  PROVE  RunInv'
<1>r. /\ Only(a)
      /\ actor[a].pc \in {"checking", "stopping", "starting", "stuck"}
      /\ actor'[a].pc \in {"flying", "done", "stopping", "starting"}
      /\ actor'[a].pc # "done" => actor'[a].again = actor[a].again
      /\ UNCHANGED <<ran, late>>
  BY RestartRow
<1>1. ASSUME NEW c \in Call
      PROVE  /\ actor'[c].pc = "idle" => ~actor'[c].again
             /\ actor'[c].pc \notin {"served", "done"} =>
                  ran'[c] <= (IF actor'[c].again THEN 1 ELSE 0)
             /\ actor'[c].pc = "served" => ran'[c] <= (IF actor'[c].again THEN 2 ELSE 1)
             /\ c \in late' => actor'[c].pc = "done" /\ ran'[c] <= 1
  <2>1. CASE c = a
    BY <1>r, <2>1 DEF RunInv
  <2>2. CASE c # a
    <3>1. actor'[c] = actor[c]
      BY <1>r, <2>2 DEF Only, Actor
    <3> QED
      BY <1>r, <3>1 DEF RunInv
  <2> QED
    BY <2>1, <2>2
<1> QED
  BY <1>1 DEF RunInv

\* The server runs a call once an attempt; a call that times out is over.
LEMMA CallRuns ==
  ASSUME McpTypeOK, HoldInv, QueueInv, RunInv, NEW c \in Call,
         \/ Enter(c) \/ WakesUp(c) \/ ServerRuns(c) \/ Flying(c)
         \/ \E passes \in BOOLEAN : CallIsCancelled(c, passes)
  PROVE  /\ RunInv' /\ ran' \in [Call -> 0..2] /\ late' \subseteq Call /\ dropped' \in BOOLEAN
<1>t. ran \in [Call -> 0..2] /\ late \subseteq Call /\ dropped \in BOOLEAN
  BY DEF McpTypeOK
<1>i. /\ actor[c].pc = "idle" => ~actor[c].again
      /\ actor[c].pc \notin {"served", "done"} => ran[c] <= (IF actor[c].again THEN 1 ELSE 0)
      /\ actor[c].pc = "served" => ran[c] <= (IF actor[c].again THEN 2 ELSE 1)
      /\ c \in late => actor[c].pc = "done" /\ ran[c] <= 1
  BY DEF RunInv
<1>r. /\ Only(c)
      /\ actor' \in ActorSet
  BY CallRow
<1>b. actor[c].again \in BOOLEAN
  BY DEF McpTypeOK, ActorRow, Actor
\* What happens to the call itself.
<1> DEFINE Row == /\ actor'[c].pc = "idle" => ~actor'[c].again
                  /\ actor'[c].pc \notin {"served", "done"} =>
                       ran'[c] <= (IF actor'[c].again THEN 1 ELSE 0)
                  /\ actor'[c].pc = "served" => ran'[c] <= (IF actor'[c].again THEN 2 ELSE 1)
                  /\ c \in late' => actor'[c].pc = "done" /\ ran'[c] <= 1
           Rest == /\ ran' \in [Call -> 0..2] /\ \A d \in Call : d # c => ran'[d] = ran[d]
                   /\ late' \subseteq Call /\ \A d \in late' : d # c => d \in late
                   /\ dropped' \in BOOLEAN
<1>1. ASSUME actor[c].pc = "idle", actor'[c].pc \in {"checking", "locking"}, ~actor'[c].again,
             UNCHANGED <<ran, late, dropped>>
      PROVE  Row /\ Rest
  BY <1>t, <1>i, <1>1
<1>2. ASSUME actor[c].pc = "locking", actor'[c].pc \in {"checking", "locking"},
             actor'[c].again = actor[c].again, UNCHANGED <<ran, late, dropped>>
      PROVE  Row /\ Rest
  BY <1>t, <1>i, <1>2
<1>3. ASSUME actor[c].pc = "flying", actor'[c].pc = "served", actor'[c].again = actor[c].again,
             ran' = [ran EXCEPT ![c] = @ + 1], UNCHANGED <<late, dropped>>
      PROVE  Row /\ Rest
  <2>1. ran[c] \in 0..2 /\ ran[c] <= (IF actor[c].again THEN 1 ELSE 0)
    BY <1>t, <1>i, <1>3
  <2>2. ran[c] + 1 \in 0..2 /\ ran[c] + 1 <= (IF actor[c].again THEN 2 ELSE 1)
    BY <2>1
  <2>3. ran' \in [Call -> 0..2] /\ ran'[c] = ran[c] + 1 /\ \A d \in Call : d # c => ran'[d] = ran[d]
    BY <1>t, <1>3, <2>2
  <2> QED
    BY <1>t, <1>i, <1>3, <2>2, <2>3
<1>4. ASSUME InFlight(c), actor'[c].pc \in {"checking", "locking"}, actor'[c].again,
             ~actor[c].again, UNCHANGED <<ran, late, dropped>>
      PROVE  Row /\ Rest
  <2>1. ran[c] <= 1 /\ c \notin late
    BY <1>t, <1>i, <1>4 DEF InFlight
  <2> QED
    BY <1>t, <1>4, <2>1
<1>5. ASSUME InFlight(c), actor'[c].pc = "done", ~actor'[c].again,
             late' = late \/ (late' = late \cup {c} /\ ~actor[c].again), UNCHANGED <<ran, dropped>>
      PROVE  Row /\ Rest
  <2>1. c \notin late /\ (~actor[c].again => ran[c] <= 1)
    BY <1>t, <1>i, <1>5 DEF InFlight
  <2> QED
    BY <1>t, <1>5, <2>1
<1>6. ASSUME actor[c].pc \in {"locking", "stopping", "flying", "served"}, actor'[c].pc = "done",
             ~actor'[c].again, dropped' = TRUE, UNCHANGED <<ran, late>>
      PROVE  Row /\ Rest
  BY <1>t, <1>i, <1>6
<1>7. ASSUME actor[c].pc = "starting", actor'[c].pc = "stuck", actor'[c].again = actor[c].again,
             dropped' = TRUE, UNCHANGED <<ran, late>>
      PROVE  Row /\ Rest
  BY <1>t, <1>i, <1>7
<1>8. Row /\ Rest
  <2> HIDE DEF Row, Rest
  <2> QED
    BY CallRow, <1>1, <1>2, <1>3, <1>4, <1>5, <1>6, <1>7
\* The other calls.
<1>9. ASSUME NEW d \in Call
      PROVE  /\ actor'[d].pc = "idle" => ~actor'[d].again
             /\ actor'[d].pc \notin {"served", "done"} =>
                  ran'[d] <= (IF actor'[d].again THEN 1 ELSE 0)
             /\ actor'[d].pc = "served" => ran'[d] <= (IF actor'[d].again THEN 2 ELSE 1)
             /\ d \in late' => actor'[d].pc = "done" /\ ran'[d] <= 1
  <2>1. CASE d = c
    BY <1>8, <2>1
  <2>2. CASE d # c
    <3>1. actor'[d] = actor[d] /\ ran'[d] = ran[d] /\ (d \in late' => d \in late)
      BY <1>r, <1>8, <2>2 DEF Only, Actor
    <3> QED
      BY <3>1 DEF RunInv
  <2> QED
    BY <2>1, <2>2
<1> QED
  BY <1>8, <1>9 DEF RunInv

\* Every step keeps the invariant.
LEMMA McpStep == McpInv /\ [McpNext]_mvars => McpInv'
<1> SUFFICES ASSUME McpInv, [McpNext]_mvars PROVE McpInv'
  OBVIOUS
<1>i. McpTypeOK /\ HoldInv /\ QueueInv /\ SessionInv /\ OwnerInv /\ RunInv
  BY DEF McpInv
<1>t. /\ actor \in ActorSet /\ rwlock \in LockRow
      /\ ran \in [Call -> 0..2] /\ late \subseteq Call /\ dropped \in BOOLEAN
  BY <1>i DEF McpTypeOK, ActorSet
<1> DEFINE Typed == /\ actor' \in ActorSet /\ rwlock' \in LockRow
                    /\ ran' \in [Call -> 0..2] /\ late' \subseteq Call /\ dropped' \in BOOLEAN
<1>j. Typed /\ RestTyping' => McpTypeOK'
  BY DEF McpTypeOK, RestTyping, ActorSet
<1>q. dropped' = dropped /\ (QueueSound(rwlock) => QueueSound(rwlock')) => QueueInv'
  <2>1. QueueSound(rwlock') /\ rwlock' = rwlock' => QueueSound(rwlock)'
    BY DEF QueueSound
  <2> QED
    BY <1>i, <2>1 DEF QueueInv
\* The calls stay where they are.
<1>k. ASSUME \A c \in Call : actor'[c] = actor[c], UNCHANGED <<ran, late>>
      PROVE  RunInv'
  <2>1. \A c \in Call :
             /\ actor'[c].pc = "idle" => ~actor'[c].again
             /\ actor'[c].pc \notin {"served", "done"} =>
                  ran'[c] <= (IF actor'[c].again THEN 1 ELSE 0)
             /\ actor'[c].pc = "served" => ran'[c] <= (IF actor'[c].again THEN 2 ELSE 1)
             /\ c \in late' => actor'[c].pc = "done" /\ ran'[c] <= 1
    BY <1>i, <1>k DEF RunInv
  <2> QED
    BY <2>1 DEF RunInv
<1>l. ASSUME UNCHANGED <<actor, rwlock>> PROVE HoldInv'
  <2>1. \A c \in Call :
             /\ c \in rwlock'.readers <=> actor'[c].pc \in Held /\ actor'[c].want = "read"
             /\ c \in rwlock'.writer <=> actor'[c].pc \in Held /\ actor'[c].want = "write"
             /\ c \in rwlock'.waiting => actor'[c].pc = "locking" /\ actor'[c].want = "write"
             /\ actor'[c].pc \in Held \cup {"locking"} => actor'[c].want # "none"
             /\ actor'[c].want = "read" => c \in ReadOnly /\ ~actor'[c].again
    BY <1>i, <1>l DEF HoldInv
  <2>2. LockSound(rwlock')
    BY <1>i, <1>l DEF HoldInv
  <2> QED
    BY <2>1, <2>2 DEF HoldInv, LockSound
<1>1. CASE Serving
  <2>1. /\ RestTyping' /\ SessionInv' /\ OwnerInv'
        /\ UNCHANGED <<actor, rwlock, ran, late, dropped>>
    BY <1>i, <1>1, ProvidingOwner, OwnerSteps DEF Serving
  <2>2. Typed
    BY <1>t, <2>1
  <2> QED
    BY <1>j, <1>k, <1>l, <1>q, <2>1, <2>2 DEF McpInv
<1>2. ASSUME NEW a \in Actor, Restarting(a) PROVE McpInv'
  <2>1. RestTyping' /\ SessionInv' /\ OwnerInv'
    BY <1>i, <1>2, RestartOwner
  <2>2. RunInv'
    BY <1>i, <1>2, RestartRuns
  <2>3. /\ actor' \in ActorSet /\ rwlock' \in LockRow /\ HoldInv'
        /\ QueueSound(rwlock) => QueueSound(rwlock')
        /\ UNCHANGED <<ran, late, dropped>>
    BY <1>i, <1>2, RestartRow
  <2>4. Typed
    BY <1>t, <2>3
  <2> QED
    BY <1>j, <1>q, <2>1, <2>2, <2>3, <2>4 DEF McpInv
<1>3. CASE ReadResource \/ ReadEnds \/ \E on \in BOOLEAN : SetSubscribed(on)
  <2>1. /\ actor' \in ActorSet /\ Only(Bridge)
        /\ rwlock' \in LockRow /\ HoldInv'
        /\ QueueSound(rwlock) => QueueSound(rwlock')
        /\ RestTyping' /\ SessionInv' /\ OwnerInv'
        /\ UNCHANGED <<ran, late, dropped>>
    BY <1>i, <1>3, BridgeRow
  <2>2. \A c \in Call : actor'[c] = actor[c]
    BY <2>1, McpAssumption DEF Only, Actor
  <2>3. Typed
    BY <1>t, <2>1
  <2> QED
    BY <1>j, <1>k, <1>q, <2>1, <2>2, <2>3 DEF McpInv
<1>4. ASSUME NEW c \in Call,
             \/ Enter(c) \/ WakesUp(c) \/ ServerRuns(c) \/ Flying(c)
             \/ \E passes \in BOOLEAN : CallIsCancelled(c, passes)
      PROVE  McpInv'
  <2>1. RestTyping' /\ SessionInv' /\ OwnerInv'
    BY <1>i, <1>4, CallOwner
  <2>2. RunInv' /\ ran' \in [Call -> 0..2] /\ late' \subseteq Call /\ dropped' \in BOOLEAN
    BY <1>i, <1>4, CallRuns
  <2>3. actor' \in ActorSet /\ rwlock' \in LockRow /\ HoldInv' /\ QueueInv'
    BY <1>i, <1>4, CallRow
  <2> QED
    BY <1>j, <2>1, <2>2, <2>3 DEF McpInv
<1>5. CASE UNCHANGED mvars
  <2>1. UNCHANGED <<actor, rwlock, ran, late, dropped, owner, life, told, pipe, session, stack,
                    watch, manager, troubles>>
    BY <1>5 DEF mvars
  <2>2. RestTyping' /\ SessionInv' /\ OwnerInv'
    <3>1. RestTyping
      BY <1>i DEF McpTypeOK, RestTyping
    <3> QED
      BY <1>i, <2>1, <3>1 DEF RestTyping, SessionInv, OwnerInv, OwnerIsKnown
  <2>3. Typed
    BY <1>t, <2>1
  <2> QED
    BY <1>j, <1>k, <1>l, <1>q, <2>1, <2>2, <2>3 DEF McpInv
<1> QED
  BY <1>1, <1>2, <1>3, <1>4, <1>5 DEF McpNext, BridgeNext, CallNext, Actor

\* Nobody has come, nothing is started.
LEMMA McpInitInv == McpInit => McpInv
<1> SUFFICES ASSUME McpInit PROVE McpInv
  OBVIOUS
<1>1. /\ actor = [a \in Actor |-> Absent] /\ rwlock = Unlocked
      /\ owner = 0 /\ session = 0 /\ stack = 0
      /\ life = [g \in Owner |-> "none"] /\ told = {}
      /\ pipe = [g \in Owner |-> "none"]
      /\ watch = Unwatched /\ manager = [pc |-> "off", owner |-> 0]
      /\ ran = [c \in Call |-> 0] /\ late = {} /\ dropped = FALSE /\ troubles = 0
  BY DEF McpInit
<1>2. 0 \in 0..MaxOwners /\ 0 \in 0..MaxTroubles
  BY McpAssumption
<1>3. Absent \in ActorRow /\ Absent.pc = "idle" /\ Absent.want = "none" /\ ~Absent.again
  BY <1>2 DEF Absent, ActorRow, ActorPc
<1>4. /\ Unlocked \in LockRow /\ Unlocked.readers = {} /\ Unlocked.writer = {}
      /\ Unlocked.waiting = {} /\ Unlocked.asleep = {} /\ Unlocked.queue = <<>>
  <2>1. <<>> \in Seq(Call)
    OBVIOUS
  <2> QED
    BY <2>1 DEF Unlocked, LockRow
<1>5. McpTypeOK
  <2>1. actor \in [Actor -> ActorRow] /\ rwlock \in LockRow
    BY <1>1, <1>3, <1>4
  <2>2. life \in [Owner -> Life] /\ pipe \in [Owner -> {"none", "open", "dead", "closed"}]
    BY <1>1 DEF Life
  <2>3. ran \in [Call -> 0..2]
    BY <1>1
  <2>4. /\ watch \in [uri : BOOLEAN, task : BOOLEAN]
        /\ manager \in [pc : ManagerPc, owner : 0..MaxOwners]
    BY <1>1, <1>2 DEF Unwatched, ManagerPc
  <2> QED
    BY <1>1, <1>2, <2>1, <2>2, <2>3, <2>4 DEF McpTypeOK
<1>6. \A a \in Actor : actor[a].pc = "idle" /\ actor[a].want = "none" /\ ~actor[a].again
  BY <1>1, <1>3
<1>7. HoldInv
  BY <1>1, <1>4, <1>6 DEF HoldInv, LockSound, Held, Actor
<1>8. QueueInv
  BY <1>1, <1>4 DEF QueueInv, QueueSound, Queued
<1>9. SessionInv /\ RunInv
  BY <1>1, <1>6 DEF SessionInv, RunInv, Actor
<1>10. OwnerInv
  <2>1. \A g \in Owner : life[g] # "none" <=> g <= 0
    BY <1>1, McpAssumption DEF Owner
  <2> QED
    BY <1>1, <1>2, <1>6, <2>1 DEF OwnerInv, OwnerIsKnown
<1> QED
  BY <1>5, <1>7, <1>8, <1>9, <1>10 DEF McpInv

\* What the invariant says of the calls and the owners.
LEMMA McpInvSound == McpInv => McpSound
<1> SUFFICES ASSUME McpInv PROVE McpSound
  OBVIOUS
<1>i. McpTypeOK /\ HoldInv /\ QueueInv /\ SessionInv /\ OwnerInv /\ RunInv
  BY DEF McpInv
<1>1. WritersAlone
  <2> SUFFICES ASSUME NEW c \in Call, NEW d \in Call, c # d, InFlight(c), InFlight(d)
               PROVE  /\ {c, d} \subseteq ReadOnly
                      /\ ~actor[c].again /\ ~actor[d].again
    BY DEF WritersAlone
  <2>1. /\ c \in rwlock.readers <=> actor[c].want = "read"
        /\ c \in rwlock.writer <=> actor[c].want = "write"
        /\ d \in rwlock.readers <=> actor[d].want = "read"
        /\ d \in rwlock.writer <=> actor[d].want = "write"
        /\ actor[c].want # "none" /\ actor[d].want # "none"
    BY <1>i DEF HoldInv, InFlight, Held
  <2>2. c \in Actor /\ d \in Actor
    BY DEF Actor
  <2>3. actor[c].want \in {"read", "write"} /\ actor[d].want \in {"read", "write"}
    BY <1>i, <2>1, <2>2 DEF McpTypeOK, ActorRow
  <2>4. LockSound(rwlock)
    BY <1>i DEF HoldInv
  <2>5. actor[c].want = "read" /\ actor[d].want = "read"
    BY <2>1, <2>3, <2>4 DEF LockSound
  <2> QED
    BY <1>i, <2>5 DEF HoldInv
<1>2. NobodyStranded
  <2> SUFFICES ASSUME ~dropped
               PROVE  /\ rwlock.asleep # {} => rwlock.writer # {} \/ rwlock.waiting # {}
                      /\ rwlock.queue # <<>> =>
                            \/ rwlock.writer # {} \/ rwlock.readers # {}
                            \/ rwlock.waiting \ Range(rwlock.queue) # {}
    BY DEF NobodyStranded
  <2>1. QueueSound(rwlock)
    BY <1>i DEF QueueInv
  <2>2. Range(rwlock.queue) = {rwlock.queue[k] : k \in 1..Len(rwlock.queue)}
    BY <1>i, LockFields DEF McpTypeOK
  <2>3. Notified(rwlock.queue, rwlock.waiting) => rwlock.waiting \ Range(rwlock.queue) # {}
    BY <2>2 DEF Notified
  <2> QED
    BY <2>1, <2>3 DEF QueueSound
<1>3. OwnerIsKnown /\ SessionIsUsable
  BY <1>i DEF OwnerInv, SessionInv, SessionIsUsable
<1>4. TimeoutIsFinal
  BY <1>i DEF TimeoutIsFinal, RunInv, McpTypeOK
<1> QED
  BY <1>1, <1>2, <1>3, <1>4 DEF McpSound

\* AsyncRWLock, the restarts of an owner and MCPServerProvider, whatever servers die and
\* calls are cancelled: the lock knows exactly the calls that hold it, a sleeper has somebody
\* to wake him, the session is that of an open stack, every running owner is known.
THEOREM McpInvariant == McpSpec => []McpInv
<1> QED
  BY McpInitInv, McpStep, PTL DEF McpSpec

\* Calls with an effect are alone, nobody sleeps for ever for want of a notification, close()
\* reaches the owner, no call gets a closed session and a timed-out call is not repeated.
THEOREM McpIsSound == McpSpec => []McpSound
<1> QED
  BY McpInvariant, McpInvSound, PTL

-----------------------------------------------------------------------------
(* The Relay (RelayTunnel)                                                 *)

IsUp(k) == link[k].node = "up"

\* The Node is reached over the link it has up, or not at all; a lost link carries nothing.
LinkInv ==
    /\ \E n \in 0..MaxLinks : \A k \in Link : link[k].node # "none" <=> k <= n
    /\ \A k \in Link :
          /\ IsUp(k) => nodes = k
          /\ ~IsUp(k) => /\ down[k] = <<>> /\ up[k] = <<>>
                         /\ \A s \in Session : sessions[k][s] = Nobody

\* A handler that has left, or is to leave, has a client that is closed.
HandlerInv ==
    \A v \in Visit :
        /\ visit[v].pc = "idle" <=> handler[v] = "none"
        /\ handler[v] \in {"leaving", "over"} => visit[v].pc = "closed"

\* Sessions are those of the tickets.
RegistryInv ==
    /\ \A s \in Session : clients[s] # Nobody => SessionOf[clients[s]] = s
    /\ \A k \in Link, s \in Session : sessions[k][s] # Nobody => SessionOf[sessions[k][s]] = s

Registered == HandlerInv /\ RegistryInv /\ RegistryIsTrue

\* The reset of a session is under way behind place i of a queue.
ResetAfter(queue, i, s) ==
    \E j \in 1..Len(queue) :
        j > i /\ queue[j].kind = "reset" /\ SessionOf[queue[j].by] = s

\* What has left is followed by its reset.
ResetInv ==
    \A k \in Link :
        /\ \A i \in 1..Len(down[k]) :
              /\ down[k][i].kind = "reset" => handler[down[k][i].by] = "over"
              /\ down[k][i].kind = "hello" /\ handler[down[k][i].by] = "over"
                    => ResetAfter(down[k], i, SessionOf[down[k][i].by])
        /\ \A s \in Session :
              sessions[k][s] # Nobody /\ handler[sessions[k][s]] = "over" => ResetAfter(down[k], 0, s)

\* A frame of a client, and one of the Node.
Asking(frame) ==
    /\ frame.kind \in {"hello", "request"}
    /\ frame.kind = "hello" <=> frame.number = 0
Answering(frame) ==
    /\ frame.kind \in {"hello", "answer"}
    /\ frame.kind = "hello" <=> frame.number = 0

FrameInv ==
    /\ \A v \in Visit : \A i \in 1..Len(outbound[v]) :
          outbound[v][i].by = v /\ Asking(outbound[v][i])
    /\ \A k \in Link : \A i \in 1..Len(down[k]) :
          IF down[k][i].kind = "reset" THEN down[k][i].number = 0 ELSE Asking(down[k][i])
    /\ \A k \in Link : \A i \in 1..Len(up[k]) : Answering(up[k][i])
    /\ \A v \in Visit : \A i \in 1..Len(inbound[v]) : Answering(inbound[v][i])
    /\ \A v \in Visit, r \in Request : job[v][r].pc = "sealed" => job[v][r].number > 0

\* Place i of a link has a frame of the client.
Coming(v, k, i) == i \in 1..Len(down[k]) /\ down[k][i].by = v /\ down[k][i].kind # "reset"

\* The Node has not heard of the visit.
Unheard(v) ==
    /\ \A k \in Link : /\ sessions[k][SessionOf[v]] # v
                       /\ \A i \in 1..Len(up[k]) : up[k][i].by # v
    /\ \A r \in Request : job[v][r].pc = "none"
    /\ visit[v].pc # "secure" /\ inbound[v] = <<>>

\* What the Node has not read by the time n is under way.
Unread(v, n) ==
    /\ n <= visit[v].sent
    /\ n = 0 => Unheard(v)
    /\ n > 0 => job[v][n].pc = "none"

\* The frames of a client are under way once each and are news to the Node.
AskInv(v) ==
    /\ \A i \in 1..Len(outbound[v]) : Unread(v, outbound[v][i].number)
    /\ \A k \in Link : \A i \in 1..Len(down[k]) :
          Coming(v, k, i) => Unread(v, down[k][i].number)
    /\ \A i, j \in 1..Len(outbound[v]) : outbound[v][i].number = outbound[v][j].number => i = j
    /\ \A k \in Link : \A i, j \in 1..Len(down[k]) :
          Coming(v, k, i) /\ Coming(v, k, j) /\ down[k][i].number = down[k][j].number => i = j
    /\ \A k \in Link : \A i \in 1..Len(outbound[v]), j \in 1..Len(down[k]) :
          Coming(v, k, j) => outbound[v][i].number # down[k][j].number
    /\ \A r \in Request : job[v][r].pc # "none" => r <= visit[v].sent
    /\ visit[v].pc = "idle" =>
          /\ Unheard(v) /\ outbound[v] = <<>>
          /\ \A k \in Link : \A i \in 1..Len(down[k]) : ~Coming(v, k, i)
    /\ visit[v].pc \in {"idle", "ready"} => visit[v].read = 0 /\ visit[v].sent = 0

\* The answers the Node has sent; one more may be sealed.
Top(v) == Cardinality(Jobs(v, {"sent"}))
SealInv(v) ==
    \A r \in Request :
        job[v][r].pc = "sealed" =>
            /\ job[v][r].number = Top(v) + 1
            /\ \A q \in Request : job[v][q].pc = "sealed" => q = r

\* The number that the client reads next, and the one after those at hand.
Expected(v) == IF visit[v].pc = "ready" THEN 0 ELSE visit[v].read + 1
Due(v) == Expected(v) + Len(inbound[v])

Mine(queue, v, i) == i \in 1..Len(queue) /\ queue[i].by = v

\* The frames of a client in a queue are those due, up to the last one sent, in order.
Line(queue, v, due, last) ==
    /\ due <= last + 1
    /\ due <= last => \E i \in 1..Len(queue) : Mine(queue, v, i) /\ queue[i].number = last
    /\ \A i \in 1..Len(queue) :
          Mine(queue, v, i) =>
             /\ due <= queue[i].number /\ queue[i].number <= last
             /\ queue[i].number # due =>
                   \E j \in 1..Len(queue) : j < i /\ Mine(queue, v, j)
                                            /\ queue[j].number = queue[i].number - 1
    /\ \A i, j \in 1..Len(queue) :
          Mine(queue, v, i) /\ Mine(queue, v, j) /\ i < j => queue[i].number < queue[j].number

\* The Node has heard of the visit: no hello is under way.
Heard(v) ==
    /\ \A i \in 1..Len(outbound[v]) : outbound[v][i].number # 0
    /\ \A k \in Link : \A i \in 1..Len(down[k]) : Coming(v, k, i) => down[k][i].number # 0

\* The Node has the session on link k; it had it on one that is lost.
OnLink(v, k) ==
    /\ sessions[k][SessionOf[v]] = v
    /\ \A r \in Request : job[v][r].pc # "none" => job[v][r].link = k
    /\ Line(up[k], v, Due(v), Top(v))
OffLink(v) ==
    /\ \A k \in Link : /\ sessions[k][SessionOf[v]] # v
                       /\ \A i \in 1..Len(up[k]) : up[k][i].by # v
    /\ \A r \in Request :
          job[v][r].pc # "none" => /\ job[v][r].link \in Link
                                   /\ link[job[v][r].link].node = "lost"

\* What a client with a ticket of its own reads is what it expects.
LiveInv(v) ==
    visit[v].pc \in {"ready", "secure"} =>
        /\ \A i \in 1..Len(inbound[v]) :
              inbound[v][i].by = v /\ inbound[v][i].number = Expected(v) + i - 1
        /\ \/ Unheard(v)
           \/ Heard(v) /\ (OffLink(v) \/ \E k \in Link : OnLink(v, k))

OwnInv == \A v \in OwnTicket : AskInv(v) /\ SealInv(v) /\ LiveInv(v)

\* The inductive invariant of RelayTunnel.
TunnelInv ==
    /\ TunnelTypeOK /\ LinkInv /\ Registered /\ ResetInv /\ FrameInv /\ OwnInv
    /\ ReadsItsOwn

\* The first of a queue, and the rest.
LEMMA QueueHead ==
  ASSUME NEW q \in Seq(Frame), q # <<>>
  PROVE  /\ Head(q) \in Frame /\ Head(q) = q[1] /\ 1 \in 1..Len(q)
         /\ Tail(q) \in Seq(Frame) /\ Len(Tail(q)) = Len(q) - 1 /\ Len(q) \in Nat
         /\ \A i \in 1..Len(Tail(q)) : i \in Nat /\ i + 1 \in 1..Len(q) /\ Tail(q)[i] = q[i + 1]
         /\ \A i \in 1..Len(q) : i \in Nat /\ (i # 1 => i - 1 \in 1..Len(Tail(q))
                                                     /\ Tail(q)[i - 1] = q[i])
<1>1. Len(q) \in Nat /\ Len(q) > 0
  OBVIOUS
<1>2. /\ Tail(q) \in Seq(Frame) /\ Len(Tail(q)) = Len(q) - 1
      /\ \A i \in 1..(Len(q) - 1) : Tail(q)[i] = q[i + 1]
      /\ Head(q) = q[1]
  BY <1>1
<1>3. q[1] \in Frame
  BY <1>1
<1>4. \A i \in 1..(Len(q) - 1) : i \in Nat /\ i + 1 \in 1..Len(q)
  BY <1>1
<1>5. \A i \in 1..Len(q) : i \in Nat /\ (i # 1 => i - 1 \in 1..(Len(q) - 1) /\ (i - 1) + 1 = i)
  BY <1>1
<1> QED
  BY <1>1, <1>2, <1>3, <1>4, <1>5

\* A queue with one more.
LEMMA QueueMore ==
  ASSUME NEW q \in Seq(Frame), NEW f \in Frame
  PROVE  /\ Append(q, f) \in Seq(Frame) /\ Len(Append(q, f)) = Len(q) + 1 /\ Len(q) \in Nat
         /\ \A i \in 1..Len(q) : i \in Nat /\ i \in 1..Len(Append(q, f)) /\ Append(q, f)[i] = q[i]
         /\ Append(q, f)[Len(q) + 1] = f /\ Len(q) + 1 \in 1..Len(Append(q, f))
         /\ \A i \in 1..Len(Append(q, f)) : i \in 1..Len(q) \/ i = Len(q) + 1
  OBVIOUS

\* The frames of a queue.
LEMMA QueueFrames ==
  ASSUME NEW q \in Seq(Frame)
  PROVE  /\ Len(q) \in Nat
         /\ \A i \in 1..Len(q) : /\ q[i] \in Frame /\ q[i].by \in Visit
                                 /\ q[i].number \in 0..MaxRequests
                                 /\ q[i].kind \in {"hello", "request", "reset", "answer"}
<1>1. \A i \in 1..Len(q) : q[i] \in Frame
  OBVIOUS
<1>2. \A f \in Frame : /\ f.by \in Visit /\ f.number \in 0..MaxRequests
                      /\ f.kind \in {"hello", "request", "reset", "answer"}
  BY DEF Frame
<1> QED
  BY <1>1, <1>2

\* A function of functions that changes at one place.
LEMMA OnePlace ==
  ASSUME NEW A, NEW B, NEW C, NEW f \in [A -> [B -> C]], NEW a \in A, NEW b \in B, NEW c \in C
  PROVE  /\ [f EXCEPT ![a][b] = c] \in [A -> [B -> C]]
         /\ [f EXCEPT ![a][b] = c][a][b] = c
         /\ \A x \in A, y \in B : x # a \/ y # b => [f EXCEPT ![a][b] = c][x][y] = f[x][y]
<1> DEFINE g == [f[a] EXCEPT ![b] = c]
<1>1. g \in [B -> C] /\ g[b] = c /\ \A y \in B : y # b => g[y] = f[a][y]
  OBVIOUS
<1>2. [f EXCEPT ![a][b] = c] = [f EXCEPT ![a] = g]
  OBVIOUS
<1> HIDE DEF g
<1> QED
  BY <1>1, <1>2

\* A new frame.
LEMMA PacketFrame ==
  ASSUME NEW kind \in {"hello", "request", "reset", "answer"}, NEW v \in Visit,
         NEW n \in 0..MaxRequests
  PROVE  /\ Packet(kind, v, n) \in Frame /\ Packet(kind, v, n).kind = kind
         /\ Packet(kind, v, n).by = v /\ Packet(kind, v, n).number = n
BY DEF Packet, Frame

\* A frame that is sent is on the link if that is up.
LEMMA SentFrame ==
  ASSUME NEW queues \in [Link -> Seq(Frame)], NEW k \in Link, NEW f \in Frame
  PROVE  /\ Sent(queues, k, f) \in [Link -> Seq(Frame)]
         /\ \A m \in Link : m # k => Sent(queues, k, f)[m] = queues[m]
         /\ IsUp(k) => Sent(queues, k, f)[k] = Append(queues[k], f)
         /\ ~IsUp(k) => Sent(queues, k, f) = queues
<1>1. Append(queues[k], f) \in Seq(Frame)
  BY QueueMore
<1> QED
  BY <1>1 DEF Sent, IsUp

\* One request at least is not among those that are sealed or sent.
LEMMA NumberBound ==
  ASSUME TunnelTypeOK, NEW v \in Visit, NEW r \in Request, job[v][r].pc = "running"
  PROVE  /\ Cardinality(Jobs(v, {"sealed", "sent"})) + 1 \in 0..MaxRequests
         /\ Cardinality(Jobs(v, {"sealed", "sent"})) \in Nat
<1> DEFINE J == Jobs(v, {"sealed", "sent"})
<1>1. J \subseteq Request \ {r}
  BY DEF Jobs
<1>2. IsFiniteSet(Request) /\ Cardinality(Request) = MaxRequests /\ MaxRequests \in Nat
  BY TunnelAssumption, FS_Interval DEF Request
<1>3. IsFiniteSet(Request \ {r}) /\ Cardinality(Request \ {r}) = MaxRequests - 1
  BY <1>2, FS_RemoveElement
<1>4. IsFiniteSet(J) /\ Cardinality(J) <= MaxRequests - 1
  BY <1>1, <1>3, FS_Subset
<1>5. Cardinality(J) \in Nat
  BY <1>4, FS_CardinalityType
<1> HIDE DEF J
<1>6. Cardinality(J) + 1 \in 0..MaxRequests
  BY <1>2, <1>4, <1>5
<1> QED
  BY <1>5, <1>6 DEF J

LinkRows == [Link -> [node : {"none", "up", "lost"}, hub : {"none", "serving", "over"}]]
VisitRows == [Visit -> [pc : VisitPc, read : 0..MaxRequests, sent : 0..MaxRequests]]
HandlerRows == [Visit -> {"none", "serving", "leaving", "over"}]
ClientRows == [Session -> Visit \cup {Nobody}]
JobRow == [pc : {"none", "running", "sealed", "sent"}, link : 0..MaxLinks,
           number : 0..MaxRequests]
JobRows == [Visit -> [Request -> JobRow]]

\* The types, set by set.
TunnelTyping ==
    /\ link \in LinkRows /\ nodes \in 0..MaxLinks /\ clients \in ClientRows
    /\ visit \in VisitRows /\ handler \in HandlerRows
    /\ sessions \in [Link -> ClientRows] /\ job \in JobRows
    /\ outbound \in [Visit -> Seq(Frame)] /\ inbound \in [Visit -> Seq(Frame)]
    /\ down \in [Link -> Seq(Frame)] /\ up \in [Link -> Seq(Frame)]
    /\ garbled \subseteq Visit /\ stale \in BOOLEAN

LEMMA TunnelTypes == (TunnelTypeOK <=> TunnelTyping) /\ (TunnelTypeOK' <=> TunnelTyping')
BY DEF TunnelTypeOK, TunnelTyping, LinkRows, VisitRows, HandlerRows, ClientRows, JobRows, JobRow

\* The types after a step.
LEMMA TunnelTypeStep == TunnelTypeOK /\ [TunnelNext]_yvars => TunnelTypeOK'
<1> SUFFICES ASSUME TunnelTyping, TunnelTypeOK, [TunnelNext]_yvars PROVE TunnelTyping'
  BY TunnelTypes
<1>t. /\ link \in LinkRows /\ nodes \in 0..MaxLinks /\ clients \in ClientRows
      /\ visit \in VisitRows /\ handler \in HandlerRows
      /\ sessions \in [Link -> ClientRows] /\ job \in JobRows
      /\ outbound \in [Visit -> Seq(Frame)] /\ inbound \in [Visit -> Seq(Frame)]
      /\ down \in [Link -> Seq(Frame)] /\ up \in [Link -> Seq(Frame)]
      /\ garbled \subseteq Visit /\ stale \in BOOLEAN
  BY DEF TunnelTyping
<1>n. 0 \in 0..MaxLinks /\ 0 \in 0..MaxRequests /\ Link \subseteq 0..MaxLinks /\ MaxRequests \in Nat
  BY TunnelAssumption DEF Link
<1>e. <<>> \in Seq(Frame)
  OBVIOUS
<1>s. [s \in Session |-> Nobody] \in ClientRows
  BY DEF ClientRows
<1>1. CASE NodeConnects
  <2>1. NextLink \in Link
    BY <1>1 DEF NodeConnects
  <2>2. link' \in LinkRows
    <3>1. [node |-> "up", hub |-> "serving"]
             \in [node : {"none", "up", "lost"}, hub : {"none", "serving", "over"}]
      OBVIOUS
    <3>2. link' = [link EXCEPT ![NextLink] = [node |-> "up", hub |-> "serving"]]
      BY <1>1 DEF NodeConnects
    <3> QED
      BY <1>t, <3>1, <3>2 DEF LinkRows
  <2>3. stale' \in BOOLEAN
    <3>1. (stale \/ nodes # 0) \in BOOLEAN
      BY Zenon
    <3> QED
      BY <1>1, <3>1 DEF NodeConnects
  <2> QED
    BY <1>1, <1>t, <1>n, <2>1, <2>2, <2>3 DEF NodeConnects, TunnelTyping
<1>2. ASSUME NEW k \in Link, LinkIsLost(k) PROVE TunnelTyping'
  <2>1. link' \in LinkRows
    BY <1>2, <1>t DEF LinkIsLost, LinkRows
  <2>2. down' \in [Link -> Seq(Frame)] /\ up' \in [Link -> Seq(Frame)]
    BY <1>2, <1>t, <1>e DEF LinkIsLost
  <2>3. sessions' \in [Link -> ClientRows]
    BY <1>2, <1>t, <1>s DEF LinkIsLost
  <2> QED
    BY <1>2, <1>t, <2>1, <2>2, <2>3 DEF LinkIsLost, TunnelTyping
<1>3. ASSUME NEW k \in Link, HubMissesNode(k) PROVE TunnelTyping'
  <2>1. link' \in LinkRows
    BY <1>3, <1>t DEF HubMissesNode, LinkRows
  <2>2. CASE Unregisters(k)
    <3>1. visit' \in VisitRows
      <4>1. \A v \in Visit : [visit[v] EXCEPT !.pc = "closed"]
                                \in [pc : VisitPc, read : 0..MaxRequests, sent : 0..MaxRequests]
        BY <1>t DEF VisitRows, VisitPc
      <4> DEFINE Met(v) == \E s \in Session : clients[s] = v
      <4>2. visit' = [v \in Visit |-> IF Met(v) THEN [visit[v] EXCEPT !.pc = "closed"]
                                               ELSE visit[v]]
        BY <1>3, <2>2 DEF HubMissesNode
      <4> HIDE DEF Met
      <4> QED
        BY <1>t, <4>1, <4>2 DEF VisitRows
    <3> QED
      BY <1>3, <1>t, <1>n, <1>s, <2>1, <2>2, <3>1 DEF HubMissesNode, TunnelTyping
  <2>3. CASE ~Unregisters(k)
    BY <1>3, <1>t, <2>1, <2>3 DEF HubMissesNode, TunnelTyping
  <2> QED
    BY <2>2, <2>3
<1>c. \A v \in Visit : Closed(v) \in VisitRows
  BY <1>t DEF Closed, VisitRows, VisitPc
<1>4. ASSUME NEW v \in Visit, ClientConnects(v) PROVE TunnelTyping'
  <2>1. SessionOf[v] \in Session
    BY TunnelAssumption
  <2>2. CASE clients[SessionOf[v]] = Nobody
    <3>1. visit' \in VisitRows /\ handler' \in HandlerRows /\ clients' \in ClientRows
      <4>1. /\ clients' = [clients EXCEPT ![SessionOf[v]] = v]
            /\ handler' = [handler EXCEPT ![v] = "serving"]
            /\ visit' = [visit EXCEPT ![v].pc = "ready"]
        BY <1>4, <2>2 DEF ClientConnects
      <4>2. clients' \in ClientRows /\ handler' \in HandlerRows
        BY <1>t, <2>1, <4>1 DEF HandlerRows, ClientRows
      <4>3. visit' \in VisitRows
        BY <1>t, <4>1 DEF VisitRows, VisitPc
      <4> QED
        BY <4>2, <4>3
    <3>2. outbound' \in [Visit -> Seq(Frame)]
      <4>1. <<Packet("hello", v, 0)>> \in Seq(Frame)
        BY <1>n, PacketFrame
      <4> QED
        BY <1>4, <1>t, <2>2, <4>1 DEF ClientConnects
    <3> QED
      BY <1>4, <1>t, <3>1, <3>2 DEF ClientConnects, TunnelTyping
  <2>3. CASE clients[SessionOf[v]] # Nobody
    BY <1>4, <1>t, <1>c, <2>3 DEF ClientConnects, HandlerRows, TunnelTyping
  <2> QED
    BY <2>2, <2>3
<1>5. ASSUME NEW v \in Visit, HubForwards(v) PROVE TunnelTyping'
  <2>1. Head(outbound[v]) \in Frame /\ Tail(outbound[v]) \in Seq(Frame)
    BY <1>5, <1>t, QueueHead DEF HubForwards
  <2>2. outbound' \in [Visit -> Seq(Frame)]
    BY <1>5, <1>t, <2>1 DEF HubForwards
  <2>3. CASE nodes = 0
    BY <1>5, <1>t, <1>c, <2>2, <2>3 DEF HubForwards, HandlerRows, TunnelTyping
  <2>4. CASE nodes # 0
    <3>1. nodes \in Link
      BY <1>t, <2>4 DEF Link
    <3>2. down' \in [Link -> Seq(Frame)]
      <4>1. down' = Sent(down, nodes, Head(outbound[v]))
        BY <1>5, <2>4 DEF HubForwards
      <4> QED
        BY <1>t, <2>1, <3>1, <4>1, SentFrame
    <3> QED
      BY <1>5, <1>t, <2>2, <2>4, <3>2 DEF HubForwards, TunnelTyping
  <2> QED
    BY <2>3, <2>4
<1>6. ASSUME NEW v \in Visit, HubMissesClient(v) PROVE TunnelTyping'
  BY <1>6, <1>t DEF HubMissesClient, HandlerRows, TunnelTyping
<1>7. ASSUME NEW v \in Visit, HandlerLeaves(v) PROVE TunnelTyping'
  <2>1. Packet("reset", v, 0) \in Frame
    BY <1>n, PacketFrame
  <2>2. down' \in [Link -> Seq(Frame)]
    <3>1. CASE nodes = 0
      BY <1>7, <1>t, <3>1 DEF HandlerLeaves
    <3>2. CASE nodes # 0
      <4>1. nodes \in Link
        BY <1>t, <3>2 DEF Link
      <4> QED
        BY <1>7, <1>t, <2>1, <3>2, <4>1, SentFrame DEF HandlerLeaves
    <3> QED
      BY <3>1, <3>2
  <2>3. outbound' \in [Visit -> Seq(Frame)] /\ inbound' \in [Visit -> Seq(Frame)]
    BY <1>7, <1>t, <1>e DEF HandlerLeaves
  <2>4. handler' \in HandlerRows /\ clients' \in ClientRows
    BY <1>7, <1>t DEF HandlerLeaves, HandlerRows, ClientRows
  <2> QED
    BY <1>7, <1>t, <2>2, <2>3, <2>4 DEF HandlerLeaves, TunnelTyping
<1>8. ASSUME NEW k \in Link, NodeReceives(k) PROVE TunnelTyping'
  <2> DEFINE f == Head(down[k])
  <2>1. f \in Frame /\ Tail(down[k]) \in Seq(Frame)
    BY <1>8, <1>t, QueueHead DEF NodeReceives
  <2>2. f.by \in Visit /\ f.number \in 0..MaxRequests /\ SessionOf[f.by] \in Session
    BY <2>1, TunnelAssumption DEF Frame
  <2>3. down' \in [Link -> Seq(Frame)]
    BY <1>8, <1>t, <2>1 DEF NodeReceives
  <2>4. sessions' \in [Link -> ClientRows]
    <3>1. \/ sessions' = sessions
          \/ \E x \in Visit \cup {Nobody} : sessions' = [sessions EXCEPT ![k][SessionOf[f.by]] = x]
      BY <1>8, <2>2 DEF NodeReceives
    <3> HIDE DEF f
    <3>2. ASSUME NEW x \in Visit \cup {Nobody}
          PROVE  [sessions EXCEPT ![k][SessionOf[f.by]] = x] \in [Link -> ClientRows]
      BY <1>t, <2>2, OnePlace DEF ClientRows
    <3> QED
      BY <1>t, <3>1, <3>2
  <2>5. up' \in [Link -> Seq(Frame)]
    <3>1. up' = up \/ up' = [up EXCEPT ![k] = Append(@, Packet("hello", f.by, 0))]
      BY <1>8 DEF NodeReceives
    <3> HIDE DEF f
    <3>2. Append(up[k], Packet("hello", f.by, 0)) \in Seq(Frame)
      <4>1. Packet("hello", f.by, 0) \in Frame
        BY <1>n, <2>2, PacketFrame
      <4>2. up[k] \in Seq(Frame)
        BY <1>t
      <4> QED
        BY <4>1, <4>2, QueueMore
    <3> QED
      BY <1>t, <3>1, <3>2
  <2>6. job' \in JobRows
    <3>1. job' = job \/ job' = [job EXCEPT ![f.by][f.number] =
                                     [pc |-> "running", link |-> k, number |-> 0]]
      BY <1>8 DEF NodeReceives
    <3>2. [pc |-> "running", link |-> k, number |-> 0] \in JobRow
      BY <1>n DEF JobRow
    <3> HIDE DEF f
    <3>3. CASE job' = job
      BY <1>t, <3>3
    <3>4. CASE job' # job
      <4> DEFINE R == [pc |-> "running", link |-> k, number |-> 0]
      <4>1. job' = [job EXCEPT ![f.by][f.number] = R]
        BY <3>1, <3>4
      <4> HIDE DEF R
      <4>2. [job[f.by] EXCEPT ![f.number] = R] \in [Request -> JobRow]
        BY <1>t, <2>2, <3>2 DEF JobRows, R
      <4> QED
        BY <1>t, <2>2, <4>1, <4>2 DEF JobRows
    <3> QED
      BY <3>3, <3>4
  <2> QED
    BY <1>8, <1>t, <2>3, <2>4, <2>5, <2>6 DEF NodeReceives, TunnelTyping
<1>9. ASSUME NEW v \in Visit, NEW r \in Request, Seals(v, r) PROVE TunnelTyping'
  <2> DEFINE n == Cardinality(Jobs(v, {"sealed", "sent"})) + 1
  <2>1. n \in 0..MaxRequests
    BY <1>9, NumberBound DEF Seals
  <2>2. job' = [job EXCEPT ![v][r].pc = "sealed", ![v][r].number = n]
    BY <1>9 DEF Seals
  <2> HIDE DEF n
  <2>3. job' \in JobRows
    <3> DEFINE R == [[job[v][r] EXCEPT !.pc = "sealed"] EXCEPT !.number = n]
    <3>1. job[v][r] \in JobRow
      BY <1>t DEF JobRows
    <3>2. R \in JobRow
      BY <2>1, <3>1 DEF JobRow
    <3>3. job' = [job EXCEPT ![v][r] = R]
      BY <1>t, <2>2 DEF JobRows
    <3> HIDE DEF R
    <3> QED
      BY <1>t, <3>2, <3>3, OnePlace DEF JobRows
  <2> QED
    BY <1>9, <1>t, <2>3 DEF Seals, TunnelTyping
<1>10. ASSUME NEW v \in Visit, NEW r \in Request, Answers(v, r) PROVE TunnelTyping'
  <2>1. job' \in JobRows
    <3> DEFINE R == [job[v][r] EXCEPT !.pc = "sent"]
    <3>1. job[v][r] \in JobRow
      BY <1>t DEF JobRows
    <3>2. R \in JobRow
      BY <3>1 DEF JobRow
    <3>3. job' = [job EXCEPT ![v][r] = R]
      BY <1>10 DEF Answers
    <3> HIDE DEF R
    <3> QED
      BY <1>t, <3>2, <3>3, OnePlace DEF JobRows
  <2>2. /\ job[v][r].number \in 0..MaxRequests /\ job[v][r].link \in 0..MaxLinks
    BY <1>t DEF JobRows, JobRow
  <2>3. up' \in [Link -> Seq(Frame)]
    <3>1. Packet("answer", v, job[v][r].number) \in Frame
      BY <2>2, PacketFrame
    <3>2. Sent(up, job[v][r].link, Packet("answer", v, job[v][r].number)) \in [Link -> Seq(Frame)]
      <4>1. CASE job[v][r].link \in Link
        BY <1>t, <3>1, <4>1, SentFrame
      <4>2. CASE job[v][r].link \notin Link
        BY <1>t, <4>2 DEF Sent
      <4> QED
        BY <4>1, <4>2
    <3> QED
      BY <1>10, <3>2 DEF Answers
  <2> QED
    BY <1>10, <1>t, <2>1, <2>3 DEF Answers, TunnelTyping
<1>11. ASSUME NEW k \in Link, HubReturns(k) PROVE TunnelTyping'
  <2>1. Head(up[k]) \in Frame /\ Tail(up[k]) \in Seq(Frame)
    BY <1>11, <1>t, QueueHead DEF HubReturns
  <2>2. up' \in [Link -> Seq(Frame)]
    BY <1>11, <1>t, <2>1 DEF HubReturns
  <2>3. clients[SessionOf[Head(up[k]).by]] \in Visit \cup {Nobody}
    BY <1>t, <2>1, TunnelAssumption DEF Frame, ClientRows
  <2>4. inbound' \in [Visit -> Seq(Frame)]
    <3> DEFINE to == clients[SessionOf[Head(up[k]).by]]
    <3>1. inbound' = IF to = Nobody THEN inbound
                     ELSE [inbound EXCEPT ![to] = Append(@, Head(up[k]))]
      BY <1>11 DEF HubReturns
    <3>2. to \in Visit \cup {Nobody}
      BY <2>3
    <3> HIDE DEF to
    <3>3. CASE to = Nobody
      BY <1>t, <3>1, <3>3
    <3>4. CASE to # Nobody
      <4>1. to \in Visit /\ inbound[to] \in Seq(Frame)
        BY <1>t, <3>2, <3>4
      <4>2. Append(inbound[to], Head(up[k])) \in Seq(Frame)
        BY <2>1, <4>1, QueueMore
      <4> QED
        BY <1>t, <3>1, <3>4, <4>2
    <3> QED
      BY <3>3, <3>4
  <2> QED
    BY <1>11, <1>t, <2>2, <2>4 DEF HubReturns, TunnelTyping
<1>12. ASSUME NEW v \in Visit, ClientReceives(v) PROVE TunnelTyping'
  <2>1. Head(inbound[v]) \in Frame /\ Tail(inbound[v]) \in Seq(Frame)
    BY <1>12, <1>t, QueueHead DEF ClientReceives
  <2>2. inbound' \in [Visit -> Seq(Frame)]
    BY <1>12, <1>t, <2>1 DEF ClientReceives
  <2>3. visit' \in VisitRows /\ garbled' \subseteq Visit
    <3>1. \/ visit' = [visit EXCEPT ![v].pc = "secure"] /\ garbled' = garbled
          \/ /\ Head(inbound[v]).number = visit[v].read + 1
             /\ visit' = [visit EXCEPT ![v].read = @ + 1] /\ garbled' = garbled
          \/ visit' = Closed(v) /\ garbled' = garbled \cup {v}
      BY <1>12 DEF ClientReceives
    <3>2. CASE /\ Head(inbound[v]).number = visit[v].read + 1
               /\ visit' = [visit EXCEPT ![v].read = @ + 1] /\ garbled' = garbled
      <4>1. visit[v].read + 1 \in 0..MaxRequests
        BY <2>1, <3>2 DEF Frame
      <4> QED
        BY <1>t, <3>2, <4>1 DEF VisitRows
    <3>3. CASE visit' = [visit EXCEPT ![v].pc = "secure"] /\ garbled' = garbled
      BY <1>t, <3>3 DEF VisitRows, VisitPc
    <3>4. CASE visit' = Closed(v) /\ garbled' = garbled \cup {v}
      BY <1>t, <1>c, <3>4
    <3> QED
      BY <3>1, <3>2, <3>3, <3>4
  <2> QED
    BY <1>12, <1>t, <2>2, <2>3 DEF ClientReceives, TunnelTyping
<1>13. ASSUME NEW v \in Visit, ClientAsks(v) PROVE TunnelTyping'
  <2>1. visit[v].sent + 1 \in 0..MaxRequests
    BY <1>13, <1>t, <1>n DEF ClientAsks, VisitRows
  <2>2. visit' \in VisitRows
    BY <1>13, <1>t, <2>1 DEF ClientAsks, VisitRows
  <2>3. outbound' \in [Visit -> Seq(Frame)]
    <3>1. Append(outbound[v], Packet("request", v, visit[v].sent + 1)) \in Seq(Frame)
      BY <1>t, <2>1, PacketFrame, QueueMore
    <3> QED
      BY <1>13, <1>t, <3>1 DEF ClientAsks
  <2> QED
    BY <1>13, <1>t, <2>2, <2>3 DEF ClientAsks, TunnelTyping
<1>14. ASSUME NEW v \in Visit, ClientCloses(v) PROVE TunnelTyping'
  BY <1>14, <1>t, <1>c DEF ClientCloses, TunnelTyping
<1>15. CASE UNCHANGED yvars
  BY <1>15, <1>t DEF yvars, TunnelTyping
<1> QED
  BY <1>1, <1>2, <1>3, <1>4, <1>5, <1>6, <1>7, <1>8, <1>9, <1>10, <1>11, <1>12, <1>13, <1>14, <1>15
     DEF TunnelNext, Tied, Visiting, Linking, Handling, Dispatching

\* The link that the Node makes next is a new one.
LEMMA NextLinkIsNew ==
  ASSUME TunnelTypeOK, NEW n \in 0..MaxLinks, \A k \in Link : link[k].node # "none" <=> k <= n
  PROVE  NextLink = n + 1
<1>1. {k \in Link : link[k].node # "none"} = 1..n
  BY TunnelAssumption DEF Link
<1>2. n \in Nat
  BY TunnelAssumption
<1>3. Cardinality(1..n) = n
  BY <1>2, FS_Interval
<1> QED
  BY <1>1, <1>3 DEF NextLink

\* What the Hub puts on the link to the Node.
LEMMA HubSends ==
  ASSUME TunnelTypeOK, LinkInv, NEW f \in Frame,
         down' = IF nodes = 0 THEN down ELSE Sent(down, nodes, f)
  PROVE  \/ down' = down /\ \A k \in Link : ~IsUp(k)
         \/ /\ nodes \in Link /\ IsUp(nodes)
            /\ down'[nodes] = Append(down[nodes], f)
            /\ \A k \in Link : k # nodes => down'[k] = down[k] /\ ~IsUp(k)
<1>1. CASE nodes = 0
  BY <1>1 DEF LinkInv, Link
<1>2. CASE nodes # 0
  <2>1. nodes \in Link /\ down \in [Link -> Seq(Frame)]
    BY <1>2 DEF TunnelTypeOK, Link
  <2>2. \A k \in Link : k # nodes => ~IsUp(k)
    BY DEF LinkInv
  <2>3. down' = Sent(down, nodes, f)
    BY <1>2
  <2>4. /\ \A m \in Link : m # nodes => Sent(down, nodes, f)[m] = down[m]
        /\ IsUp(nodes) => Sent(down, nodes, f)[nodes] = Append(down[nodes], f)
        /\ ~IsUp(nodes) => Sent(down, nodes, f) = down
    BY <2>1, SentFrame
  <2>5. CASE IsUp(nodes)
    BY <2>1, <2>2, <2>3, <2>4, <2>5
  <2>6. CASE ~IsUp(nodes)
    BY <2>1, <2>2, <2>3, <2>4, <2>6
  <2> QED
    BY <2>5, <2>6
<1> QED
  BY <1>1, <1>2

\* What HubForwards puts on the link.
LEMMA Forwarded ==
  ASSUME TunnelTypeOK, LinkInv, NEW v \in Visit, HubForwards(v)
  PROVE  /\ outbound[v][1] \in Frame /\ outbound[v] # <<>>
         /\ \/ down' = down
            \/ /\ nodes \in Link /\ IsUp(nodes) /\ nodes # 0
               /\ down'[nodes] = Append(down[nodes], outbound[v][1])
               /\ \A k \in Link : k # nodes => down'[k] = down[k] /\ ~IsUp(k)
<1>1. /\ Head(outbound[v]) \in Frame /\ Head(outbound[v]) = outbound[v][1] /\ outbound[v] # <<>>
  BY QueueHead DEF HubForwards, TunnelTypeOK
<1>2. down' = IF nodes = 0 THEN down ELSE Sent(down, nodes, Head(outbound[v]))
  BY DEF HubForwards
<1>3. nodes \in Link => nodes # 0
  BY DEF Link
<1> QED
  BY <1>1, <1>2, <1>3, HubSends

\* What HandlerLeaves puts on the link.
LEMMA ResetSent ==
  ASSUME TunnelTypeOK, LinkInv, NEW v \in Visit, HandlerLeaves(v)
  PROVE  /\ Packet("reset", v, 0) \in Frame
         /\ \/ down' = down /\ \A k \in Link : ~IsUp(k)
            \/ /\ nodes \in Link /\ IsUp(nodes)
               /\ down'[nodes] = Append(down[nodes], Packet("reset", v, 0))
               /\ \A k \in Link : k # nodes => down'[k] = down[k] /\ ~IsUp(k)
<1>1. Packet("reset", v, 0) \in Frame
  BY TunnelAssumption, PacketFrame
<1>2. down' = IF nodes = 0 THEN down ELSE Sent(down, nodes, Packet("reset", v, 0))
  BY DEF HandlerLeaves
<1> QED
  BY <1>1, <1>2, HubSends

\* The frames that the Node and the Hub read next.
FirstDown(k) == down[k][1]
FirstUp(k) == up[k][1]

\* What the Node makes of a frame.
LEMMA Received ==
  ASSUME TunnelTypeOK, NEW k \in Link, NodeReceives(k)
  PROVE  /\ IsUp(k) /\ down[k] # <<>> /\ FirstDown(k) \in Frame
         /\ FirstDown(k).by \in Visit /\ FirstDown(k).number \in 0..MaxRequests /\ SessionOf[FirstDown(k).by] \in Session
         /\ down'[k] = Tail(down[k]) /\ \A m \in Link : m # k => down'[m] = down[m]
         /\ \/ /\ FirstDown(k).kind = "reset"
               /\ sessions'[k][SessionOf[FirstDown(k).by]] = Nobody
               /\ UNCHANGED <<job, up>>
            \/ /\ FirstDown(k).kind = "hello" /\ sessions[k][SessionOf[FirstDown(k).by]] = Nobody
               /\ sessions'[k][SessionOf[FirstDown(k).by]] = FirstDown(k).by
               /\ up'[k] = Append(up[k], Packet("hello", FirstDown(k).by, 0))
               /\ \A m \in Link : m # k => up'[m] = up[m]
               /\ UNCHANGED job
            \/ /\ FirstDown(k).kind = "request" /\ sessions[k][SessionOf[FirstDown(k).by]] = FirstDown(k).by
               /\ job' = [job EXCEPT ![FirstDown(k).by][FirstDown(k).number] =
                             [pc |-> "running", link |-> k, number |-> 0]]
               /\ UNCHANGED <<sessions, up>>
            \/ /\ FirstDown(k).kind \in {"hello", "request"} /\ UNCHANGED <<sessions, job, up>>
         /\ \A m \in Link, s \in Session :
               m # k \/ s # SessionOf[FirstDown(k).by] => sessions'[m][s] = sessions[m][s]
         /\ UNCHANGED <<link, nodes, clients, visit, handler, outbound, inbound, garbled, stale>>
<1> DEFINE f == FirstDown(k)
<1>t. /\ down \in [Link -> Seq(Frame)] /\ up \in [Link -> Seq(Frame)]
      /\ sessions \in [Link -> [Session -> Visit \cup {Nobody}]]
  BY DEF TunnelTypeOK
<1>1. /\ IsUp(k) /\ down[k] # <<>> /\ down' = [down EXCEPT ![k] = Tail(@)]
      /\ UNCHANGED <<link, nodes, clients, visit, handler, outbound, inbound, garbled, stale>>
  BY DEF NodeReceives, IsUp
<1>2. Head(down[k]) = f /\ f \in Frame
  BY <1>t, <1>1, QueueHead DEF FirstDown
<1>3. f.by \in Visit /\ f.number \in 0..MaxRequests /\ SessionOf[f.by] \in Session
  BY <1>2, TunnelAssumption DEF Frame
<1>h. f = FirstDown(k)
  OBVIOUS
<1> HIDE DEF f
<1>4. \/ /\ f.kind = "reset"
         /\ sessions' = [sessions EXCEPT ![k][SessionOf[f.by]] = Nobody]
         /\ UNCHANGED <<job, up>>
      \/ /\ f.kind = "hello" /\ sessions[k][SessionOf[f.by]] = Nobody
         /\ sessions' = [sessions EXCEPT ![k][SessionOf[f.by]] = f.by]
         /\ up' = [up EXCEPT ![k] = Append(@, Packet("hello", f.by, 0))]
         /\ UNCHANGED job
      \/ /\ f.kind = "request" /\ sessions[k][SessionOf[f.by]] = f.by
         /\ job' = [job EXCEPT ![f.by][f.number] = [pc |-> "running", link |-> k, number |-> 0]]
         /\ UNCHANGED <<sessions, up>>
      \/ /\ f.kind \in {"hello", "request"} /\ UNCHANGED <<sessions, job, up>>
  BY <1>2 DEF NodeReceives
<1>5. ASSUME NEW x \in Visit \cup {Nobody},
             sessions' = [sessions EXCEPT ![k][SessionOf[f.by]] = x]
      PROVE  /\ sessions'[k][SessionOf[f.by]] = x
             /\ \A m \in Link, s \in Session :
                   m # k \/ s # SessionOf[f.by] => sessions'[m][s] = sessions[m][s]
  BY <1>t, <1>3, <1>5, OnePlace
<1>6. down'[k] = Tail(down[k]) /\ \A m \in Link : m # k => down'[m] = down[m]
  BY <1>t, <1>1
<1>7. \A m \in Link, s \in Session :
               m # k \/ s # SessionOf[f.by] => sessions'[m][s] = sessions[m][s]
  BY <1>3, <1>4, <1>5
<1>8. \/ /\ f.kind = "reset"
         /\ sessions'[k][SessionOf[f.by]] = Nobody
         /\ UNCHANGED <<job, up>>
      \/ /\ f.kind = "hello" /\ sessions[k][SessionOf[f.by]] = Nobody
         /\ sessions'[k][SessionOf[f.by]] = f.by
         /\ up'[k] = Append(up[k], Packet("hello", f.by, 0))
         /\ \A m \in Link : m # k => up'[m] = up[m]
         /\ UNCHANGED job
      \/ /\ f.kind = "request" /\ sessions[k][SessionOf[f.by]] = f.by
         /\ job' = [job EXCEPT ![f.by][f.number] = [pc |-> "running", link |-> k, number |-> 0]]
         /\ UNCHANGED <<sessions, up>>
      \/ /\ f.kind \in {"hello", "request"} /\ UNCHANGED <<sessions, job, up>>
  BY <1>t, <1>3, <1>4, <1>5
<1> QED
  BY <1>1, <1>2, <1>3, <1>6, <1>7, <1>8, <1>h

\* An answer goes to the link of its request.
LEMMA Answered ==
  ASSUME TunnelTypeOK, NEW v \in Visit, NEW r \in Request, Answers(v, r)
  PROVE  /\ job[v][r].number \in 0..MaxRequests
         /\ Packet("answer", v, job[v][r].number) \in Frame
         /\ \/ up' = up /\ (job[v][r].link \in Link => ~IsUp(job[v][r].link))
            \/ \E k \in Link :
                  /\ job[v][r].link = k /\ IsUp(k)
                  /\ up'[k] = Append(up[k], Packet("answer", v, job[v][r].number))
                  /\ \A m \in Link : m # k => up'[m] = up[m]
<1> DEFINE n == job[v][r].number
           k == job[v][r].link
<1>1. n \in 0..MaxRequests /\ up \in [Link -> Seq(Frame)]
  BY DEF TunnelTypeOK
<1>2. Packet("answer", v, n) \in Frame
  BY <1>1, PacketFrame
<1>3. up' = Sent(up, k, Packet("answer", v, n))
  BY DEF Answers
<1> DEFINE a == Packet("answer", v, n)
<1>6. a \in Frame /\ up' = Sent(up, k, a)
  BY <1>2, <1>3
<1> HIDE DEF a, k, n
<1>4. CASE k \in Link
  <2>1. /\ \A m \in Link : m # k => Sent(up, k, a)[m] = up[m]
        /\ IsUp(k) => Sent(up, k, a)[k] = Append(up[k], a)
        /\ ~IsUp(k) => Sent(up, k, a) = up
    BY <1>1, <1>4, <1>6, SentFrame
  <2> QED
    BY <1>1, <1>2, <1>4, <1>6, <2>1 DEF a, k, n
<1>5. CASE k \notin Link
  <2>1. Sent(up, k, a) = up
    BY <1>1, <1>5 DEF Sent
  <2> QED
    BY <1>1, <1>2, <1>5, <1>6, <2>1 DEF k, n
<1> QED
  BY <1>4, <1>5

\* The Hub passes on what comes from the Node.
LEMMA Returned ==
  ASSUME TunnelTypeOK, NEW k \in Link, HubReturns(k)
  PROVE  /\ FirstUp(k) \in Frame /\ FirstUp(k).by \in Visit /\ SessionOf[FirstUp(k).by] \in Session /\ up[k] # <<>>
         /\ up'[k] = Tail(up[k]) /\ \A m \in Link : m # k => up'[m] = up[m]
         /\ \/ clients[SessionOf[FirstUp(k).by]] = Nobody /\ inbound' = inbound
            \/ \E x \in Visit : /\ clients[SessionOf[FirstUp(k).by]] = x
                               /\ inbound'[x] = Append(inbound[x], FirstUp(k))
                               /\ \A w \in Visit : w # x => inbound'[w] = inbound[w]
         /\ UNCHANGED <<link, nodes, clients, visit, handler, sessions, job, outbound, down,
                        garbled, stale>>
<1> DEFINE f == FirstUp(k)
           x == clients[SessionOf[f.by]]
<1>t. /\ up \in [Link -> Seq(Frame)] /\ inbound \in [Visit -> Seq(Frame)]
      /\ clients \in [Session -> Visit \cup {Nobody}]
  BY DEF TunnelTypeOK
<1>1. up[k] # <<>> /\ up' = [up EXCEPT ![k] = Tail(@)]
  BY DEF HubReturns
<1>2. Head(up[k]) = f /\ f \in Frame
  BY <1>t, <1>1, QueueHead DEF FirstUp
<1>3. f.by \in Visit /\ SessionOf[f.by] \in Session /\ x \in Visit \cup {Nobody}
  BY <1>t, <1>2, TunnelAssumption DEF Frame
<1>4. inbound' = IF x = Nobody THEN inbound ELSE [inbound EXCEPT ![x] = Append(@, f)]
  BY <1>2 DEF HubReturns
<1>5. UNCHANGED <<link, nodes, clients, visit, handler, sessions, job, outbound, down,
                  garbled, stale>>
  BY DEF HubReturns
<1> QED
  BY <1>t, <1>1, <1>2, <1>3, <1>4, <1>5

\* The other steps leave the links as they are and what is lost empty.
LEMMA LinkKept ==
  ASSUME TunnelTypeOK, LinkInv, UNCHANGED <<link, nodes>>,
         \A k \in Link : ~IsUp(k) =>
             /\ down'[k] = down[k] /\ up'[k] = up[k]
             /\ \A s \in Session : sessions'[k][s] = sessions[k][s]
  PROVE  LinkInv'
BY DEF LinkInv, IsUp

LEMMA LinkStep == TunnelTypeOK /\ LinkInv /\ [TunnelNext]_yvars => LinkInv'
<1> SUFFICES ASSUME TunnelTypeOK, LinkInv, [TunnelNext]_yvars PROVE LinkInv'
  OBVIOUS
<1>t. /\ link \in LinkRows /\ down \in [Link -> Seq(Frame)] /\ up \in [Link -> Seq(Frame)]
      /\ sessions \in [Link -> [Session -> Visit \cup {Nobody}]]
  BY DEF TunnelTypeOK, LinkRows
<1>1. CASE NodeConnects
  <2>1. PICK n \in 0..MaxLinks : \A k \in Link : link[k].node # "none" <=> k <= n
    BY DEF LinkInv
  <2>2. NextLink = n + 1
    BY <2>1, NextLinkIsNew
  <2>3. /\ n + 1 \in Link /\ nodes' = n + 1 /\ n \in Nat
        /\ link' = [link EXCEPT ![n + 1] = [node |-> "up", hub |-> "serving"]]
        /\ UNCHANGED <<down, up, sessions>>
    BY <1>1, <2>2, TunnelAssumption DEF NodeConnects
  <2>4. /\ link'[n + 1].node = "up" /\ \A k \in Link : k # n + 1 => link'[k] = link[k]
    BY <1>t, <2>3 DEF LinkRows
  <2>5. \A k \in Link : link'[k].node # "none" <=> k <= n + 1
    BY <2>1, <2>3, <2>4 DEF Link
  <2>6. n + 1 \in 0..MaxLinks
    BY <2>3 DEF Link
  <2>7. \A k \in Link : link[k].node # "up"
    BY <1>1 DEF NodeConnects
  <2>8. \A k \in Link : /\ link'[k].node = "up" => nodes' = k
                        /\ link'[k].node # "up" => /\ down'[k] = <<>> /\ up'[k] = <<>>
                                                   /\ \A s \in Session : sessions'[k][s] = Nobody
    BY <2>3, <2>4, <2>7 DEF LinkInv, IsUp
  <2> QED
    BY <2>5, <2>6, <2>8 DEF LinkInv, IsUp
<1>2. ASSUME NEW k \in Link, LinkIsLost(k) PROVE LinkInv'
  <2>1. /\ link[k].node = "up" /\ link'[k].node = "lost"
        /\ \A m \in Link : m # k => link'[m] = link[m]
        /\ down'[k] = <<>> /\ up'[k] = <<>> /\ \A s \in Session : sessions'[k][s] = Nobody
        /\ \A m \in Link : m # k => /\ down'[m] = down[m] /\ up'[m] = up[m]
                                    /\ sessions'[m] = sessions[m]
        /\ nodes' = nodes
    BY <1>2, <1>t DEF LinkIsLost, LinkRows
  <2>2. \A m \in Link : link'[m].node # "none" <=> link[m].node # "none"
    BY <2>1
  <2>3. \A m \in Link : /\ link'[m].node = "up" => nodes' = m
                        /\ link'[m].node # "up" => /\ down'[m] = <<>> /\ up'[m] = <<>>
                                                   /\ \A s \in Session : sessions'[m][s] = Nobody
    BY <2>1 DEF LinkInv, IsUp
  <2> QED
    BY <2>2, <2>3 DEF LinkInv, IsUp
<1>3. ASSUME NEW k \in Link, HubMissesNode(k) PROVE LinkInv'
  <2>1. /\ \A m \in Link : link'[m].node = link[m].node
        /\ link[k].node = "lost"
        /\ nodes' = nodes \/ nodes = k
        /\ UNCHANGED <<down, up, sessions>>
    BY <1>3, <1>t DEF HubMissesNode, LinkRows, Unregisters
  <2>2. \A m \in Link : /\ link'[m].node = "up" => nodes' = m
                        /\ link'[m].node # "up" => /\ down'[m] = <<>> /\ up'[m] = <<>>
                                                   /\ \A s \in Session : sessions'[m][s] = Nobody
    BY <2>1 DEF LinkInv, IsUp
  <2> QED
    BY <2>1, <2>2 DEF LinkInv, IsUp
<1>4. ASSUME NEW v \in Visit, HubForwards(v) PROVE LinkInv'
  <2>1. UNCHANGED <<link, nodes, up, sessions>>
    BY <1>4 DEF HubForwards
  <2> QED
    BY <1>4, <2>1, Forwarded, LinkKept
<1>5. ASSUME NEW v \in Visit, HandlerLeaves(v) PROVE LinkInv'
  <2>1. UNCHANGED <<link, nodes, up, sessions>>
    BY <1>5 DEF HandlerLeaves
  <2> QED
    BY <1>5, <2>1, ResetSent, LinkKept
<1>6. ASSUME NEW k \in Link, NodeReceives(k) PROVE LinkInv'
  <2>1. /\ IsUp(k) /\ UNCHANGED <<link, nodes>>
        /\ \A m \in Link : m # k => down'[m] = down[m]
        /\ \A m \in Link : m # k => up'[m] = up[m]
        /\ \A m \in Link, s \in Session : m # k => sessions'[m][s] = sessions[m][s]
    <3>2. /\ IsUp(k) /\ UNCHANGED <<link, nodes>>
          /\ \A m \in Link : m # k => down'[m] = down[m]
          /\ \A m \in Link, s \in Session :
                m # k \/ s # SessionOf[FirstDown(k).by] => sessions'[m][s] = sessions[m][s]
      BY <1>6, Received
    <3>3. up' = up \/ \A m \in Link : m # k => up'[m] = up[m]
      BY <1>6, Received
    <3> QED
      BY <3>2, <3>3
  <2> QED
    BY <2>1, LinkKept
<1>7. ASSUME NEW v \in Visit, NEW r \in Request, Answers(v, r) PROVE LinkInv'
  <2>1. UNCHANGED <<link, nodes, down, sessions>>
    BY <1>7 DEF Answers
  <2> QED
    BY <1>7, <2>1, Answered, LinkKept
<1>8. ASSUME NEW k \in Link, HubReturns(k) PROVE LinkInv'
  <2>1. /\ up[k] # <<>> /\ \A m \in Link : m # k => up'[m] = up[m]
        /\ UNCHANGED <<link, nodes, sessions, down>>
    BY <1>8, Returned
  <2>2. IsUp(k)
    BY <2>1 DEF LinkInv
  <2> QED
    BY <2>1, <2>2, LinkKept
<1>9. ASSUME NEW v \in Visit,
             \/ ClientConnects(v) \/ ClientReceives(v) \/ ClientAsks(v) \/ ClientCloses(v)
             \/ HubMissesClient(v) \/ \E r \in Request : Seals(v, r)
      PROVE  LinkInv'
  <2>1. UNCHANGED <<link, nodes, down, up, sessions>>
    BY <1>9 DEF ClientConnects, ClientReceives, ClientAsks, ClientCloses, HubMissesClient, Seals
  <2> QED
    BY <2>1, LinkKept
<1>10. CASE UNCHANGED yvars
  BY <1>10, LinkKept DEF yvars
<1> QED
  BY <1>1, <1>2, <1>3, <1>4, <1>5, <1>6, <1>7, <1>8, <1>9, <1>10
     DEF TunnelNext, Tied, Visiting, Linking, Handling, Dispatching

\* The steps that change neither a visit's state nor its handler keep the register.
LEMMA RegisterKept ==
  ASSUME Registered, \A v \in Visit : visit'[v].pc = visit[v].pc, UNCHANGED <<handler, clients>>,
         \A k \in Link, s \in Session :
             sessions'[k][s] = sessions[k][s] \/ sessions'[k][s] = Nobody
                \/ (sessions'[k][s] \in Visit /\ SessionOf[sessions'[k][s]] = s)
  PROVE  Registered'
<1>1. HandlerInv'
  BY DEF Registered, HandlerInv
<1>2. RegistryInv'
  BY TunnelAssumption DEF Registered, RegistryInv
<1>3. RegistryIsTrue'
  BY DEF Registered, RegistryIsTrue, OwnTicket
<1> QED
  BY <1>1, <1>2, <1>3 DEF Registered

\* The steps of one visit and its handler that leave the sessions alone.
LEMMA RegisterRow ==
  ASSUME TunnelTypeOK, Registered, NEW v \in Visit, UNCHANGED sessions,
         \A w \in Visit : w # v => visit'[w].pc = visit[w].pc /\ handler'[w] = handler[w],
         visit'[v].pc = "idle" <=> handler'[v] = "none",
         handler'[v] \in {"leaving", "over"} => visit'[v].pc = "closed",
         \/ /\ clients' = clients
            /\ handler'[v] = handler[v] \/ handler'[v] = "leaving"
            /\ handler'[v] = "serving" /\ visit'[v].pc # "closed" => visit[v].pc # "closed"
         \/ /\ clients' = [clients EXCEPT ![SessionOf[v]] = v]
            /\ clients[SessionOf[v]] = Nobody /\ handler'[v] = "serving"
         \/ /\ clients' = [clients EXCEPT ![SessionOf[v]] = Nobody]
            /\ handler'[v] = "over"
  PROVE  Registered'
<1>t. clients \in [Session -> Visit \cup {Nobody}] /\ SessionOf[v] \in Session
      /\ \A w \in Visit : SessionOf[w] \in Session
  BY TunnelAssumption DEF TunnelTypeOK
<1>i. HandlerInv /\ RegistryInv /\ RegistryIsTrue
  BY DEF Registered
<1>1. HandlerInv'
  BY <1>i DEF HandlerInv
<1>2. \A s \in Session : clients'[s] # Nobody => SessionOf[clients'[s]] = s
  BY <1>t, <1>i DEF RegistryInv
<1>3. RegistryInv'
  BY <1>2, <1>i DEF RegistryInv
<1>4. ASSUME NEW s \in Session, clients'[s] # Nobody
      PROVE  handler'[clients'[s]] \in {"serving", "leaving"}
  <2>1. CASE clients' = clients /\ (handler'[v] = handler[v] \/ handler'[v] = "leaving")
    <3>1. clients[s] \in Visit /\ handler[clients[s]] \in {"serving", "leaving"}
      BY <1>t, <1>4, <1>i, <2>1 DEF RegistryIsTrue
    <3>2. handler'[clients[s]] = handler[clients[s]] \/ handler'[clients[s]] = "leaving"
      BY <2>1, <3>1
    <3> QED
      BY <2>1, <3>1, <3>2
  <2>2. CASE clients' = [clients EXCEPT ![SessionOf[v]] = v] /\ handler'[v] = "serving"
    BY <1>t, <1>4, <1>i, <2>2 DEF RegistryIsTrue
  <2>3. CASE clients' = [clients EXCEPT ![SessionOf[v]] = Nobody]
    <3>1. s # SessionOf[v] /\ clients'[s] = clients[s]
      BY <1>t, <1>4, <2>3
    <3>2. clients[s] # v /\ clients[s] \in Visit
      BY <1>t, <1>i, <1>4, <3>1 DEF RegistryInv
    <3> QED
      BY <1>i, <1>4, <3>1, <3>2 DEF RegistryIsTrue
  <2> QED
    BY <2>1, <2>2, <2>3
<1>5. ASSUME NEW w \in OwnTicket, handler'[w] = "serving", visit'[w].pc # "closed"
      PROVE  clients'[SessionOf[w]] = w
  <2>1. w \in Visit /\ (SessionOf[w] = SessionOf[v] => w = v)
    BY DEF OwnTicket
  <2>2. CASE w = v
    BY <1>t, <1>5, <1>i, <2>1, <2>2 DEF RegistryIsTrue
  <2>3. CASE w # v
    <3>1. clients[SessionOf[w]] = w
      BY <1>5, <1>i, <2>1, <2>3 DEF RegistryIsTrue
    <3> QED
      BY <1>t, <2>1, <2>3, <3>1
  <2> QED
    BY <2>2, <2>3
<1>6. RegistryIsTrue'
  <2>1. OwnTicket' = OwnTicket /\ OwnTicket \subseteq Visit
    BY DEF OwnTicket
  <2> QED
    BY <1>4, <1>5, <2>1 DEF RegistryIsTrue
<1> QED
  BY <1>1, <1>3, <1>6 DEF Registered

LEMMA RegisterStep == TunnelTypeOK /\ LinkInv /\ Registered /\ [TunnelNext]_yvars => Registered'
<1> SUFFICES ASSUME TunnelTypeOK, LinkInv, Registered, [TunnelNext]_yvars PROVE Registered'
  OBVIOUS
<1>t. /\ visit \in VisitRows /\ handler \in HandlerRows
      /\ clients \in [Session -> Visit \cup {Nobody}]
      /\ sessions \in [Link -> [Session -> Visit \cup {Nobody}]]
  BY DEF TunnelTypeOK, VisitRows, HandlerRows
<1>i. HandlerInv /\ RegistryInv /\ RegistryIsTrue
  BY DEF Registered
<1>c. ASSUME NEW v \in Visit, visit' = Closed(v)
      PROVE  visit'[v].pc = "closed" /\ \A w \in Visit : w # v => visit'[w] = visit[w]
  BY <1>t, <1>c DEF Closed, VisitRows
<1>1. ASSUME NEW k \in Link, LinkIsLost(k) PROVE Registered'
  <2>1. UNCHANGED <<visit, handler, clients>>
    BY <1>1 DEF LinkIsLost
  <2>2. sessions' = [sessions EXCEPT ![k] = [s \in Session |-> Nobody]]
    BY <1>1 DEF LinkIsLost
  <2>3. \A m \in Link, s \in Session : sessions'[m][s] = sessions[m][s] \/ sessions'[m][s] = Nobody
    BY <1>t, <2>2
  <2> QED
    BY <2>1, <2>3, RegisterKept
<1>2. ASSUME NEW k \in Link, HubMissesNode(k) PROVE Registered'
  <2>1. CASE Unregisters(k)
    <3> DEFINE Met(v) == \E s \in Session : clients[s] = v
    <3>1. /\ clients' = [s \in Session |-> Nobody] /\ UNCHANGED <<handler, sessions>>
          /\ visit' = [v \in Visit |-> IF Met(v) THEN [visit[v] EXCEPT !.pc = "closed"]
                                                 ELSE visit[v]]
      BY <1>2, <2>1 DEF HubMissesNode
    <3>2. \A v \in Visit : Met(v) => handler[v] \in {"serving", "leaving"}
      BY <1>i, TunnelAssumption DEF RegistryIsTrue
    <3>3. \A v \in OwnTicket : handler[v] = "serving" /\ visit[v].pc # "closed" => Met(v)
      BY <1>i, TunnelAssumption DEF RegistryIsTrue, OwnTicket
    <3> HIDE DEF Met
    <3>4. \A v \in Visit : /\ Met(v) => visit'[v].pc = "closed"
                           /\ ~Met(v) => visit'[v].pc = visit[v].pc
      BY <1>t, <3>1 DEF VisitRows
    <3>5. HandlerInv'
      BY <1>i, <3>1, <3>2, <3>4 DEF HandlerInv
    <3>6. RegistryInv'
      BY <1>i, <3>1 DEF RegistryInv
    <3>7. RegistryIsTrue'
      BY <3>1, <3>3, <3>4 DEF RegistryIsTrue, OwnTicket
    <3> QED
      BY <3>5, <3>6, <3>7 DEF Registered
  <2>2. CASE ~Unregisters(k)
    <3>1. UNCHANGED <<visit, handler, clients, sessions>>
      BY <1>2, <2>2 DEF HubMissesNode
    <3> QED
      BY <3>1, RegisterKept
  <2> QED
    BY <2>1, <2>2
<1>3. ASSUME NEW v \in Visit, ClientConnects(v) PROVE Registered'
  <2>1. sessions' = sessions
    BY <1>3 DEF ClientConnects
  <2>2. CASE clients[SessionOf[v]] = Nobody
    <3>1. /\ clients' = [clients EXCEPT ![SessionOf[v]] = v]
          /\ handler' = [handler EXCEPT ![v] = "serving"]
          /\ visit' = [visit EXCEPT ![v].pc = "ready"]
      BY <1>3, <2>2 DEF ClientConnects
    <3>2. /\ handler'[v] = "serving" /\ visit'[v].pc = "ready"
          /\ \A w \in Visit : w # v => visit'[w].pc = visit[w].pc /\ handler'[w] = handler[w]
      BY <1>t, <3>1 DEF VisitRows, HandlerRows
    <3> QED
      BY <2>1, <2>2, <3>1, <3>2, RegisterRow
  <2>3. CASE clients[SessionOf[v]] # Nobody
    <3>1. /\ clients' = clients /\ visit' = Closed(v)
          /\ handler' = [handler EXCEPT ![v] = "leaving"]
      BY <1>3, <2>3 DEF ClientConnects
    <3>2. /\ handler'[v] = "leaving" /\ visit'[v].pc = "closed"
          /\ \A w \in Visit : w # v => visit'[w].pc = visit[w].pc /\ handler'[w] = handler[w]
      BY <1>t, <1>c, <3>1 DEF HandlerRows
    <3> QED
      BY <2>1, <3>1, <3>2, RegisterRow
  <2> QED
    BY <2>2, <2>3
<1>4. ASSUME NEW v \in Visit, HubForwards(v) \/ HubMissesClient(v) PROVE Registered'
  <2>1. sessions' = sessions /\ clients' = clients /\ handler[v] = "serving"
    BY <1>4 DEF HubForwards, HubMissesClient
  <2>2. \/ UNCHANGED <<visit, handler>>
        \/ /\ handler' = [handler EXCEPT ![v] = "leaving"]
           /\ visit' = Closed(v) \/ (visit' = visit /\ visit[v].pc = "closed")
    BY <1>4 DEF HubForwards, HubMissesClient
  <2>3. CASE UNCHANGED <<visit, handler>>
    BY <2>1, <2>3, RegisterKept
  <2>4. CASE /\ handler' = [handler EXCEPT ![v] = "leaving"]
             /\ visit' = Closed(v) \/ (visit' = visit /\ visit[v].pc = "closed")
    <3>1. /\ handler'[v] = "leaving" /\ visit'[v].pc = "closed"
          /\ \A w \in Visit : w # v => visit'[w].pc = visit[w].pc /\ handler'[w] = handler[w]
      BY <1>t, <1>c, <2>4 DEF HandlerRows
    <3> QED
      BY <2>1, <3>1, RegisterRow
  <2> QED
    BY <2>2, <2>3, <2>4
<1>5. ASSUME NEW v \in Visit, HandlerLeaves(v) PROVE Registered'
  <2>1. /\ sessions' = sessions /\ visit' = visit /\ handler[v] = "leaving"
        /\ clients' = [clients EXCEPT ![SessionOf[v]] = Nobody]
        /\ handler' = [handler EXCEPT ![v] = "over"]
    BY <1>5 DEF HandlerLeaves
  <2>2. /\ handler'[v] = "over" /\ \A w \in Visit : w # v => handler'[w] = handler[w]
    BY <1>t, <2>1 DEF HandlerRows
  <2>3. visit'[v].pc = "closed"
    BY <1>i, <2>1 DEF HandlerInv
  <2> QED
    BY <2>1, <2>2, <2>3, RegisterRow
<1>6. ASSUME NEW k \in Link, NodeReceives(k) PROVE Registered'
  <2>1. /\ UNCHANGED <<visit, handler, clients>> /\ FirstDown(k).by \in Visit
        /\ \A m \in Link, s \in Session :
               m # k \/ s # SessionOf[FirstDown(k).by] => sessions'[m][s] = sessions[m][s]
    BY <1>6, Received
  <2>2. \/ sessions'[k][SessionOf[FirstDown(k).by]] = Nobody
        \/ sessions'[k][SessionOf[FirstDown(k).by]] = FirstDown(k).by
        \/ sessions' = sessions
    BY <1>6, Received
  <2> QED
    BY <2>1, <2>2, RegisterKept
<1>7. ASSUME NEW v \in Visit, ClientReceives(v) \/ ClientAsks(v) \/ ClientCloses(v)
      PROVE  Registered'
  <2>1. UNCHANGED <<handler, clients, sessions>> /\ visit[v].pc \in {"ready", "secure"}
    BY <1>7 DEF ClientReceives, ClientAsks, ClientCloses
  <2>2. \/ visit' = Closed(v)
        \/ visit' = [visit EXCEPT ![v].pc = "secure"]
        \/ visit' = [visit EXCEPT ![v].read = @ + 1]
        \/ visit' = [visit EXCEPT ![v].sent = @ + 1]
    BY <1>7 DEF ClientReceives, ClientAsks, ClientCloses
  <2>3. /\ visit'[v].pc = "closed" \/ visit'[v].pc \in {"ready", "secure"}
        /\ \A w \in Visit : w # v => visit'[w] = visit[w]
    BY <1>t, <1>c, <2>1, <2>2 DEF VisitRows
  <2>4. handler[v] = "serving"
    BY <1>i, <1>t, <2>1 DEF HandlerInv, HandlerRows
  <2> QED
    BY <2>1, <2>3, <2>4, RegisterRow
<1>8. CASE \/ NodeConnects \/ UNCHANGED yvars
           \/ \E k \in Link : HubReturns(k)
           \/ \E v \in Visit, r \in Request : Seals(v, r) \/ Answers(v, r)
  <2>1. UNCHANGED <<visit, handler, clients, sessions>>
    BY <1>8 DEF NodeConnects, HubReturns, Seals, Answers, yvars
  <2> QED
    BY <2>1, RegisterKept
<1> QED
  BY <1>1, <1>2, <1>3, <1>4, <1>5, <1>6, <1>7, <1>8
     DEF TunnelNext, Tied, Visiting, Linking, Handling, Dispatching

\* The state of a job after it is sealed.
LEMMA Sealed ==
  ASSUME TunnelTypeOK, NEW v \in Visit, NEW r \in Request, Seals(v, r)
  PROVE  /\ job[v][r].pc = "running" /\ job'[v][r].pc = "sealed" /\ SendLockFree(v)
         /\ job'[v][r].number = Cardinality(Jobs(v, {"sealed", "sent"})) + 1
         /\ job'[v][r].link = job[v][r].link
         /\ Cardinality(Jobs(v, {"sealed", "sent"})) \in Nat
         /\ \A w \in Visit, q \in Request : w # v \/ q # r => job'[w][q] = job[w][q]
         /\ UNCHANGED <<link, nodes, clients, visit, handler, sessions, outbound, down, up, inbound,
                        garbled, stale>>
<1> DEFINE n == Cardinality(Jobs(v, {"sealed", "sent"})) + 1
           R == [[job[v][r] EXCEPT !.pc = "sealed"] EXCEPT !.number = n]
<1>1. job[v][r].pc = "running" /\ SendLockFree(v)
      /\ UNCHANGED <<link, nodes, clients, visit, handler, sessions, outbound, down, up, inbound,
                     garbled, stale>>
  BY DEF Seals
<1>2. Cardinality(Jobs(v, {"sealed", "sent"})) \in Nat /\ n \in 0..MaxRequests
  BY <1>1, NumberBound
<1>3. job' = [job EXCEPT ![v][r].pc = "sealed", ![v][r].number = n]
  BY DEF Seals
<1>h. n = Cardinality(Jobs(v, {"sealed", "sent"})) + 1
  OBVIOUS
<1> HIDE DEF n
<1>t. job \in [Visit -> [Request -> JobRow]]
  BY DEF TunnelTypeOK, JobRow
<1>4. job[v][r] \in JobRow
  BY <1>t
<1>5. R \in JobRow /\ R.pc = "sealed" /\ R.number = n /\ R.link = job[v][r].link
  BY <1>2, <1>4 DEF JobRow
<1>6. job' = [job EXCEPT ![v][r] = R]
  BY <1>t, <1>3
<1> HIDE DEF R
<1>7. job'[v][r] = R /\ \A w \in Visit, q \in Request : w # v \/ q # r => job'[w][q] = job[w][q]
  BY <1>t, <1>5, <1>6, OnePlace
<1> QED
  BY <1>1, <1>2, <1>5, <1>7, <1>h

\* The state of a job after it is answered.
LEMMA AnsweredJob ==
  ASSUME TunnelTypeOK, NEW v \in Visit, NEW r \in Request, Answers(v, r)
  PROVE  /\ job[v][r].pc = "sealed" /\ job'[v][r].pc = "sent"
         /\ job'[v][r].link = job[v][r].link
         /\ \A w \in Visit, q \in Request : w # v \/ q # r => job'[w][q] = job[w][q]
         /\ UNCHANGED <<link, nodes, clients, visit, handler, sessions, outbound, down, inbound,
                        garbled, stale>>
<1> DEFINE R == [job[v][r] EXCEPT !.pc = "sent"]
<1>1. /\ job[v][r].pc = "sealed" /\ job' = [job EXCEPT ![v][r] = R]
      /\ UNCHANGED <<link, nodes, clients, visit, handler, sessions, outbound, down, inbound,
                     garbled, stale>>
  BY DEF Answers
<1>t. job \in [Visit -> [Request -> JobRow]]
  BY DEF TunnelTypeOK, JobRow
<1>2. job[v][r] \in JobRow
  BY <1>t
<1>3. R \in JobRow /\ R.pc = "sent" /\ R.link = job[v][r].link
  BY <1>2 DEF JobRow
<1> HIDE DEF R
<1>4. job'[v][r] = R /\ \A w \in Visit, q \in Request : w # v \/ q # r => job'[w][q] = job[w][q]
  BY <1>t, <1>1, <1>3, OnePlace
<1> QED
  BY <1>1, <1>3, <1>4

\* The state of a job after its request has been read.
LEMMA RunningJob ==
  ASSUME TunnelTypeOK, NEW v \in Visit, NEW n \in 0..MaxRequests, NEW k \in Link,
         job' = [job EXCEPT ![v][n] = [pc |-> "running", link |-> k, number |-> 0]]
  PROVE  /\ n \in Request => job'[v][n].pc = "running" /\ job'[v][n].link = k
         /\ \A w \in Visit, q \in Request : w # v \/ q # n => job'[w][q] = job[w][q]
<1> DEFINE R == [pc |-> "running", link |-> k, number |-> 0]
<1>1. R.pc = "running" /\ R.link = k /\ job' = [job EXCEPT ![v][n] = R]
  OBVIOUS
<1>t. job \in [Visit -> [Request -> JobRow]]
  BY DEF TunnelTypeOK, JobRow
<1> HIDE DEF R
<1>2. job'[v] = [job[v] EXCEPT ![n] = R] /\ \A w \in Visit : w # v => job'[w] = job[w]
  BY <1>t, <1>1
<1>3. /\ n \in Request => job'[v][n] = R
      /\ \A q \in Request : q # n => job'[v][q] = job[v][q]
  BY <1>t, <1>2
<1> QED
  BY <1>1, <1>2, <1>3

\* The Node's answers have numbers from one on.
LEMMA NumbersStep ==
  ASSUME TunnelTypeOK, FrameInv, [TunnelNext]_yvars, NEW v \in Visit, NEW r \in Request,
         job'[v][r].pc = "sealed"
  PROVE  job'[v][r].number > 0
<1>i. job[v][r].pc = "sealed" => job[v][r].number > 0
  BY DEF FrameInv
<1>1. ASSUME NEW w \in Visit, NEW q \in Request, Seals(w, q) PROVE job'[v][r].number > 0
  <2>1. CASE w = v /\ q = r
    BY <1>1, <2>1, Sealed
  <2>2. CASE ~(w = v /\ q = r)
    <3>1. job'[v][r] = job[v][r]
      BY <1>1, <2>2, Sealed
    <3> QED
      BY <1>i, <3>1
  <2> QED
    BY <2>1, <2>2
<1>2. ASSUME NEW w \in Visit, NEW q \in Request, Answers(w, q) PROVE job'[v][r].number > 0
  <2>1. CASE w = v /\ q = r
    BY <1>2, <2>1, AnsweredJob
  <2>2. CASE ~(w = v /\ q = r)
    <3>1. job'[v][r] = job[v][r]
      BY <1>2, <2>2, AnsweredJob
    <3> QED
      BY <1>i, <3>1
  <2> QED
    BY <2>1, <2>2
<1>3. ASSUME NEW k \in Link, NodeReceives(k) PROVE job'[v][r].number > 0
  <2>1. /\ FirstDown(k).by \in Visit /\ FirstDown(k).number \in 0..MaxRequests
        /\ \/ job' = job
           \/ job' = [job EXCEPT ![FirstDown(k).by][FirstDown(k).number] =
                          [pc |-> "running", link |-> k, number |-> 0]]
    BY <1>3, Received
  <2>2. CASE job' = job
    BY <1>i, <2>2
  <2>3. CASE job' = [job EXCEPT ![FirstDown(k).by][FirstDown(k).number] =
                          [pc |-> "running", link |-> k, number |-> 0]]
    <3>1. job'[v][r] = job[v][r] \/ job'[v][r].pc = "running"
      BY <2>1, <2>3, RunningJob
    <3> QED
      BY <1>i, <3>1
  <2> QED
    BY <2>1, <2>2, <2>3
<1>4. CASE UNCHANGED job
  BY <1>i, <1>4
<1> QED
  BY <1>1, <1>2, <1>3, <1>4
     DEF TunnelNext, Tied, Visiting, Linking, Handling, Dispatching, NodeConnects, LinkIsLost,
         HubMissesNode, HubReturns, ClientConnects, ClientReceives, ClientAsks, ClientCloses,
         HubForwards, HubMissesClient, HandlerLeaves, yvars

\* What a client has on the way to the Hub after a step.
LEMMA OutboundMoves ==
  ASSUME TunnelTypeOK, [TunnelNext]_yvars
  PROVE  \/ outbound' = outbound
         \/ \E v \in Visit :
               /\ \A w \in Visit : w # v => outbound'[w] = outbound[w]
               /\ \/ HubForwards(v) /\ outbound[v] # <<>> /\ outbound'[v] = Tail(outbound[v])
                  \/ HandlerLeaves(v) /\ outbound'[v] = <<>>
                  \/ /\ ClientConnects(v) /\ visit[v].pc = "idle"
                     /\ outbound'[v] = <<Packet("hello", v, 0)>>
                  \/ /\ ClientAsks(v) /\ visit[v].sent + 1 \in 0..MaxRequests
                     /\ visit[v].sent + 1 # 0
                     /\ outbound'[v] = Append(outbound[v], Packet("request", v, visit[v].sent + 1))
<1>t. outbound \in [Visit -> Seq(Frame)] /\ visit \in VisitRows
  BY DEF TunnelTypeOK, VisitRows
<1>1. ASSUME NEW v \in Visit, HubForwards(v)
      PROVE  /\ \A w \in Visit : w # v => outbound'[w] = outbound[w]
             /\ outbound[v] # <<>> /\ outbound'[v] = Tail(outbound[v])
  BY <1>t, <1>1 DEF HubForwards
<1>2. ASSUME NEW v \in Visit, HandlerLeaves(v)
      PROVE  /\ \A w \in Visit : w # v => outbound'[w] = outbound[w]
             /\ outbound'[v] = <<>>
  BY <1>t, <1>2 DEF HandlerLeaves
<1>3. ASSUME NEW v \in Visit, ClientConnects(v), outbound' # outbound
      PROVE  /\ \A w \in Visit : w # v => outbound'[w] = outbound[w]
             /\ visit[v].pc = "idle" /\ outbound'[v] = <<Packet("hello", v, 0)>>
  BY <1>t, <1>3 DEF ClientConnects
<1>4. ASSUME NEW v \in Visit, ClientAsks(v)
      PROVE  /\ \A w \in Visit : w # v => outbound'[w] = outbound[w]
             /\ visit[v].sent + 1 \in 0..MaxRequests /\ visit[v].sent + 1 # 0
             /\ outbound'[v] = Append(outbound[v], Packet("request", v, visit[v].sent + 1))
  <2>1. visit[v].sent \in 0..MaxRequests /\ visit[v].sent < MaxRequests
    BY <1>t, <1>4 DEF ClientAsks, VisitRows
  <2>2. visit[v].sent + 1 \in 0..MaxRequests /\ visit[v].sent + 1 # 0
    BY <2>1, TunnelAssumption
  <2> QED
    BY <1>t, <1>4, <2>2 DEF ClientAsks
<1> QED
  BY <1>1, <1>2, <1>3, <1>4
     DEF TunnelNext, Tied, Visiting, Linking, Handling, Dispatching, NodeConnects, LinkIsLost,
         HubMissesNode, HubReturns, NodeReceives, Seals, Answers, ClientReceives, ClientCloses,
         HubMissesClient, yvars

\* What is on the links to the Node after a step.
LEMMA DownMoves ==
  ASSUME TunnelTypeOK, LinkInv, [TunnelNext]_yvars
  PROVE  \/ down' = down
         \/ \E k \in Link :
               /\ \A m \in Link : m # k => down'[m] = down[m]
               /\ \/ LinkIsLost(k) /\ down'[k] = <<>>
                  \/ /\ NodeReceives(k) /\ down[k] # <<>> /\ down'[k] = Tail(down[k])
                  \/ \E v \in Visit :
                        /\ HubForwards(v) /\ outbound[v] # <<>> /\ outbound[v][1] \in Frame
                        /\ down'[k] = Append(down[k], outbound[v][1])
                  \/ \E v \in Visit :
                        /\ HandlerLeaves(v) /\ Packet("reset", v, 0) \in Frame
                        /\ down'[k] = Append(down[k], Packet("reset", v, 0))
<1>1. ASSUME NEW k \in Link, LinkIsLost(k)
      PROVE  /\ \A m \in Link : m # k => down'[m] = down[m]
             /\ down'[k] = <<>>
  BY <1>1 DEF LinkIsLost, TunnelTypeOK
<1>2. ASSUME NEW k \in Link, NodeReceives(k)
      PROVE  /\ \A m \in Link : m # k => down'[m] = down[m]
             /\ down[k] # <<>> /\ down'[k] = Tail(down[k])
  BY <1>2, Received
<1>3. ASSUME NEW v \in Visit, HubForwards(v), down' # down
      PROVE  \E k \in Link :
               /\ \A m \in Link : m # k => down'[m] = down[m]
               /\ outbound[v] # <<>> /\ outbound[v][1] \in Frame
               /\ down'[k] = Append(down[k], outbound[v][1])
  BY <1>3, Forwarded
<1>4. ASSUME NEW v \in Visit, HandlerLeaves(v), down' # down
      PROVE  \E k \in Link :
               /\ \A m \in Link : m # k => down'[m] = down[m]
               /\ Packet("reset", v, 0) \in Frame
               /\ down'[k] = Append(down[k], Packet("reset", v, 0))
  BY <1>4, ResetSent
<1>5. \/ down' = down
      \/ \E k \in Link : LinkIsLost(k) \/ NodeReceives(k)
      \/ \E v \in Visit : HubForwards(v) \/ HandlerLeaves(v)
  BY DEF TunnelNext, Tied, Visiting, Linking, Handling, Dispatching, NodeConnects,
         HubMissesNode, HubReturns, Seals, Answers, ClientReceives, ClientCloses, ClientConnects,
         ClientAsks, HubMissesClient, yvars
<1>6. CASE \E k \in Link : LinkIsLost(k) \/ NodeReceives(k)
  BY <1>1, <1>2, <1>6
<1>7. ASSUME NEW v \in Visit, HubForwards(v), down' # down
      PROVE  \E k \in Link :
               /\ \A m \in Link : m # k => down'[m] = down[m]
               /\ \E w \in Visit :
                     /\ HubForwards(w) /\ outbound[w] # <<>> /\ outbound[w][1] \in Frame
                     /\ down'[k] = Append(down[k], outbound[w][1])
  BY <1>3, <1>7
<1>8. ASSUME NEW v \in Visit, HandlerLeaves(v), down' # down
      PROVE  \E k \in Link :
               /\ \A m \in Link : m # k => down'[m] = down[m]
               /\ \E w \in Visit :
                     /\ HandlerLeaves(w) /\ Packet("reset", w, 0) \in Frame
                     /\ down'[k] = Append(down[k], Packet("reset", w, 0))
  BY <1>4, <1>8
<1> QED
  BY <1>5, <1>6, <1>7, <1>8

\* What is on the links from the Node after a step.
LEMMA UpMoves ==
  ASSUME TunnelTypeOK, [TunnelNext]_yvars
  PROVE  \/ up' = up
         \/ \E k \in Link :
               /\ \A m \in Link : m # k => up'[m] = up[m]
               /\ \/ LinkIsLost(k) /\ up'[k] = <<>>
                  \/ HubReturns(k) /\ up[k] # <<>> /\ up'[k] = Tail(up[k])
                  \/ /\ NodeReceives(k) /\ Packet("hello", FirstDown(k).by, 0) \in Frame
                     /\ up'[k] = Append(up[k], Packet("hello", FirstDown(k).by, 0))
                  \/ \E v \in Visit, r \in Request :
                        /\ Answers(v, r) /\ job[v][r].link = k
                        /\ Packet("answer", v, job[v][r].number) \in Frame
                        /\ up'[k] = Append(up[k], Packet("answer", v, job[v][r].number))
<1>1. ASSUME NEW k \in Link, LinkIsLost(k)
      PROVE  /\ \A m \in Link : m # k => up'[m] = up[m]
             /\ up'[k] = <<>>
  BY <1>1 DEF LinkIsLost, TunnelTypeOK
<1>2. ASSUME NEW k \in Link, HubReturns(k)
      PROVE  /\ \A m \in Link : m # k => up'[m] = up[m]
             /\ up[k] # <<>> /\ up'[k] = Tail(up[k])
  BY <1>2, Returned
<1>3. ASSUME NEW k \in Link, NodeReceives(k), up' # up
      PROVE  /\ \A m \in Link : m # k => up'[m] = up[m]
             /\ Packet("hello", FirstDown(k).by, 0) \in Frame
             /\ up'[k] = Append(up[k], Packet("hello", FirstDown(k).by, 0))
  <2>1. FirstDown(k).by \in Visit
    BY <1>3, Received
  <2>2. Packet("hello", FirstDown(k).by, 0) \in Frame
    BY <2>1, TunnelAssumption, PacketFrame
  <2> QED
    BY <1>3, <2>2, Received
<1>4. ASSUME NEW v \in Visit, NEW r \in Request, Answers(v, r), up' # up
      PROVE  \E k \in Link :
               /\ \A m \in Link : m # k => up'[m] = up[m]
               /\ job[v][r].link = k
               /\ Packet("answer", v, job[v][r].number) \in Frame
               /\ up'[k] = Append(up[k], Packet("answer", v, job[v][r].number))
  BY <1>4, Answered
<1>5. \/ up' = up
      \/ \E k \in Link : LinkIsLost(k) \/ HubReturns(k) \/ NodeReceives(k)
      \/ \E v \in Visit, r \in Request : Answers(v, r)
  BY DEF TunnelNext, Tied, Visiting, Linking, Handling, Dispatching, NodeConnects,
         HubMissesNode, Seals, ClientReceives, ClientCloses, ClientConnects,
         ClientAsks, HubMissesClient, HubForwards, HandlerLeaves, yvars
<1>6. CASE \E k \in Link : LinkIsLost(k) \/ HubReturns(k) \/ NodeReceives(k)
  BY <1>1, <1>2, <1>3, <1>6
<1>7. ASSUME NEW v \in Visit, NEW r \in Request, Answers(v, r), up' # up
      PROVE  \E k \in Link :
               /\ \A m \in Link : m # k => up'[m] = up[m]
               /\ \E w \in Visit, q \in Request :
                     /\ Answers(w, q) /\ job[w][q].link = k
                     /\ Packet("answer", w, job[w][q].number) \in Frame
                     /\ up'[k] = Append(up[k], Packet("answer", w, job[w][q].number))
  BY <1>4, <1>7
<1> QED
  BY <1>5, <1>6, <1>7

\* What a client has not read after a step.
LEMMA InboundMoves ==
  ASSUME TunnelTypeOK, [TunnelNext]_yvars
  PROVE  \/ inbound' = inbound
         \/ \E v \in Visit :
               /\ \A w \in Visit : w # v => inbound'[w] = inbound[w]
               /\ \/ HandlerLeaves(v) /\ inbound'[v] = <<>>
                  \/ ClientReceives(v) /\ inbound[v] # <<>> /\ inbound'[v] = Tail(inbound[v])
                  \/ \E k \in Link : /\ HubReturns(k) /\ up[k] # <<>>
                                     /\ FirstUp(k) \in Frame
                                     /\ clients[SessionOf[FirstUp(k).by]] = v
                                     /\ inbound'[v] = Append(inbound[v], FirstUp(k))
<1>1. ASSUME NEW v \in Visit, HandlerLeaves(v)
      PROVE  /\ \A w \in Visit : w # v => inbound'[w] = inbound[w]
             /\ inbound'[v] = <<>>
  BY <1>1 DEF HandlerLeaves, TunnelTypeOK
<1>2. ASSUME NEW v \in Visit, ClientReceives(v)
      PROVE  /\ \A w \in Visit : w # v => inbound'[w] = inbound[w]
             /\ inbound[v] # <<>> /\ inbound'[v] = Tail(inbound[v])
  BY <1>2 DEF ClientReceives, TunnelTypeOK
<1>3. ASSUME NEW k \in Link, HubReturns(k), inbound' # inbound
      PROVE  \E v \in Visit :
               /\ \A w \in Visit : w # v => inbound'[w] = inbound[w]
               /\ up[k] # <<>> /\ FirstUp(k) \in Frame
               /\ clients[SessionOf[FirstUp(k).by]] = v
               /\ inbound'[v] = Append(inbound[v], FirstUp(k))
  BY <1>3, Returned
<1> QED
  BY <1>1, <1>2, <1>3
     DEF TunnelNext, Tied, Visiting, Linking, Handling, Dispatching, NodeConnects, LinkIsLost,
         NodeReceives, Answers, HubMissesNode, Seals, ClientCloses, ClientConnects,
         ClientAsks, HubMissesClient, HubForwards, yvars

LEMMA FrameStep == TunnelTypeOK /\ LinkInv /\ FrameInv /\ [TunnelNext]_yvars => FrameInv'
<1> SUFFICES ASSUME TunnelTypeOK, LinkInv, FrameInv, [TunnelNext]_yvars PROVE FrameInv'
  OBVIOUS
<1>t. /\ outbound \in [Visit -> Seq(Frame)] /\ inbound \in [Visit -> Seq(Frame)]
      /\ down \in [Link -> Seq(Frame)] /\ up \in [Link -> Seq(Frame)]
  BY DEF TunnelTypeOK
<1>z. 0 \in 0..MaxRequests
  BY TunnelAssumption
<1>1. ASSUME NEW v \in Visit, NEW i \in 1..Len(outbound'[v])
      PROVE  outbound'[v][i].by = v /\ Asking(outbound'[v][i])
  <2>i. \A j \in 1..Len(outbound[v]) : outbound[v][j].by = v /\ Asking(outbound[v][j])
    BY DEF FrameInv
  <2>1. CASE outbound'[v] = outbound[v]
    BY <2>1, <2>i, <1>1
  <2>2. CASE outbound[v] # <<>> /\ outbound'[v] = Tail(outbound[v])
    BY <1>t, <1>1, <2>i, <2>2, QueueHead
  <2>3. CASE outbound'[v] = <<>>
    BY <1>1, <2>3
  <2>4. CASE outbound'[v] = <<Packet("hello", v, 0)>>
    <3>1. /\ Packet("hello", v, 0).by = v /\ Asking(Packet("hello", v, 0))
      BY <1>z, PacketFrame DEF Asking
    <3>2. i = 1
      BY <1>1, <2>4
    <3> QED
      BY <2>4, <3>1, <3>2
  <2>5. CASE /\ visit[v].sent + 1 \in 0..MaxRequests /\ visit[v].sent + 1 # 0
             /\ outbound'[v] = Append(outbound[v], Packet("request", v, visit[v].sent + 1))
    <3> DEFINE f == Packet("request", v, visit[v].sent + 1)
    <3>1. f \in Frame /\ f.by = v /\ Asking(f)
      BY <2>5, PacketFrame DEF Asking
    <3>2. outbound'[v] = Append(outbound[v], f)
      BY <2>5
    <3> HIDE DEF f
    <3>3. \/ i \in 1..Len(outbound[v]) /\ outbound'[v][i] = outbound[v][i]
          \/ outbound'[v][i] = f
      BY <1>t, <1>1, <3>1, <3>2, QueueMore
    <3> QED
      BY <2>i, <3>1, <3>3
  <2> QED
    BY <2>1, <2>2, <2>3, <2>4, <2>5, OutboundMoves
<1>2. ASSUME NEW k \in Link, NEW i \in 1..Len(down'[k])
      PROVE  IF down'[k][i].kind = "reset" THEN down'[k][i].number = 0 ELSE Asking(down'[k][i])
  <2> DEFINE Fine(f) == IF f.kind = "reset" THEN f.number = 0 ELSE Asking(f)
  <2>i. \A j \in 1..Len(down[k]) : Fine(down[k][j])
    BY DEF FrameInv
  <2> SUFFICES Fine(down'[k][i])
    OBVIOUS
  <2>o. ASSUME NEW v \in Visit, outbound[v] # <<>> PROVE Fine(outbound[v][1])
    <3>1. Asking(outbound[v][1])
      BY <1>t, <2>o, QueueHead DEF FrameInv
    <3> QED
      BY <3>1 DEF Asking
  <2>r. ASSUME NEW v \in Visit PROVE Fine(Packet("reset", v, 0))
    BY <1>z, PacketFrame
  <2> HIDE DEF Fine
  <2>1. CASE down'[k] = down[k]
    BY <1>2, <2>1, <2>i
  <2>2. CASE down[k] # <<>> /\ down'[k] = Tail(down[k])
    BY <1>t, <1>2, <2>i, <2>2, QueueHead
  <2>3. CASE down'[k] = <<>>
    BY <1>2, <2>3
  <2>4. ASSUME NEW f \in Frame, Fine(f), down'[k] = Append(down[k], f) PROVE Fine(down'[k][i])
    <3>1. \/ i \in 1..Len(down[k]) /\ down'[k][i] = down[k][i]
          \/ down'[k][i] = f
      BY <1>t, <1>2, <2>4, QueueMore
    <3> QED
      BY <2>i, <2>4, <3>1
  <2> QED
    BY <2>1, <2>2, <2>3, <2>4, <2>o, <2>r, DownMoves
<1>3. ASSUME NEW k \in Link, NEW i \in 1..Len(up'[k])
      PROVE  Answering(up'[k][i])
  <2>i. \A j \in 1..Len(up[k]) : Answering(up[k][j])
    BY DEF FrameInv
  <2>h. ASSUME NEW v \in Visit PROVE Answering(Packet("hello", v, 0))
    BY <1>z, PacketFrame DEF Answering
  <2>a. ASSUME NEW v \in Visit, NEW r \in Request, Answers(v, r)
        PROVE  Answering(Packet("answer", v, job[v][r].number))
    <3>1. job[v][r].number > 0 /\ job[v][r].number \in 0..MaxRequests
      BY <2>a, AnsweredJob DEF FrameInv, TunnelTypeOK
    <3> QED
      BY <3>1, PacketFrame DEF Answering
  <2>1. CASE up'[k] = up[k]
    BY <1>3, <2>1, <2>i
  <2>2. CASE up[k] # <<>> /\ up'[k] = Tail(up[k])
    BY <1>t, <1>3, <2>i, <2>2, QueueHead
  <2>3. CASE up'[k] = <<>>
    BY <1>3, <2>3
  <2>4. ASSUME NEW f \in Frame, Answering(f), up'[k] = Append(up[k], f)
        PROVE  Answering(up'[k][i])
    <3>1. \/ i \in 1..Len(up[k]) /\ up'[k][i] = up[k][i]
          \/ up'[k][i] = f
      BY <1>t, <1>3, <2>4, QueueMore
    <3> QED
      BY <2>i, <2>4, <3>1
  <2>5. ASSUME NodeReceives(k), Packet("hello", FirstDown(k).by, 0) \in Frame,
               up'[k] = Append(up[k], Packet("hello", FirstDown(k).by, 0))
        PROVE  Answering(up'[k][i])
    <3>1. FirstDown(k).by \in Visit
      BY <2>5, Received
    <3> QED
      BY <2>4, <2>5, <2>h, <3>1
  <2> QED
    BY <2>1, <2>2, <2>3, <2>4, <2>5, <2>a, UpMoves
<1>4. ASSUME NEW v \in Visit, NEW i \in 1..Len(inbound'[v])
      PROVE  Answering(inbound'[v][i])
  <2>i. \A j \in 1..Len(inbound[v]) : Answering(inbound[v][j])
    BY DEF FrameInv
  <2>u. ASSUME NEW k \in Link, up[k] # <<>> PROVE Answering(FirstUp(k))
    BY <1>t, <2>u, QueueHead DEF FrameInv, FirstUp
  <2>1. CASE inbound'[v] = inbound[v]
    BY <1>4, <2>1, <2>i
  <2>2. CASE inbound[v] # <<>> /\ inbound'[v] = Tail(inbound[v])
    BY <1>t, <1>4, <2>i, <2>2, QueueHead
  <2>3. CASE inbound'[v] = <<>>
    BY <1>4, <2>3
  <2>4. ASSUME NEW f \in Frame, Answering(f), inbound'[v] = Append(inbound[v], f)
        PROVE  Answering(inbound'[v][i])
    <3>1. \/ i \in 1..Len(inbound[v]) /\ inbound'[v][i] = inbound[v][i]
          \/ inbound'[v][i] = f
      BY <1>t, <1>4, <2>4, QueueMore
    <3> QED
      BY <2>i, <2>4, <3>1
  <2> QED
    BY <2>1, <2>2, <2>3, <2>4, <2>u, InboundMoves
<1>5. \A v \in Visit, r \in Request : job'[v][r].pc = "sealed" => job'[v][r].number > 0
  BY NumbersStep
<1>6. /\ \A v \in Visit : \A i \in 1..Len(outbound'[v]) :
            outbound'[v][i].by = v /\ Asking(outbound'[v][i])
      /\ \A k \in Link : \A i \in 1..Len(down'[k]) :
            IF down'[k][i].kind = "reset" THEN down'[k][i].number = 0 ELSE Asking(down'[k][i])
      /\ \A k \in Link : \A i \in 1..Len(up'[k]) : Answering(up'[k][i])
      /\ \A v \in Visit : \A i \in 1..Len(inbound'[v]) : Answering(inbound'[v][i])
  BY <1>1, <1>2, <1>3, <1>4
<1> QED
  BY <1>5, <1>6 DEF FrameInv, Asking, Answering

\* The conjuncts of ResetInv for one link.
ResetOn(k) ==
    /\ \A i \in 1..Len(down[k]) :
          /\ down[k][i].kind = "reset" => handler[down[k][i].by] = "over"
          /\ down[k][i].kind = "hello" /\ handler[down[k][i].by] = "over"
                => ResetAfter(down[k], i, SessionOf[down[k][i].by])
    /\ \A s \in Session :
          sessions[k][s] # Nobody /\ handler[sessions[k][s]] = "over" => ResetAfter(down[k], 0, s)

\* A link that stays as it is.
LEMMA ResetKept ==
  ASSUME TunnelTypeOK, NEW k \in Link, ResetOn(k), down'[k] = down[k],
         \A s \in Session : sessions'[k][s] = sessions[k][s],
         \A v \in Visit : handler'[v] = "over" <=> handler[v] = "over"
  PROVE  ResetOn(k)'
<1>t. down[k] \in Seq(Frame) /\ sessions[k] \in [Session -> Visit \cup {Nobody}]
  BY DEF TunnelTypeOK
<1>0. \A i \in 1..Len(down[k]) : down[k][i].by \in Visit
  BY <1>t, QueueFrames
<1>1. \A i \in Int, s \in Session : ResetAfter(down'[k], i, s) <=> ResetAfter(down[k], i, s)
  BY DEF ResetAfter
<1>2. \A i \in 1..Len(down'[k]) :
          /\ down'[k][i].kind = "reset" => handler'[down'[k][i].by] = "over"
          /\ down'[k][i].kind = "hello" /\ handler'[down'[k][i].by] = "over"
                => ResetAfter(down'[k], i, SessionOf[down'[k][i].by])
  BY <1>0, <1>1 DEF ResetOn
<1>3. \A s \in Session :
          sessions'[k][s] # Nobody /\ handler'[sessions'[k][s]] = "over" => ResetAfter(down'[k], 0, s)
  BY <1>t, <1>1 DEF ResetOn
<1> QED
  BY <1>2, <1>3 DEF ResetOn

\* A link that carries nothing.
LEMMA ResetEmpty ==
  ASSUME NEW k \in Link, down'[k] = <<>>, \A s \in Session : sessions'[k][s] = Nobody
  PROVE  ResetOn(k)'
BY DEF ResetOn

\* A frame of a client that is served is put on a link.
LEMMA ResetForward ==
  ASSUME TunnelTypeOK, NEW k \in Link, ResetOn(k), NEW f \in Frame, f.kind # "reset",
         handler[f.by] # "over", down'[k] = Append(down[k], f), sessions' = sessions,
         \A v \in Visit : handler'[v] = "over" <=> handler[v] = "over"
  PROVE  ResetOn(k)'
<1>t. down[k] \in Seq(Frame) /\ sessions[k] \in [Session -> Visit \cup {Nobody}]
  BY DEF TunnelTypeOK
<1>0. f.by \in Visit /\ \A i \in 1..Len(down[k]) : down[k][i].by \in Visit
  BY <1>t, QueueFrames DEF Frame
<1>q. /\ Len(down'[k]) = Len(down[k]) + 1
      /\ \A i \in 1..Len(down[k]) : i \in 1..Len(down'[k]) /\ down'[k][i] = down[k][i]
      /\ down'[k][Len(down[k]) + 1] = f
      /\ \A i \in 1..Len(down'[k]) : i \in 1..Len(down[k]) \/ i = Len(down[k]) + 1
  BY <1>t, QueueMore
<1>1. \A i \in Int, s \in Session : ResetAfter(down[k], i, s) => ResetAfter(down'[k], i, s)
  BY <1>q DEF ResetAfter
<1>2. ASSUME NEW i \in 1..Len(down'[k])
      PROVE  /\ down'[k][i].kind = "reset" => handler'[down'[k][i].by] = "over"
             /\ down'[k][i].kind = "hello" /\ handler'[down'[k][i].by] = "over"
                   => ResetAfter(down'[k], i, SessionOf[down'[k][i].by])
  <2>1. CASE i \in 1..Len(down[k])
    <3>1. /\ down'[k][i] = down[k][i] /\ down[k][i].by \in Visit /\ i \in Int
          /\ SessionOf[down[k][i].by] \in Session
      BY <1>0, <1>q, <2>1, TunnelAssumption DEF TunnelAssumption
    <3>2. /\ down[k][i].kind = "reset" => handler[down[k][i].by] = "over"
          /\ down[k][i].kind = "hello" /\ handler[down[k][i].by] = "over"
                => ResetAfter(down[k], i, SessionOf[down[k][i].by])
      BY <2>1 DEF ResetOn
    <3> QED
      BY <1>1, <3>1, <3>2
  <2>2. CASE i = Len(down[k]) + 1
    BY <1>0, <1>q, <2>2
  <2> QED
    BY <1>q, <2>1, <2>2
<1>3. \A s \in Session :
          sessions'[k][s] # Nobody /\ handler'[sessions'[k][s]] = "over" => ResetAfter(down'[k], 0, s)
  BY <1>t, <1>1 DEF ResetOn
<1> QED
  BY <1>2, <1>3 DEF ResetOn

\* The reset of a client that leaves is put on a link.
LEMMA ResetLast ==
  ASSUME TunnelTypeOK, RegistryInv, NEW k \in Link, ResetOn(k), NEW v \in Visit,
         down'[k] = Append(down[k], Packet("reset", v, 0)), sessions' = sessions,
         handler'[v] = "over", \A w \in Visit : w # v => handler'[w] = handler[w]
  PROVE  ResetOn(k)'
<1> DEFINE f == Packet("reset", v, 0)
<1>f. f \in Frame /\ f.kind = "reset" /\ f.by = v /\ down'[k] = Append(down[k], f)
  BY TunnelAssumption, PacketFrame
<1> HIDE DEF f
<1>t. down[k] \in Seq(Frame) /\ sessions[k] \in [Session -> Visit \cup {Nobody}]
  BY DEF TunnelTypeOK
<1>0. \A i \in 1..Len(down[k]) : down[k][i].by \in Visit
  BY <1>t, QueueFrames
<1>q. /\ Len(down'[k]) = Len(down[k]) + 1 /\ Len(down[k]) \in Nat
      /\ \A i \in 1..Len(down[k]) : i \in 1..Len(down'[k]) /\ down'[k][i] = down[k][i]
      /\ down'[k][Len(down[k]) + 1] = f /\ Len(down[k]) + 1 \in 1..Len(down'[k])
      /\ \A i \in 1..Len(down'[k]) : i \in 1..Len(down[k]) \/ i = Len(down[k]) + 1
  BY <1>f, <1>t, QueueMore
<1>1. \A i \in Int, s \in Session : ResetAfter(down[k], i, s) => ResetAfter(down'[k], i, s)
  BY <1>q DEF ResetAfter
<1>4. \A i \in 0..Len(down[k]) : ResetAfter(down'[k], i, SessionOf[v])
  <2>1. \A i \in 0..Len(down[k]) : Len(down[k]) + 1 > i
    BY <1>q
  <2> QED
    BY <1>f, <1>q, <2>1 DEF ResetAfter
<1>2. ASSUME NEW i \in 1..Len(down'[k])
      PROVE  /\ down'[k][i].kind = "reset" => handler'[down'[k][i].by] = "over"
             /\ down'[k][i].kind = "hello" /\ handler'[down'[k][i].by] = "over"
                   => ResetAfter(down'[k], i, SessionOf[down'[k][i].by])
  <2>1. CASE i \in 1..Len(down[k])
    <3>1. down'[k][i] = down[k][i] /\ down[k][i].by \in Visit /\ i \in 0..Len(down[k])
      BY <1>0, <1>q, <2>1
    <3>2. CASE down[k][i].by = v
      BY <1>4, <3>1, <3>2
    <3>3. CASE down[k][i].by # v
      <4>1. i \in Int /\ SessionOf[down[k][i].by] \in Session
        BY <3>1, TunnelAssumption DEF TunnelAssumption
      <4>2. /\ down[k][i].kind = "reset" => handler[down[k][i].by] = "over"
            /\ down[k][i].kind = "hello" /\ handler[down[k][i].by] = "over"
                  => ResetAfter(down[k], i, SessionOf[down[k][i].by])
        BY <2>1 DEF ResetOn
      <4> QED
        BY <1>1, <3>1, <3>3, <4>1, <4>2
    <3> QED
      BY <3>2, <3>3
  <2>2. CASE i = Len(down[k]) + 1
    BY <1>f, <1>q, <2>2
  <2> QED
    BY <1>2, <1>q, <2>1, <2>2
<1>3. ASSUME NEW s \in Session, sessions'[k][s] # Nobody, handler'[sessions'[k][s]] = "over"
      PROVE  ResetAfter(down'[k], 0, s)
  <2>1. sessions[k][s] \in Visit
    BY <1>t, <1>3
  <2>2. CASE sessions[k][s] = v
    <3>1. SessionOf[v] = s /\ 0 \in 0..Len(down[k])
      BY <1>3, <1>q, <2>2 DEF RegistryInv
    <3> QED
      BY <1>4, <3>1
  <2>3. CASE sessions[k][s] # v
    BY <1>1, <1>3, <2>1, <2>3 DEF ResetOn
  <2> QED
    BY <2>2, <2>3
<1> QED
  BY <1>2, <1>3 DEF ResetOn

\* The Node reads a frame.
LEMMA ResetRead ==
  ASSUME TunnelTypeOK, NEW k \in Link, ResetOn(k), NodeReceives(k)
  PROVE  ResetOn(k)'
<1> DEFINE f == FirstDown(k)
<1>t. down[k] \in Seq(Frame) /\ sessions[k] \in [Session -> Visit \cup {Nobody}]
  BY DEF TunnelTypeOK
<1>r. /\ down[k] # <<>> /\ f.by \in Visit /\ SessionOf[f.by] \in Session
      /\ down'[k] = Tail(down[k]) /\ handler' = handler
      /\ \A s \in Session : s # SessionOf[f.by] => sessions'[k][s] = sessions[k][s]
      /\ f = down[k][1]
  BY Received DEF FirstDown
<1>s. \/ f.kind = "reset" /\ sessions'[k][SessionOf[f.by]] = Nobody
      \/ f.kind = "hello" /\ sessions'[k][SessionOf[f.by]] = f.by
      \/ f.kind \in {"hello", "request"} /\ sessions' = sessions
  BY Received
<1> HIDE DEF f
<1>q. /\ Len(Tail(down[k])) = Len(down[k]) - 1 /\ Len(down[k]) \in Nat /\ 1 \in 1..Len(down[k])
      /\ \A i \in 1..Len(Tail(down[k])) :
            i \in Nat /\ i + 1 \in 1..Len(down[k]) /\ Tail(down[k])[i] = down[k][i + 1]
      /\ \A i \in 1..Len(down[k]) : i \in Nat
            /\ (i # 1 => i - 1 \in 1..Len(Tail(down[k])) /\ Tail(down[k])[i - 1] = down[k][i])
  BY <1>t, <1>r, QueueHead
<1>1. ASSUME NEW i \in Nat, NEW s, ResetAfter(down[k], i + 1, s) PROVE ResetAfter(down'[k], i, s)
  <2>1. PICK j \in 1..Len(down[k]) :
           j > i + 1 /\ down[k][j].kind = "reset" /\ SessionOf[down[k][j].by] = s
    BY <1>1 DEF ResetAfter
  <2>2. j \in Nat /\ j # 1 /\ j - 1 > i
    BY <1>q, <2>1
  <2>3. j - 1 \in 1..Len(down'[k]) /\ down'[k][j - 1] = down[k][j]
    BY <1>q, <1>r, <2>2
  <2> QED
    BY <2>1, <2>2, <2>3 DEF ResetAfter
<1>2. ASSUME NEW s, ResetAfter(down[k], 0, s), ~(f.kind = "reset" /\ SessionOf[f.by] = s)
      PROVE  ResetAfter(down'[k], 0, s)
  <2>1. PICK j \in 1..Len(down[k]) :
           j > 0 /\ down[k][j].kind = "reset" /\ SessionOf[down[k][j].by] = s
    BY <1>2 DEF ResetAfter
  <2>2. j \in Nat /\ j # 1
    BY <1>2, <1>q, <1>r, <2>1
  <2>3. j > 0 + 1
    BY <2>1, <2>2
  <2>4. ResetAfter(down[k], 0 + 1, s)
    BY <2>1, <2>3 DEF ResetAfter
  <2> QED
    BY <1>1, <2>4
<1>3. ASSUME NEW i \in 1..Len(down'[k])
      PROVE  /\ down'[k][i].kind = "reset" => handler'[down'[k][i].by] = "over"
             /\ down'[k][i].kind = "hello" /\ handler'[down'[k][i].by] = "over"
                   => ResetAfter(down'[k], i, SessionOf[down'[k][i].by])
  <2>1. i \in Nat /\ i + 1 \in 1..Len(down[k]) /\ down'[k][i] = down[k][i + 1]
    BY <1>3, <1>q, <1>r
  <2>2. /\ down[k][i + 1].kind = "reset" => handler[down[k][i + 1].by] = "over"
        /\ down[k][i + 1].kind = "hello" /\ handler[down[k][i + 1].by] = "over"
              => ResetAfter(down[k], i + 1, SessionOf[down[k][i + 1].by])
    BY <2>1 DEF ResetOn
  <2> QED
    BY <1>1, <1>r, <2>1, <2>2
<1>4. ASSUME NEW s \in Session, sessions'[k][s] # Nobody, handler'[sessions'[k][s]] = "over"
      PROVE  ResetAfter(down'[k], 0, s)
  <2>1. CASE sessions'[k][s] = sessions[k][s] /\ ~(f.kind = "reset" /\ SessionOf[f.by] = s)
    BY <1>2, <1>4, <1>r, <2>1 DEF ResetOn
  <2>2. CASE s = SessionOf[f.by] /\ f.kind = "hello" /\ sessions'[k][s] = f.by
    <3>1. ResetAfter(down[k], 1, s)
      BY <1>4, <1>q, <1>r, <2>2 DEF ResetOn
    <3> QED
      BY <1>1, <3>1
  <2> QED
    BY <1>4, <1>r, <1>s, <2>1, <2>2
<1> QED
  BY <1>3, <1>4 DEF ResetOn

LEMMA ResetStep ==
  ASSUME TunnelTypeOK, LinkInv, Registered, FrameInv, ResetInv, [TunnelNext]_yvars
  PROVE  ResetInv'
<1>t. /\ handler \in HandlerRows /\ down \in [Link -> Seq(Frame)]
      /\ sessions \in [Link -> [Session -> Visit \cup {Nobody}]]
  BY DEF TunnelTypeOK, HandlerRows
<1>i. \A k \in Link : ResetOn(k)
  BY DEF ResetInv, ResetOn
<1>g. HandlerInv /\ RegistryInv
  BY DEF Registered
<1>e. ASSUME \A k \in Link : ResetOn(k)' PROVE ResetInv'
  BY <1>e DEF ResetInv, ResetOn
<1> SUFFICES ASSUME NEW k \in Link PROVE ResetOn(k)'
  BY <1>e
<1>1. ASSUME NEW m \in Link, LinkIsLost(m) PROVE ResetOn(k)'
  <2>1. /\ handler' = handler
        /\ k # m => down'[k] = down[k] /\ sessions'[k] = sessions[k]
        /\ k = m => down'[k] = <<>> /\ \A s \in Session : sessions'[k][s] = Nobody
    BY <1>1, <1>t DEF LinkIsLost
  <2> QED
    BY <1>i, <2>1, ResetKept, ResetEmpty
<1>2. ASSUME NEW m \in Link, NodeReceives(m) PROVE ResetOn(k)'
  <2>1. CASE m = k
    BY <1>i, <1>2, <2>1, ResetRead
  <2>2. CASE m # k
    <3>1. /\ handler' = handler /\ down'[k] = down[k]
          /\ \A s \in Session : sessions'[k][s] = sessions[k][s]
      BY <1>2, <2>2, Received
    <3> QED
      BY <1>i, <3>1, ResetKept
  <2> QED
    BY <2>1, <2>2
<1>3. ASSUME NEW v \in Visit, HubForwards(v) PROVE ResetOn(k)'
  <2>1. /\ sessions' = sessions /\ handler[v] = "serving"
        /\ handler' = handler \/ handler' = [handler EXCEPT ![v] = "leaving"]
    BY <1>3 DEF HubForwards
  <2>2. \A w \in Visit : handler'[w] = "over" <=> handler[w] = "over"
    BY <1>t, <2>1 DEF HandlerRows
  <2>3. outbound[v][1].by = v /\ outbound[v][1].kind # "reset" /\ outbound[v][1] \in Frame
    <3>1. outbound[v] # <<>> /\ outbound[v] \in Seq(Frame)
      BY <1>3 DEF HubForwards, TunnelTypeOK
    <3>2. 1 \in 1..Len(outbound[v]) /\ outbound[v][1] \in Frame
      BY <3>1, QueueHead
    <3> QED
      BY <3>2 DEF FrameInv, Asking
  <2>4. down'[k] = down[k] \/ down'[k] = Append(down[k], outbound[v][1])
    BY <1>3, Forwarded
  <2>5. CASE down'[k] = down[k]
    BY <1>i, <2>1, <2>2, <2>5, ResetKept
  <2>6. CASE down'[k] = Append(down[k], outbound[v][1])
    <3>1. handler[outbound[v][1].by] # "over"
      BY <2>1, <2>3
    <3> QED
      BY <1>i, <2>1, <2>2, <2>3, <2>6, <3>1, ResetForward
  <2> QED
    BY <2>4, <2>5, <2>6
<1>4. ASSUME NEW v \in Visit, HandlerLeaves(v) PROVE ResetOn(k)'
  <2>1. sessions' = sessions /\ handler'[v] = "over"
        /\ \A w \in Visit : w # v => handler'[w] = handler[w]
    BY <1>4, <1>t DEF HandlerLeaves, HandlerRows
  <2>2. CASE down'[k] = Append(down[k], Packet("reset", v, 0))
    BY <1>g, <1>i, <2>1, <2>2, ResetLast
  <2>3. CASE down'[k] = down[k] /\ ~IsUp(k)
    BY <2>1, <2>3, ResetEmpty DEF LinkInv
  <2> QED
    BY <1>4, <2>2, <2>3, ResetSent
<1>5. ASSUME NEW v \in Visit, ClientConnects(v) \/ HubMissesClient(v) PROVE ResetOn(k)'
  <2>1. /\ UNCHANGED <<down, sessions>> /\ handler[v] # "over"
        /\ \/ handler' = [handler EXCEPT ![v] = "serving"]
           \/ handler' = [handler EXCEPT ![v] = "leaving"]
    <3>1. CASE ClientConnects(v)
      BY <1>g, <3>1 DEF ClientConnects, HandlerInv
    <3>2. CASE HubMissesClient(v)
      BY <3>2 DEF HubMissesClient
    <3> QED
      BY <1>5, <3>1, <3>2
  <2>2. \A w \in Visit : handler'[w] = "over" <=> handler[w] = "over"
    BY <1>t, <2>1 DEF HandlerRows
  <2> QED
    BY <1>i, <2>1, <2>2, ResetKept
<1>6. CASE UNCHANGED <<down, sessions, handler>>
  BY <1>i, <1>6, ResetKept
<1> QED
  BY <1>1, <1>2, <1>3, <1>4, <1>5, <1>6
     DEF TunnelNext, Tied, Visiting, Linking, Handling, Dispatching, NodeConnects,
         HubMissesNode, HubReturns, Seals, Answers, ClientReceives, ClientCloses,
         ClientAsks, yvars

\* Who has left is followed by his reset.
LEMMA SessionsEndSound ==
  ASSUME TunnelTypeOK, RegistryInv, FrameInv, ResetInv
  PROVE  SessionsEnd
<1> SUFFICES ASSUME NEW k \in Link, NEW s \in Session, sessions[k][s] # Nobody,
                    handler[sessions[k][s]] = "over"
             PROVE  \E w \in Visit :
                       SessionOf[w] = s /\ Packet("reset", w, 0) \in Range(down[k])
  BY DEF SessionsEnd
<1>1. ResetAfter(down[k], 0, s)
  BY DEF ResetInv
<1>2. PICK j \in 1..Len(down[k]) : down[k][j].kind = "reset" /\ SessionOf[down[k][j].by] = s
  BY <1>1 DEF ResetAfter
<1>3. down[k] \in Seq(Frame)
  BY DEF TunnelTypeOK
<1>4. down[k][j] \in Frame /\ down[k][j].by \in Visit /\ down[k][j].number = 0
  BY <1>2, <1>3, QueueFrames DEF FrameInv
<1>5. down[k][j] = Packet("reset", down[k][j].by, 0)
  BY <1>2, <1>4 DEF Packet, Frame
<1>6. down[k][j] \in Range(down[k])
  BY <1>3 DEF Range
<1> QED
  BY <1>2, <1>4, <1>5, <1>6

\* A line without its first frame, a frame of another client.
LEMMA LineTailOther ==
  ASSUME NEW q \in Seq(Frame), q # <<>>, NEW v \in Visit, NEW d \in Int, NEW n \in Int,
         Line(q, v, d, n), q[1].by # v
  PROVE  Line(Tail(q), v, d, n)
<1>q. /\ \A i \in 1..Len(Tail(q)) : i \in Nat /\ i + 1 \in 1..Len(q) /\ Tail(q)[i] = q[i + 1]
      /\ \A i \in 1..Len(q) : i \in Nat /\ (i # 1 => i - 1 \in 1..Len(Tail(q))
                                                   /\ Tail(q)[i - 1] = q[i])
  BY QueueHead
<1>m. /\ \A i \in 1..Len(Tail(q)) : Mine(Tail(q), v, i) <=> Mine(q, v, i + 1)
      /\ \A i \in 1..Len(q) : Mine(q, v, i) => i # 1 /\ Mine(Tail(q), v, i - 1)
  BY <1>q DEF Mine
<1>1. d <= n + 1
  BY DEF Line
<1>2. d <= n => \E i \in 1..Len(Tail(q)) : Mine(Tail(q), v, i) /\ Tail(q)[i].number = n
  <2>1. SUFFICES ASSUME d <= n
                 PROVE  \E i \in 1..Len(Tail(q)) : Mine(Tail(q), v, i) /\ Tail(q)[i].number = n
    OBVIOUS
  <2>2. PICK i \in 1..Len(q) : Mine(q, v, i) /\ q[i].number = n
    BY <2>1 DEF Line
  <2> QED
    BY <1>q, <1>m, <2>2
<1>3. ASSUME NEW i \in 1..Len(Tail(q)), Mine(Tail(q), v, i)
      PROVE  /\ d <= Tail(q)[i].number /\ Tail(q)[i].number <= n
             /\ Tail(q)[i].number # d =>
                   \E j \in 1..Len(Tail(q)) : j < i /\ Mine(Tail(q), v, j)
                                              /\ Tail(q)[j].number = Tail(q)[i].number - 1
  <2>1. Mine(q, v, i + 1) /\ i + 1 \in 1..Len(q) /\ Tail(q)[i] = q[i + 1] /\ i \in Nat
    BY <1>3, <1>q, <1>m
  <2>2. /\ d <= q[i + 1].number /\ q[i + 1].number <= n
        /\ q[i + 1].number # d =>
              \E j \in 1..Len(q) : j < i + 1 /\ Mine(q, v, j)
                                  /\ q[j].number = q[i + 1].number - 1
    BY <2>1 DEF Line
  <2>3. ASSUME NEW j \in 1..Len(q), j < i + 1, Mine(q, v, j),
               q[j].number = q[i + 1].number - 1
        PROVE  /\ j - 1 \in 1..Len(Tail(q)) /\ j - 1 < i /\ Mine(Tail(q), v, j - 1)
               /\ Tail(q)[j - 1].number = Tail(q)[i].number - 1
    BY <1>q, <1>m, <2>1, <2>3
  <2> QED
    BY <2>1, <2>2, <2>3
<1>4. ASSUME NEW i \in 1..Len(Tail(q)), NEW j \in 1..Len(Tail(q)),
             Mine(Tail(q), v, i), Mine(Tail(q), v, j), i < j
      PROVE  Tail(q)[i].number < Tail(q)[j].number
  <2>1. /\ Mine(q, v, i + 1) /\ i + 1 \in 1..Len(q) /\ Tail(q)[i] = q[i + 1]
        /\ Mine(q, v, j + 1) /\ j + 1 \in 1..Len(q) /\ Tail(q)[j] = q[j + 1]
        /\ i + 1 < j + 1
    BY <1>4, <1>q, <1>m
  <2> QED
    BY <2>1 DEF Line
<1> QED
  BY <1>1, <1>2, <1>3, <1>4 DEF Line

\* A line without its first frame, a frame of this client.
LEMMA LineTailMine ==
  ASSUME NEW q \in Seq(Frame), q # <<>>, NEW v \in Visit, NEW d \in Int, NEW n \in Int,
         Line(q, v, d, n), q[1].by = v
  PROVE  q[1].number = d /\ Line(Tail(q), v, d + 1, n)
<1>q. /\ \A i \in 1..Len(Tail(q)) : i \in Nat /\ i + 1 \in 1..Len(q) /\ Tail(q)[i] = q[i + 1]
      /\ \A i \in 1..Len(q) : i \in Nat /\ (i # 1 => i - 1 \in 1..Len(Tail(q))
                                                   /\ Tail(q)[i - 1] = q[i])
      /\ 1 \in 1..Len(q)
  BY QueueHead
<1>n. \A i \in 1..Len(q) : q[i].number \in Int
  BY QueueFrames, TunnelAssumption
<1>m. /\ \A i \in 1..Len(Tail(q)) : Mine(Tail(q), v, i) <=> Mine(q, v, i + 1)
      /\ \A i \in 1..Len(q) : Mine(q, v, i) /\ i # 1 => Mine(Tail(q), v, i - 1)
      /\ Mine(q, v, 1)
  BY <1>q DEF Mine
<1>0. q[1].number = d /\ d <= n
  <2>1. /\ d <= q[1].number /\ q[1].number <= n
        /\ q[1].number # d => \E j \in 1..Len(q) : j < 1
    BY <1>q, <1>m DEF Line
  <2>2. \A j \in 1..Len(q) : ~(j < 1)
    OBVIOUS
  <2> QED
    BY <1>n, <1>q, <2>1, <2>2
<1>a. ASSUME NEW i \in 1..Len(q), Mine(q, v, i), i # 1 PROVE d + 1 <= q[i].number
  <2>1. 1 < i
    BY <1>a
  <2>2. q[1].number < q[i].number
    BY <1>a, <1>q, <1>m, <2>1 DEF Line
  <2> QED
    BY <1>0, <1>n, <1>a, <2>2
<1>1. d + 1 <= n + 1
  BY <1>0
<1>2. d + 1 <= n => \E i \in 1..Len(Tail(q)) : Mine(Tail(q), v, i) /\ Tail(q)[i].number = n
  <2>1. SUFFICES ASSUME d + 1 <= n
                 PROVE  \E i \in 1..Len(Tail(q)) : Mine(Tail(q), v, i) /\ Tail(q)[i].number = n
    OBVIOUS
  <2>2. PICK i \in 1..Len(q) : Mine(q, v, i) /\ q[i].number = n
    BY <1>0 DEF Line
  <2>3. i # 1
    BY <1>0, <2>1, <2>2
  <2> QED
    BY <1>q, <1>m, <2>2, <2>3
<1>3. ASSUME NEW i \in 1..Len(Tail(q)), Mine(Tail(q), v, i)
      PROVE  /\ d + 1 <= Tail(q)[i].number /\ Tail(q)[i].number <= n
             /\ Tail(q)[i].number # d + 1 =>
                   \E j \in 1..Len(Tail(q)) : j < i /\ Mine(Tail(q), v, j)
                                              /\ Tail(q)[j].number = Tail(q)[i].number - 1
  <2>1. /\ Mine(q, v, i + 1) /\ i + 1 \in 1..Len(q) /\ Tail(q)[i] = q[i + 1] /\ i \in Nat
        /\ i + 1 # 1
    BY <1>3, <1>q, <1>m
  <2>2. /\ d + 1 <= q[i + 1].number /\ q[i + 1].number <= n
        /\ q[i + 1].number # d =>
              \E j \in 1..Len(q) : j < i + 1 /\ Mine(q, v, j)
                                  /\ q[j].number = q[i + 1].number - 1
    BY <1>a, <2>1 DEF Line
  <2>3. ASSUME q[i + 1].number # d + 1
        PROVE  \E j \in 1..Len(Tail(q)) : j < i /\ Mine(Tail(q), v, j)
                                          /\ Tail(q)[j].number = q[i + 1].number - 1
    <3>1. q[i + 1].number # d
      BY <1>n, <2>1, <2>2
    <3>2. PICK j \in 1..Len(q) : /\ j < i + 1 /\ Mine(q, v, j)
                                 /\ q[j].number = q[i + 1].number - 1
      BY <2>2, <3>1
    <3>3. j # 1
      BY <1>0, <1>n, <2>1, <2>3, <3>2
    <3>4. j - 1 \in 1..Len(Tail(q)) /\ Tail(q)[j - 1] = q[j] /\ Mine(Tail(q), v, j - 1) /\ j - 1 < i
      BY <1>q, <1>m, <2>1, <3>2, <3>3
    <3> QED
      BY <3>2, <3>4
  <2> QED
    BY <2>1, <2>2, <2>3
<1>4. ASSUME NEW i \in 1..Len(Tail(q)), NEW j \in 1..Len(Tail(q)),
             Mine(Tail(q), v, i), Mine(Tail(q), v, j), i < j
      PROVE  Tail(q)[i].number < Tail(q)[j].number
  <2>1. /\ Mine(q, v, i + 1) /\ i + 1 \in 1..Len(q) /\ Tail(q)[i] = q[i + 1]
        /\ Mine(q, v, j + 1) /\ j + 1 \in 1..Len(q) /\ Tail(q)[j] = q[j + 1]
        /\ i + 1 < j + 1
    BY <1>4, <1>q, <1>m
  <2> QED
    BY <2>1 DEF Line
<1> QED
  BY <1>0, <1>1, <1>2, <1>3, <1>4 DEF Line

\* A line with one more frame, of another client.
LEMMA LineMoreOther ==
  ASSUME NEW q \in Seq(Frame), NEW f \in Frame, NEW v \in Visit, NEW d \in Int, NEW n \in Int,
         Line(q, v, d, n), f.by # v
  PROVE  Line(Append(q, f), v, d, n)
<1> DEFINE a == Append(q, f)
<1>q. /\ \A i \in 1..Len(q) : i \in 1..Len(a) /\ a[i] = q[i]
      /\ a[Len(q) + 1] = f
      /\ \A i \in 1..Len(a) : i \in 1..Len(q) \/ i = Len(q) + 1
  BY QueueMore
<1> HIDE DEF a
<1>m. /\ \A i \in 1..Len(a) : Mine(a, v, i) => i \in 1..Len(q) /\ Mine(q, v, i) /\ a[i] = q[i]
      /\ \A i \in 1..Len(q) : Mine(q, v, i) => i \in 1..Len(a) /\ Mine(a, v, i) /\ a[i] = q[i]
  BY <1>q DEF Mine
<1>2. d <= n => \E i \in 1..Len(a) : Mine(a, v, i) /\ a[i].number = n
  <2>1. d <= n => \E i \in 1..Len(q) : Mine(q, v, i) /\ q[i].number = n
    BY DEF Line
  <2> QED
    BY <1>m, <2>1
<1>3. ASSUME NEW i \in 1..Len(a), Mine(a, v, i)
      PROVE  /\ d <= a[i].number /\ a[i].number <= n
             /\ a[i].number # d =>
                   \E j \in 1..Len(a) : j < i /\ Mine(a, v, j) /\ a[j].number = a[i].number - 1
  <2>1. i \in 1..Len(q) /\ Mine(q, v, i) /\ a[i] = q[i]
    BY <1>3, <1>m
  <2>2. /\ d <= q[i].number /\ q[i].number <= n
        /\ q[i].number # d =>
              \E j \in 1..Len(q) : j < i /\ Mine(q, v, j) /\ q[j].number = q[i].number - 1
    BY <2>1 DEF Line
  <2> QED
    BY <1>m, <2>1, <2>2
<1>4. ASSUME NEW i \in 1..Len(a), NEW j \in 1..Len(a), Mine(a, v, i), Mine(a, v, j), i < j
      PROVE  a[i].number < a[j].number
  BY <1>4, <1>m DEF Line
<1>5. d <= n + 1
  BY DEF Line
<1>6. Line(a, v, d, n)
  BY <1>2, <1>3, <1>4, <1>5 DEF Line
<1> QED
  BY <1>6 DEF a

\* A line with one more frame, the next of this client.
LEMMA LineMoreMine ==
  ASSUME NEW q \in Seq(Frame), NEW f \in Frame, NEW v \in Visit, NEW d \in Int, NEW n \in Int,
         Line(q, v, d, n), f.by = v, f.number = n + 1
  PROVE  Line(Append(q, f), v, d, n + 1)
<1> DEFINE a == Append(q, f)
<1>q. /\ \A i \in 1..Len(q) : i \in Nat /\ i \in 1..Len(a) /\ a[i] = q[i]
      /\ a[Len(q) + 1] = f /\ Len(q) + 1 \in 1..Len(a) /\ Len(q) \in Nat
      /\ \A i \in 1..Len(a) : i \in 1..Len(q) \/ i = Len(q) + 1
  BY QueueMore
<1>n. \A i \in 1..Len(q) : q[i].number \in Int
  BY QueueFrames, TunnelAssumption
<1> HIDE DEF a
<1>m. /\ \A i \in 1..Len(q) : Mine(a, v, i) <=> Mine(q, v, i)
      /\ Mine(a, v, Len(q) + 1)
  BY <1>q DEF Mine
<1>u. \A i \in 1..Len(q) : Mine(q, v, i) => d <= q[i].number /\ q[i].number <= n
  BY DEF Line
<1>5. d <= n + 1
  BY DEF Line
<1>2. \E i \in 1..Len(a) : Mine(a, v, i) /\ a[i].number = n + 1
  BY <1>q, <1>m
<1>3. ASSUME NEW i \in 1..Len(a), Mine(a, v, i)
      PROVE  /\ d <= a[i].number /\ a[i].number <= n + 1
             /\ a[i].number # d =>
                   \E j \in 1..Len(a) : j < i /\ Mine(a, v, j) /\ a[j].number = a[i].number - 1
  <2>1. CASE i \in 1..Len(q)
    <3>1. Mine(q, v, i) /\ a[i] = q[i]
      BY <1>3, <1>m, <1>q, <2>1
    <3>2. q[i].number # d =>
              \E j \in 1..Len(q) : j < i /\ Mine(q, v, j) /\ q[j].number = q[i].number - 1
      BY <2>1, <3>1 DEF Line
    <3>3. q[i].number <= n + 1
      BY <1>n, <1>u, <2>1, <3>1
    <3> QED
      BY <1>m, <1>q, <1>u, <2>1, <3>1, <3>2, <3>3
  <2>2. CASE i = Len(q) + 1
    <3>1. a[i].number = n + 1
      BY <1>q, <2>2
    <3>2. ASSUME n + 1 # d
          PROVE  \E j \in 1..Len(a) : j < i /\ Mine(a, v, j) /\ a[j].number = n
      <4>1. d <= n
        BY <1>5, <3>2
      <4>2. PICK j \in 1..Len(q) : Mine(q, v, j) /\ q[j].number = n
        BY <4>1 DEF Line
      <4>3. j < i
        BY <1>q, <2>2, <4>2
      <4> QED
        BY <1>m, <1>q, <4>2, <4>3
    <3>3. (n + 1) - 1 = n
      OBVIOUS
    <3> QED
      BY <1>5, <3>1, <3>2, <3>3
  <2> QED
    BY <1>q, <2>1, <2>2
<1>4. ASSUME NEW i \in 1..Len(a), NEW j \in 1..Len(a), Mine(a, v, i), Mine(a, v, j), i < j
      PROVE  a[i].number < a[j].number
  <2>1. i \in 1..Len(q)
    BY <1>4, <1>q
  <2>2. CASE j \in 1..Len(q)
    <3>1. q[i].number < q[j].number
      BY <1>4, <1>m, <2>1, <2>2 DEF Line
    <3> QED
      BY <1>q, <2>1, <2>2, <3>1
  <2>3. CASE j = Len(q) + 1
    <3>1. a[i] = q[i] /\ a[j].number = n + 1 /\ Mine(q, v, i)
      BY <1>4, <1>m, <1>q, <2>1, <2>3
    <3> QED
      BY <1>n, <1>u, <2>1, <3>1
  <2> QED
    BY <1>q, <2>2, <2>3
<1>6. Line(a, v, d, n + 1)
  <2>1. d <= (n + 1) + 1
    BY <1>5
  <2> QED
    BY <1>2, <1>3, <1>4, <2>1 DEF Line
<1> QED
  BY <1>6 DEF a

\* A ticket that serves one visit only.
LEMMA OwnSession ==
  ASSUME TunnelTypeOK, RegistryInv, NEW v \in OwnTicket
  PROVE  /\ v \in Visit /\ SessionOf[v] \in Session /\ v # Nobody
         /\ \A w \in Visit : SessionOf[w] = SessionOf[v] => w = v
         /\ \A k \in Link : sessions[k][SessionOf[v]] \in {v, Nobody}
         /\ \A s \in Session : clients[s] = v => s = SessionOf[v]
<1>1. /\ v \in Visit /\ SessionOf[v] \in Session /\ v # Nobody
      /\ \A w \in Visit : SessionOf[w] = SessionOf[v] => w = v
  BY TunnelAssumption DEF OwnTicket
<1>2. \A k \in Link : sessions[k][SessionOf[v]] \in Visit \cup {Nobody}
  BY <1>1 DEF TunnelTypeOK
<1>3. \A k \in Link : sessions[k][SessionOf[v]] \in {v, Nobody}
  BY <1>1, <1>2 DEF RegistryInv
<1>4. \A s \in Session : clients[s] = v => s = SessionOf[v]
  BY <1>1 DEF RegistryInv
<1> QED
  BY <1>1, <1>3, <1>4

\* The Node reads a request of the visit.
Reads(v, n, k) ==
    /\ NodeReceives(k) /\ FirstDown(k).by = v /\ FirstDown(k).number = n
    /\ FirstDown(k).kind # "reset"

\* What happens to a job.
LEMMA JobMoves ==
  ASSUME TunnelTypeOK, [TunnelNext]_yvars, NEW v \in Visit, NEW r \in Request
  PROVE  \/ job'[v][r] = job[v][r]
         \/ /\ job[v][r].pc = "running" /\ job'[v][r].pc = "sealed"
            /\ job'[v][r].link = job[v][r].link /\ Seals(v, r)
         \/ /\ job[v][r].pc = "sealed" /\ job'[v][r].pc = "sent"
            /\ job'[v][r].link = job[v][r].link /\ Answers(v, r)
         \/ \E k \in Link : /\ Reads(v, r, k) /\ FirstDown(k).kind = "request"
                            /\ sessions[k][SessionOf[v]] = v
                            /\ job'[v][r].pc = "running" /\ job'[v][r].link = k
<1> DEFINE P == \/ job'[v][r] = job[v][r]
                \/ /\ job[v][r].pc = "running" /\ job'[v][r].pc = "sealed"
                   /\ job'[v][r].link = job[v][r].link /\ Seals(v, r)
                \/ /\ job[v][r].pc = "sealed" /\ job'[v][r].pc = "sent"
                   /\ job'[v][r].link = job[v][r].link /\ Answers(v, r)
                \/ \E k \in Link : /\ Reads(v, r, k) /\ FirstDown(k).kind = "request"
                                   /\ sessions[k][SessionOf[v]] = v
                                   /\ job'[v][r].pc = "running" /\ job'[v][r].link = k
<1> HIDE DEF P
<1>1. ASSUME NEW w \in Visit, NEW q \in Request, Seals(w, q) PROVE P
  <2>1. CASE w = v /\ q = r
    BY <1>1, <2>1, Sealed DEF P
  <2>2. CASE ~(w = v /\ q = r)
    <3>1. job'[v][r] = job[v][r]
      BY <1>1, <2>2, Sealed
    <3> QED
      BY <3>1 DEF P
  <2> QED
    BY <2>1, <2>2
<1>2. ASSUME NEW w \in Visit, NEW q \in Request, Answers(w, q) PROVE P
  <2>1. CASE w = v /\ q = r
    BY <1>2, <2>1, AnsweredJob DEF P
  <2>2. CASE ~(w = v /\ q = r)
    <3>1. job'[v][r] = job[v][r]
      BY <1>2, <2>2, AnsweredJob
    <3> QED
      BY <3>1 DEF P
  <2> QED
    BY <2>1, <2>2
<1>3. ASSUME NEW k \in Link, NodeReceives(k) PROVE P
  <2>1. /\ FirstDown(k).by \in Visit /\ FirstDown(k).number \in 0..MaxRequests
        /\ \/ job' = job
           \/ /\ FirstDown(k).kind = "request"
              /\ sessions[k][SessionOf[FirstDown(k).by]] = FirstDown(k).by
              /\ job' = [job EXCEPT ![FirstDown(k).by][FirstDown(k).number] =
                             [pc |-> "running", link |-> k, number |-> 0]]
    BY <1>3, Received
  <2>2. CASE job' = job
    BY <2>2 DEF P
  <2>3. CASE /\ FirstDown(k).kind = "request"
             /\ sessions[k][SessionOf[FirstDown(k).by]] = FirstDown(k).by
             /\ job' = [job EXCEPT ![FirstDown(k).by][FirstDown(k).number] =
                             [pc |-> "running", link |-> k, number |-> 0]]
    <3>1. CASE FirstDown(k).by = v /\ FirstDown(k).number = r
      <4>1. job'[v][r].pc = "running" /\ job'[v][r].link = k
        <5> DEFINE R == [pc |-> "running", link |-> k, number |-> 0]
        <5>1. R \in JobRow /\ R.pc = "running" /\ R.link = k
          BY TunnelAssumption DEF JobRow, Link
        <5>2. job' = [job EXCEPT ![v][r] = R]
          BY <2>3, <3>1
        <5> HIDE DEF R
        <5>3. job \in [Visit -> [Request -> JobRow]]
          BY DEF TunnelTypeOK, JobRow
        <5>4. job'[v][r] = R
          BY <5>1, <5>2, <5>3, OnePlace
        <5> QED
          BY <5>1, <5>4
      <4>2. Reads(v, r, k)
        BY <1>3, <2>3, <3>1 DEF Reads
      <4> QED
        BY <2>3, <3>1, <4>1, <4>2 DEF P
    <3>2. CASE ~(FirstDown(k).by = v /\ FirstDown(k).number = r)
      <4>1. job'[v][r] = job[v][r]
        BY <2>1, <2>3, <3>2, RunningJob
      <4> QED
        BY <4>1 DEF P
    <3> QED
      BY <3>1, <3>2
  <2> QED
    BY <2>1, <2>2, <2>3
<1>4. ASSUME UNCHANGED job PROVE P
  BY <1>4 DEF P
<1>5. \/ UNCHANGED job
      \/ \E k \in Link : NodeReceives(k)
      \/ \E w \in Visit, q \in Request : Seals(w, q) \/ Answers(w, q)
  BY DEF TunnelNext, Tied, Visiting, Linking, Handling, Dispatching, NodeConnects, LinkIsLost,
         HubMissesNode, HubReturns, ClientConnects, ClientReceives, ClientAsks, ClientCloses,
         HubForwards, HubMissesClient, HandlerLeaves, yvars
<1>6. P
  BY <1>1, <1>2, <1>3, <1>4, <1>5
<1> QED
  BY <1>6 DEF P

\* What happens to a session of the Node.
LEMMA SessionMoves ==
  ASSUME TunnelTypeOK, [TunnelNext]_yvars, NEW k \in Link, NEW s \in Session
  PROVE  \/ sessions'[k][s] = sessions[k][s]
         \/ LinkIsLost(k) /\ sessions'[k][s] = Nobody
         \/ /\ NodeReceives(k) /\ FirstDown(k).kind = "reset" /\ SessionOf[FirstDown(k).by] = s
            /\ FirstDown(k).by \in Visit /\ sessions'[k][s] = Nobody
         \/ /\ NodeReceives(k) /\ FirstDown(k).kind = "hello" /\ SessionOf[FirstDown(k).by] = s
            /\ FirstDown(k).by \in Visit
            /\ sessions[k][s] = Nobody /\ sessions'[k][s] = FirstDown(k).by
<1>1. ASSUME NEW m \in Link, LinkIsLost(m)
      PROVE  sessions'[k][s] = sessions[k][s] \/ (m = k /\ sessions'[k][s] = Nobody)
  BY <1>1 DEF LinkIsLost, TunnelTypeOK
<1>2. ASSUME NEW m \in Link, NodeReceives(m)
      PROVE  \/ sessions'[k][s] = sessions[k][s]
             \/ /\ m = k /\ FirstDown(k).kind = "reset" /\ SessionOf[FirstDown(k).by] = s
                /\ FirstDown(k).by \in Visit /\ sessions'[k][s] = Nobody
             \/ /\ m = k /\ FirstDown(k).kind = "hello" /\ SessionOf[FirstDown(k).by] = s
                /\ FirstDown(k).by \in Visit
                /\ sessions[k][s] = Nobody /\ sessions'[k][s] = FirstDown(k).by
  <2>1. CASE m # k \/ s # SessionOf[FirstDown(m).by]
    <3>1. sessions'[k][s] = sessions[k][s]
      BY ZenonT(30), <1>2, <2>1, Received
    <3> QED
      BY <3>1
  <2>2. CASE m = k /\ s = SessionOf[FirstDown(m).by]
    <3>1. /\ FirstDown(k).by \in Visit
          /\ \/ FirstDown(k).kind = "reset" /\ sessions'[k][SessionOf[FirstDown(k).by]] = Nobody
             \/ /\ FirstDown(k).kind = "hello"
                /\ sessions[k][SessionOf[FirstDown(k).by]] = Nobody
                /\ sessions'[k][SessionOf[FirstDown(k).by]] = FirstDown(k).by
             \/ sessions' = sessions
      BY <1>2, <2>2, Received
    <3> QED
      BY <2>2, <3>1
  <2> QED
    BY <2>1, <2>2
<1>3. \/ sessions' = sessions
      \/ \E m \in Link : LinkIsLost(m) \/ NodeReceives(m)
  BY DEF TunnelNext, Tied, Visiting, Linking, Handling, Dispatching, NodeConnects, Seals, Answers,
         HubMissesNode, HubReturns, ClientConnects, ClientReceives, ClientAsks, ClientCloses,
         HubForwards, HubMissesClient, HandlerLeaves, yvars
<1> QED
  BY <1>1, <1>2, <1>3

\* How far a client is after a step.
LEMMA VisitMoves ==
  ASSUME TunnelTypeOK, [TunnelNext]_yvars, NEW v \in Visit
  PROVE  \/ visit'[v] = visit[v]
         \/ /\ visit'[v].pc = "closed" /\ visit'[v].read = visit[v].read
            /\ visit'[v].sent = visit[v].sent
         \/ /\ ClientConnects(v) /\ visit[v].pc = "idle" /\ visit'[v].pc = "ready"
            /\ visit'[v].read = visit[v].read /\ visit'[v].sent = visit[v].sent
            /\ outbound'[v] = <<Packet("hello", v, 0)>>
         \/ /\ ClientReceives(v) /\ visit[v].pc = "ready" /\ visit'[v].pc = "secure"
            /\ visit'[v].read = visit[v].read /\ visit'[v].sent = visit[v].sent
         \/ /\ ClientReceives(v) /\ visit[v].pc = "secure" /\ visit'[v].pc = "secure"
            /\ visit'[v].read = visit[v].read + 1 /\ visit'[v].sent = visit[v].sent
         \/ /\ ClientAsks(v) /\ visit[v].pc = "secure" /\ visit'[v].pc = "secure"
            /\ visit'[v].read = visit[v].read /\ visit'[v].sent = visit[v].sent + 1
<1> DEFINE P ==
         \/ visit'[v] = visit[v]
         \/ /\ visit'[v].pc = "closed" /\ visit'[v].read = visit[v].read
            /\ visit'[v].sent = visit[v].sent
         \/ /\ ClientConnects(v) /\ visit[v].pc = "idle" /\ visit'[v].pc = "ready"
            /\ visit'[v].read = visit[v].read /\ visit'[v].sent = visit[v].sent
            /\ outbound'[v] = <<Packet("hello", v, 0)>>
         \/ /\ ClientReceives(v) /\ visit[v].pc = "ready" /\ visit'[v].pc = "secure"
            /\ visit'[v].read = visit[v].read /\ visit'[v].sent = visit[v].sent
         \/ /\ ClientReceives(v) /\ visit[v].pc = "secure" /\ visit'[v].pc = "secure"
            /\ visit'[v].read = visit[v].read + 1 /\ visit'[v].sent = visit[v].sent
         \/ /\ ClientAsks(v) /\ visit[v].pc = "secure" /\ visit'[v].pc = "secure"
            /\ visit'[v].read = visit[v].read /\ visit'[v].sent = visit[v].sent + 1
<1> HIDE DEF P
<1>t. visit \in VisitRows /\ outbound \in [Visit -> Seq(Frame)]
  BY DEF TunnelTypeOK, VisitRows
<1>c. ASSUME NEW w \in Visit, visit' = Closed(w) PROVE P
  BY <1>t, <1>c DEF Closed, VisitRows, P
<1>1. ASSUME NEW k \in Link, HubMissesNode(k) PROVE P
  <2>1. CASE visit' = visit
    BY <2>1 DEF P
  <2>2. CASE visit' = [w \in Visit |->
                  IF \E s \in Session : clients[s] = w THEN [visit[w] EXCEPT !.pc = "closed"]
                                                       ELSE visit[w]]
    <3>1. visit'[v] = visit[v] \/ visit'[v] = [visit[v] EXCEPT !.pc = "closed"]
      BY <2>2
    <3> QED
      BY <1>t, <3>1 DEF VisitRows, P
  <2> QED
    BY <1>1, <2>1, <2>2 DEF HubMissesNode
<1>2. ASSUME NEW w \in Visit, ClientConnects(w) PROVE P
  <2>1. CASE visit' = Closed(w)
    BY <1>c, <2>1
  <2>2. CASE visit' # Closed(w)
    <3>1. /\ visit' = [visit EXCEPT ![w].pc = "ready"] /\ visit[w].pc = "idle"
          /\ outbound' = [outbound EXCEPT ![w] = <<Packet("hello", w, 0)>>]
      BY <1>2, <2>2 DEF ClientConnects
    <3>2. CASE w = v
      <4>1. visit'[v].pc = "ready" /\ visit'[v].read = visit[v].read /\ visit'[v].sent = visit[v].sent
        BY <1>t, <3>1, <3>2 DEF VisitRows
      <4>2. outbound'[v] = <<Packet("hello", v, 0)>>
        BY <1>t, <3>1, <3>2
      <4> QED
        BY <1>2, <3>1, <3>2, <4>1, <4>2 DEF P
    <3>3. CASE w # v
      BY <1>t, <3>1, <3>3 DEF VisitRows, P
    <3> QED
      BY <3>2, <3>3
  <2> QED
    BY <2>1, <2>2
<1>3. ASSUME NEW w \in Visit, ClientReceives(w) PROVE P
  <2>1. CASE visit' = Closed(w)
    BY <1>c, <2>1
  <2>2. CASE visit[w].pc = "ready" /\ visit' = [visit EXCEPT ![w].pc = "secure"]
    <3>1. CASE w = v
      BY <1>3, <1>t, <2>2, <3>1 DEF VisitRows, P
    <3>2. CASE w # v
      BY <1>t, <2>2, <3>2 DEF VisitRows, P
    <3> QED
      BY <3>1, <3>2
  <2>3. CASE visit[w].pc = "secure" /\ visit' = [visit EXCEPT ![w].read = @ + 1]
    <3>1. CASE w = v
      BY <1>3, <1>t, <2>3, <3>1 DEF VisitRows, P
    <3>2. CASE w # v
      BY <1>t, <2>3, <3>2 DEF VisitRows, P
    <3> QED
      BY <3>1, <3>2
  <2> QED
    BY <1>3, <2>1, <2>2, <2>3 DEF ClientReceives
<1>4. ASSUME NEW w \in Visit, ClientAsks(w) PROVE P
  <2>1. visit[w].pc = "secure" /\ visit' = [visit EXCEPT ![w].sent = @ + 1]
    BY <1>4 DEF ClientAsks
  <2>2. CASE w = v
    BY <1>4, <1>t, <2>1, <2>2 DEF VisitRows, P
  <2>3. CASE w # v
    BY <1>t, <2>1, <2>3 DEF VisitRows, P
  <2> QED
    BY <2>2, <2>3
<1>5. ASSUME visit' = visit PROVE P
  BY <1>5 DEF P
<1>6. \/ visit' = visit
      \/ \E w \in Visit : visit' = Closed(w)
      \/ \E k \in Link : HubMissesNode(k)
      \/ \E w \in Visit : ClientConnects(w) \/ ClientReceives(w) \/ ClientAsks(w)
  BY DEF TunnelNext, Tied, Visiting, Linking, Handling, Dispatching, NodeConnects, LinkIsLost,
         NodeReceives, Seals, Answers, HubReturns, ClientCloses,
         HubForwards, HubMissesClient, HandlerLeaves, yvars
<1>7. P
  BY <1>c, <1>1, <1>2, <1>3, <1>4, <1>5, <1>6
<1> QED
  BY <1>7 DEF P

\* The Node takes a client up.
Accepts(v, k) ==
    /\ NodeReceives(k) /\ FirstDown(k).by = v /\ FirstDown(k).kind = "hello"
    /\ sessions[k][SessionOf[v]] = Nobody /\ sessions'[k][SessionOf[v]] = v

\* What a client has on the way to the Hub.
LEMMA OutboundOf ==
  ASSUME TunnelTypeOK, [TunnelNext]_yvars, NEW v \in Visit
  PROVE  \/ outbound'[v] = outbound[v]
         \/ HubForwards(v) /\ outbound[v] # <<>> /\ outbound'[v] = Tail(outbound[v])
         \/ outbound'[v] = <<>>
         \/ /\ ClientConnects(v) /\ visit[v].pc = "idle" /\ down' = down
            /\ outbound'[v] = <<Packet("hello", v, 0)>>
         \/ /\ ClientAsks(v) /\ visit[v].pc = "secure" /\ down' = down
            /\ visit[v].sent + 1 \in 0..MaxRequests /\ visit[v].sent + 1 # 0
            /\ visit'[v].sent = visit[v].sent + 1
            /\ outbound'[v] = Append(outbound[v], Packet("request", v, visit[v].sent + 1))
<1>t. visit \in VisitRows
  BY DEF TunnelTypeOK, VisitRows
<1>1. ASSUME ClientAsks(v)
      PROVE  visit[v].pc = "secure" /\ down' = down /\ visit'[v].sent = visit[v].sent + 1
  BY <1>t, <1>1 DEF ClientAsks, VisitRows
<1>2. ASSUME ClientConnects(v) PROVE down' = down
  BY <1>2 DEF ClientConnects
<1> QED
  BY <1>1, <1>2, OutboundMoves

\* What of a client is on a link to the Node.
LEMMA DownOf ==
  ASSUME TunnelTypeOK, LinkInv, FrameInv, [TunnelNext]_yvars, NEW v \in Visit, NEW k \in Link
  PROVE  \/ down'[k] = down[k]
         \/ down'[k] = <<>>
         \/ /\ NodeReceives(k) /\ IsUp(k) /\ down[k] # <<>> /\ down'[k] = Tail(down[k])
            /\ outbound' = outbound
         \/ \E f \in Frame :
               /\ f.by # v \/ f.kind = "reset"
               /\ down'[k] = Append(down[k], f)
         \/ /\ HubForwards(v) /\ outbound[v] # <<>> /\ outbound[v][1] \in Frame
            /\ outbound'[v] = Tail(outbound[v])
            /\ down'[k] = Append(down[k], outbound[v][1])
<1> DEFINE P ==
         \/ down'[k] = down[k]
         \/ down'[k] = <<>>
         \/ /\ NodeReceives(k) /\ IsUp(k) /\ down[k] # <<>> /\ down'[k] = Tail(down[k])
            /\ outbound' = outbound
         \/ \E f \in Frame :
               /\ f.by # v \/ f.kind = "reset"
               /\ down'[k] = Append(down[k], f)
         \/ /\ HubForwards(v) /\ outbound[v] # <<>> /\ outbound[v][1] \in Frame
            /\ outbound'[v] = Tail(outbound[v])
            /\ down'[k] = Append(down[k], outbound[v][1])
<1> HIDE DEF P
<1>1. ASSUME NodeReceives(k), down[k] # <<>>, down'[k] = Tail(down[k]) PROVE P
  <2>1. IsUp(k) /\ outbound' = outbound
    BY <1>1, Received
  <2> QED
    BY <1>1, <2>1 DEF P
<1>2. ASSUME NEW w \in Visit, HandlerLeaves(w), Packet("reset", w, 0) \in Frame,
             down'[k] = Append(down[k], Packet("reset", w, 0))
      PROVE  P
  <2>1. Packet("reset", w, 0).kind = "reset"
    BY DEF Packet
  <2> QED
    BY <1>2, <2>1 DEF P
<1>3. ASSUME NEW w \in Visit, HubForwards(w), outbound[w] # <<>>, outbound[w][1] \in Frame,
             down'[k] = Append(down[k], outbound[w][1])
      PROVE  P
  <2>1. CASE w = v
    <3>1. outbound'[v] = Tail(outbound[v])
      BY <1>3, <2>1 DEF HubForwards, TunnelTypeOK
    <3> QED
      BY <1>3, <2>1, <3>1 DEF P
  <2>2. CASE w # v
    <3>1. outbound[w] \in Seq(Frame)
      BY DEF TunnelTypeOK
    <3>2. 1 \in 1..Len(outbound[w])
      BY <1>3, <3>1, QueueHead
    <3>3. outbound[w][1].by # v
      BY <2>2, <3>2 DEF FrameInv
    <3> QED
      BY <1>3, <3>3 DEF P
  <2> QED
    BY <2>1, <2>2
<1>4. ASSUME down'[k] = down[k] \/ down'[k] = <<>> PROVE P
  BY <1>4 DEF P
<1>5. P
  BY <1>1, <1>2, <1>3, <1>4, DownMoves
<1> QED
  BY <1>5 DEF P

\* What of a client is on a link from the Node.
LEMMA UpOf ==
  ASSUME TunnelTypeOK, RegistryInv, [TunnelNext]_yvars, NEW v \in OwnTicket, NEW k \in Link
  PROVE  \/ up'[k] = up[k]
         \/ LinkIsLost(k) /\ up'[k] = <<>>
         \/ HubReturns(k) /\ up[k] # <<>> /\ up'[k] = Tail(up[k])
         \/ \E f \in Frame : f.by # v /\ up'[k] = Append(up[k], f)
         \/ /\ Accepts(v, k) /\ Packet("hello", v, 0) \in Frame
            /\ up'[k] = Append(up[k], Packet("hello", v, 0))
         \/ \E r \in Request :
               /\ Answers(v, r) /\ job[v][r].link = k
               /\ Packet("answer", v, job[v][r].number) \in Frame
               /\ up'[k] = Append(up[k], Packet("answer", v, job[v][r].number))
<1> DEFINE P ==
         \/ up'[k] = up[k]
         \/ LinkIsLost(k) /\ up'[k] = <<>>
         \/ HubReturns(k) /\ up[k] # <<>> /\ up'[k] = Tail(up[k])
         \/ \E f \in Frame : f.by # v /\ up'[k] = Append(up[k], f)
         \/ /\ Accepts(v, k) /\ Packet("hello", v, 0) \in Frame
            /\ up'[k] = Append(up[k], Packet("hello", v, 0))
         \/ \E r \in Request :
               /\ Answers(v, r) /\ job[v][r].link = k
               /\ Packet("answer", v, job[v][r].number) \in Frame
               /\ up'[k] = Append(up[k], Packet("answer", v, job[v][r].number))
<1> HIDE DEF P
<1>1. ASSUME NodeReceives(k), Packet("hello", FirstDown(k).by, 0) \in Frame,
             up'[k] = Append(up[k], Packet("hello", FirstDown(k).by, 0))
      PROVE  P
  <2>1. CASE FirstDown(k).by # v
    <3>1. Packet("hello", FirstDown(k).by, 0).by # v
      BY <2>1 DEF Packet
    <3> QED
      BY <1>1, <3>1 DEF P
  <2>2. CASE FirstDown(k).by = v
    <3>1. up'[k] # up[k]
      <4>1. up[k] \in Seq(Frame)
        BY DEF TunnelTypeOK
      <4>2. Len(up'[k]) = Len(up[k]) + 1 /\ Len(up[k]) \in Nat
        BY <1>1, <4>1, QueueMore
      <4> QED
        BY <4>2
    <3>2. /\ FirstDown(k).kind = "hello" /\ sessions[k][SessionOf[v]] = Nobody
          /\ sessions'[k][SessionOf[v]] = v
      BY <1>1, <2>2, <3>1, Received
    <3> QED
      BY <1>1, <2>2, <3>2 DEF P, Accepts
  <2> QED
    BY <2>1, <2>2
<1>2. ASSUME NEW w \in Visit, NEW r \in Request, Answers(w, r), job[w][r].link = k,
             Packet("answer", w, job[w][r].number) \in Frame,
             up'[k] = Append(up[k], Packet("answer", w, job[w][r].number))
      PROVE  P
  <2>1. CASE w # v
    <3>1. Packet("answer", w, job[w][r].number).by # v
      BY <2>1 DEF Packet
    <3> QED
      BY <1>2, <3>1 DEF P
  <2>2. CASE w = v
    BY <1>2, <2>2 DEF P
  <2> QED
    BY <2>1, <2>2
<1>3. ASSUME \/ up'[k] = up[k]
             \/ LinkIsLost(k) /\ up'[k] = <<>>
             \/ HubReturns(k) /\ up[k] # <<>> /\ up'[k] = Tail(up[k])
      PROVE  P
  BY <1>3 DEF P
<1>4. P
  BY <1>1, <1>2, <1>3, UpMoves
<1> QED
  BY <1>4 DEF P

\* The Node does not hear of a visit but by its hello.
LEMMA UnheardStep ==
  ASSUME TunnelTypeOK, RegistryInv, [TunnelNext]_yvars, NEW v \in OwnTicket, Unheard(v)
  PROVE  Unheard(v)' \/ \E k \in Link : Accepts(v, k)
<1> SUFFICES ASSUME \A k \in Link : ~Accepts(v, k) PROVE Unheard(v)'
  OBVIOUS
<1>o. /\ v \in Visit /\ SessionOf[v] \in Session /\ v # Nobody
      /\ \A w \in Visit : SessionOf[w] = SessionOf[v] => w = v
      /\ \A s \in Session : clients[s] = v => s = SessionOf[v]
  BY OwnSession
<1>t. /\ up \in [Link -> Seq(Frame)] /\ inbound \in [Visit -> Seq(Frame)]
  BY DEF TunnelTypeOK
<1>1. ASSUME NEW k \in Link PROVE sessions'[k][SessionOf[v]] # v
  <2>1. sessions[k][SessionOf[v]] # v
    BY DEF Unheard
  <2>2. ~(/\ NodeReceives(k) /\ FirstDown(k).kind = "hello" /\ SessionOf[FirstDown(k).by] = SessionOf[v]
          /\ FirstDown(k).by \in Visit
          /\ sessions[k][SessionOf[v]] = Nobody /\ sessions'[k][SessionOf[v]] = FirstDown(k).by)
    BY <1>o DEF Accepts
  <2> QED
    BY <1>o, <2>1, <2>2, SessionMoves
<1>2. ASSUME NEW k \in Link, NEW i \in 1..Len(up'[k]) PROVE up'[k][i].by # v
  <2>i. \A j \in 1..Len(up[k]) : up[k][j].by # v
    BY DEF Unheard
  <2>1. CASE up'[k] = up[k]
    BY <1>2, <2>1, <2>i
  <2>2. CASE up'[k] = <<>>
    BY <1>2, <2>2
  <2>3. CASE up[k] # <<>> /\ up'[k] = Tail(up[k])
    BY <1>t, <1>2, <2>3, <2>i, QueueHead
  <2>4. ASSUME NEW f \in Frame, f.by # v, up'[k] = Append(up[k], f) PROVE up'[k][i].by # v
    <3>1. \/ i \in 1..Len(up[k]) /\ up'[k][i] = up[k][i]
          \/ up'[k][i] = f
      BY <1>t, <1>2, <2>4, QueueMore
    <3> QED
      BY <2>i, <2>4, <3>1
  <2>5. ASSUME NEW r \in Request, Answers(v, r) PROVE FALSE
    BY <2>5 DEF Answers, Unheard
  <2> QED
    BY <2>1, <2>2, <2>3, <2>4, <2>5, UpOf
<1>3. ASSUME NEW r \in Request PROVE job'[v][r].pc = "none"
  <2>1. job[v][r].pc = "none" /\ \A k \in Link : sessions[k][SessionOf[v]] # v
    BY DEF Unheard
  <2>2. \/ job'[v][r] = job[v][r]
        \/ job[v][r].pc = "running"
        \/ job[v][r].pc = "sealed"
        \/ \E k \in Link : sessions[k][SessionOf[v]] = v
    BY <1>o, JobMoves
  <2> QED
    BY <2>1, <2>2
<1>4. inbound'[v] = <<>>
  <2>1. inbound[v] = <<>>
    BY DEF Unheard
  <2>2. ASSUME NEW k \in Link, HubReturns(k), up[k] # <<>>,
               clients[SessionOf[FirstUp(k).by]] = v
        PROVE  FALSE
    <3>1. FirstUp(k).by \in Visit /\ SessionOf[FirstUp(k).by] \in Session
      BY <2>2, Returned
    <3>2. FirstUp(k).by = v
      BY <1>o, <2>2, <3>1
    <3>3. 1 \in 1..Len(up[k])
      BY <1>t, <2>2, QueueHead
    <3> QED
      BY <3>2, <3>3 DEF FirstUp, Unheard
  <2> QED
    BY <1>o, <2>1, <2>2, InboundMoves
<1>5. visit'[v].pc # "secure"
  <2>1. visit[v].pc # "secure" /\ ~ClientReceives(v)
    BY DEF Unheard, ClientReceives
  <2> QED
    BY <1>o, <2>1, VisitMoves
<1> QED
  BY <1>1, <1>2, <1>3, <1>4, <1>5 DEF Unheard

\* What the Node has not read it has not read after a step, but for what it reads.
LEMMA UnreadStep ==
  ASSUME TunnelTypeOK, RegistryInv, FrameInv, [TunnelNext]_yvars, NEW v \in OwnTicket,
         NEW n \in 0..MaxRequests, Unread(v, n), \A k \in Link : ~Reads(v, n, k)
  PROVE  Unread(v, n)'
<1>o. v \in Visit
  BY OwnSession
<1>1. n <= visit'[v].sent
  <2>1. n <= visit[v].sent /\ visit[v].sent \in 0..MaxRequests /\ MaxRequests \in Nat
    BY <1>o, TunnelAssumption DEF Unread, TunnelTypeOK
  <2>2. visit'[v].sent = visit[v].sent \/ visit'[v].sent = visit[v].sent + 1
    BY <1>o, VisitMoves
  <2> QED
    BY <2>1, <2>2
<1>2. ASSUME n = 0 PROVE Unheard(v)'
  <2>1. Unheard(v)
    BY <1>2 DEF Unread
  <2>2. ASSUME NEW k \in Link, Accepts(v, k) PROVE FALSE
    <3>1. down[k] # <<>> /\ down[k] \in Seq(Frame)
      BY <2>2, Received DEF Accepts, TunnelTypeOK
    <3>2. 1 \in 1..Len(down[k])
      BY <3>1, QueueHead
    <3>3. FirstDown(k).number = 0
      BY <2>2, <3>2 DEF Accepts, FirstDown, FrameInv, Asking
    <3>4. Reads(v, n, k)
      BY <1>2, <2>2, <3>3 DEF Accepts, Reads
    <3> QED
      BY <3>4
  <2> QED
    BY <2>1, <2>2, UnheardStep
<1>3. ASSUME n > 0 PROVE job'[v][n].pc = "none"
  <2>1. n \in Request /\ job[v][n].pc = "none"
    BY <1>3, TunnelAssumption DEF Unread, Request
  <2>2. \/ job'[v][n] = job[v][n]
        \/ job[v][n].pc = "running"
        \/ job[v][n].pc = "sealed"
        \/ \E k \in Link : Reads(v, n, k)
    BY <1>o, <2>1, JobMoves
  <2> QED
    BY <2>1, <2>2
<1> QED
  BY <1>1, <1>2, <1>3 DEF Unread

\* What the Node reads of a client is on its link.
LEMMA ReadsHead ==
  ASSUME TunnelTypeOK, NEW v \in Visit, NEW n, NEW k \in Link, Reads(v, n, k)
  PROVE  /\ IsUp(k) /\ Coming(v, k, 1) /\ 1 \in 1..Len(down[k]) /\ down[k][1].number = n
         /\ outbound' = outbound /\ down[k] # <<>> /\ down'[k] = Tail(down[k])
         /\ \A m \in Link : m # k => down'[m] = down[m]
<1>1. /\ IsUp(k) /\ down[k] # <<>> /\ outbound' = outbound /\ down'[k] = Tail(down[k])
      /\ \A m \in Link : m # k => down'[m] = down[m]
  BY Received DEF Reads
<1>2. 1 \in 1..Len(down[k])
  BY <1>1, QueueHead DEF TunnelTypeOK
<1> QED
  BY <1>1, <1>2 DEF Reads, Coming, FirstDown

\* Where a frame that is on a link after a step was before.
LEMMA ComingFrom ==
  ASSUME TunnelTypeOK, LinkInv, FrameInv, [TunnelNext]_yvars, NEW v \in Visit, NEW k \in Link,
         NEW i \in 1..Len(down'[k]), Coming(v, k, i)'
  PROVE  \/ \E j \in 1..Len(down[k]) : Coming(v, k, j) /\ down'[k][i] = down[k][j]
         \/ /\ HubForwards(v) /\ outbound[v] # <<>> /\ 1 \in 1..Len(outbound[v])
            /\ outbound'[v] = Tail(outbound[v]) /\ down'[k][i] = outbound[v][1]
<1>t. down[k] \in Seq(Frame) /\ outbound[v] \in Seq(Frame)
  BY DEF TunnelTypeOK
<1>c. down'[k][i].by = v /\ down'[k][i].kind # "reset"
  BY DEF Coming
<1>0. ASSUME NEW j \in 1..Len(down[k]), down'[k][i] = down[k][j]
      PROVE  \E l \in 1..Len(down[k]) : Coming(v, k, l) /\ down'[k][i] = down[k][l]
  BY <1>0, <1>c DEF Coming
<1>1. CASE down'[k] = down[k]
  BY <1>0, <1>1
<1>2. CASE down'[k] = <<>>
  BY <1>2
<1>3. CASE down[k] # <<>> /\ down'[k] = Tail(down[k])
  <2>1. i + 1 \in 1..Len(down[k]) /\ down'[k][i] = down[k][i + 1]
    BY <1>t, <1>3, QueueHead
  <2> QED
    BY <1>0, <2>1
<1>4. ASSUME NEW f \in Frame, down'[k] = Append(down[k], f), down'[k][i] # f
      PROVE  \E l \in 1..Len(down[k]) : Coming(v, k, l) /\ down'[k][i] = down[k][l]
  <2>1. i \in 1..Len(down[k]) /\ down'[k][i] = down[k][i]
    BY <1>t, <1>4, QueueMore
  <2> QED
    BY <1>0, <2>1
<1>5. CASE /\ HubForwards(v) /\ outbound[v] # <<>> /\ outbound[v][1] \in Frame
           /\ outbound'[v] = Tail(outbound[v])
           /\ down'[k] = Append(down[k], outbound[v][1])
  <2>1. 1 \in 1..Len(outbound[v])
    BY <1>t, <1>5, QueueHead
  <2> QED
    BY <1>4, <1>5, <2>1
<1>6. CASE \E f \in Frame : (f.by # v \/ f.kind = "reset") /\ down'[k] = Append(down[k], f)
  BY <1>4, <1>6, <1>c
<1> QED
  BY <1>1, <1>2, <1>3, <1>5, <1>6, DownOf

\* Where a frame of a client was before a step.
LEMMA OutboundFrom ==
  ASSUME TunnelTypeOK, [TunnelNext]_yvars, NEW v \in Visit, NEW i \in 1..Len(outbound'[v])
  PROVE  \/ \E j \in 1..Len(outbound[v]) : outbound'[v][i] = outbound[v][j]
         \/ /\ ClientConnects(v) /\ visit[v].pc = "idle" /\ down' = down
            /\ outbound'[v][i].number = 0
         \/ /\ ClientAsks(v) /\ visit[v].pc = "secure" /\ down' = down
            /\ visit'[v].sent = visit[v].sent + 1
            /\ outbound'[v][i].number = visit[v].sent + 1
<1>t. outbound[v] \in Seq(Frame)
  BY DEF TunnelTypeOK
<1>1. CASE outbound'[v] = outbound[v]
  BY <1>1
<1>2. CASE outbound[v] # <<>> /\ outbound'[v] = Tail(outbound[v])
  BY <1>t, <1>2, QueueHead
<1>3. CASE outbound'[v] = <<>>
  BY <1>3
<1>4. CASE /\ ClientConnects(v) /\ visit[v].pc = "idle" /\ down' = down
           /\ outbound'[v] = <<Packet("hello", v, 0)>>
  <2>1. i = 1
    BY <1>4
  <2>2. outbound'[v][i].number = 0
    BY <1>4, <2>1 DEF Packet
  <2> QED
    BY <1>4, <2>2
<1>5. CASE /\ ClientAsks(v) /\ visit[v].pc = "secure" /\ down' = down
           /\ visit[v].sent + 1 \in 0..MaxRequests /\ visit[v].sent + 1 # 0
           /\ visit'[v].sent = visit[v].sent + 1
           /\ outbound'[v] = Append(outbound[v], Packet("request", v, visit[v].sent + 1))
  <2> DEFINE f == Packet("request", v, visit[v].sent + 1)
  <2>1. f \in Frame /\ f.number = visit[v].sent + 1 /\ outbound'[v] = Append(outbound[v], f)
    BY <1>5, PacketFrame
  <2> HIDE DEF f
  <2>2. \/ i \in 1..Len(outbound[v]) /\ outbound'[v][i] = outbound[v][i]
        \/ outbound'[v][i] = f
    BY <1>t, <2>1, QueueMore
  <2> QED
    BY <1>5, <2>1, <2>2
<1> QED
  BY <1>1, <1>2, <1>3, <1>4, <1>5, OutboundOf

\* What is under way after a step the Node has not read.
LEMMA AskUnread ==
  ASSUME TunnelTypeOK, LinkInv, RegistryInv, FrameInv, [TunnelNext]_yvars, NEW v \in OwnTicket,
         AskInv(v), NEW n \in 0..MaxRequests
  PROVE  /\ \A i \in 1..Len(outbound'[v]) : outbound'[v][i].number = n => Unread(v, n)'
         /\ \A k \in Link : \A i \in 1..Len(down'[k]) :
               Coming(v, k, i)' /\ down'[k][i].number = n => Unread(v, n)'
<1>o. v \in Visit
  BY OwnSession
<1>t. /\ outbound[v] \in Seq(Frame) /\ visit[v].sent \in 0..MaxRequests
      /\ \A k \in Link : down[k] \in Seq(Frame)
  BY <1>o DEF TunnelTypeOK
<1>1. ASSUME NEW i \in 1..Len(outbound'[v]), outbound'[v][i].number = n PROVE Unread(v, n)'
  <2>1. ASSUME NEW k \in Link, Reads(v, n, k) PROVE FALSE
    <3>1. Coming(v, k, 1) /\ down[k][1].number = n /\ outbound' = outbound /\ 1 \in 1..Len(down[k])
      BY <1>o, <2>1, ReadsHead
    <3> QED
      BY <1>1, <3>1 DEF AskInv
  <2>2. ASSUME NEW j \in 1..Len(outbound[v]), outbound'[v][i] = outbound[v][j]
        PROVE  Unread(v, n)'
    <3>1. Unread(v, n)
      BY <1>1, <2>2 DEF AskInv
    <3> QED
      BY <2>1, <3>1, UnreadStep
  <2>3. ASSUME visit[v].pc = "idle", n = 0 PROVE Unread(v, n)'
    <3>1. Unread(v, n)
      BY <1>t, <2>3, TunnelAssumption DEF AskInv, Unread
    <3> QED
      BY <2>1, <3>1, UnreadStep
  <2>4. ASSUME visit'[v].sent = visit[v].sent + 1, n = visit[v].sent + 1 PROVE Unread(v, n)'
    <3>1. n \in Request /\ n > 0 /\ ~(n <= visit[v].sent) /\ n <= visit'[v].sent
      BY <1>t, <2>4, TunnelAssumption DEF Request
    <3>2. job[v][n].pc = "none"
      BY <3>1 DEF AskInv
    <3>3. job'[v][n].pc = "none"
      <4>1. \/ job'[v][n] = job[v][n]
            \/ job[v][n].pc = "running"
            \/ job[v][n].pc = "sealed"
            \/ \E k \in Link : Reads(v, n, k)
        BY <1>o, <3>1, JobMoves
      <4> QED
        BY <2>1, <3>2, <4>1
    <3> QED
      BY <3>1, <3>3 DEF Unread
  <2> QED
    BY <1>o, <1>1, <2>2, <2>3, <2>4, OutboundFrom
<1>2. ASSUME NEW k \in Link, NEW i \in 1..Len(down'[k]), Coming(v, k, i)',
             down'[k][i].number = n
      PROVE  Unread(v, n)'
  <2>1. ASSUME NEW m \in Link, Reads(v, n, m) PROVE FALSE
    <3>1. /\ IsUp(m) /\ Coming(v, m, 1) /\ down[m][1].number = n /\ 1 \in 1..Len(down[m])
          /\ down[m] # <<>> /\ down'[m] = Tail(down[m])
          /\ m # k => down'[k] = down[k]
      BY <1>o, <2>1, ReadsHead
    <3>2. CASE m # k
      <4>1. ~IsUp(k)
        BY <3>1, <3>2 DEF LinkInv
      <4>2. down'[k] = <<>>
        BY <3>1, <3>2, <4>1 DEF LinkInv
      <4> QED
        BY <1>2, <4>2
    <3>3. CASE m = k
      <4>0. /\ down[k] # <<>> /\ down'[k] = Tail(down[k]) /\ i \in 1..Len(Tail(down[k]))
            /\ down[k] \in Seq(Frame)
        BY <1>t, <1>2, <3>1, <3>3
      <4>5. i + 1 \in 1..Len(down[k]) /\ down'[k][i] = down[k][i + 1] /\ i \in Nat
        BY <4>0, QueueHead
      <4>1. i + 1 \in 1..Len(down[k]) /\ down'[k][i] = down[k][i + 1] /\ i + 1 # 1
        BY <1>2, <4>5
      <4>2. Coming(v, k, i + 1) /\ down[k][i + 1].number = n
        BY <1>2, <4>1 DEF Coming
      <4>3. i + 1 = 1
        BY <3>1, <3>3, <4>1, <4>2 DEF AskInv
      <4> QED
        BY <4>1, <4>3
    <3> QED
      BY <3>2, <3>3
  <2>2. Unread(v, n)
    <3>1. CASE \E j \in 1..Len(down[k]) : Coming(v, k, j) /\ down'[k][i] = down[k][j]
      BY <1>2, <3>1 DEF AskInv
    <3>2. CASE 1 \in 1..Len(outbound[v]) /\ down'[k][i] = outbound[v][1]
      BY <1>2, <3>2 DEF AskInv
    <3> QED
      BY <1>o, <1>2, <3>1, <3>2, ComingFrom
  <2> QED
    BY <2>1, <2>2, UnreadStep
<1> QED
  BY <1>1, <1>2

\* Nothing is under way twice after a step.
LEMMA AskOnce ==
  ASSUME TunnelTypeOK, LinkInv, FrameInv, [TunnelNext]_yvars, NEW v \in Visit, AskInv(v)
  PROVE  /\ \A i, j \in 1..Len(outbound'[v]) :
               outbound'[v][i].number = outbound'[v][j].number => i = j
         /\ \A k \in Link : \A i, j \in 1..Len(down'[k]) :
               Coming(v, k, i)' /\ Coming(v, k, j)' /\ down'[k][i].number = down'[k][j].number
                  => i = j
         /\ \A k \in Link : \A i \in 1..Len(outbound'[v]), j \in 1..Len(down'[k]) :
               Coming(v, k, j)' => outbound'[v][i].number # down'[k][j].number
<1>t. /\ outbound[v] \in Seq(Frame) /\ visit[v].sent \in 0..MaxRequests
      /\ \A k \in Link : down[k] \in Seq(Frame)
  BY DEF TunnelTypeOK
<1>c. \A i, j \in 1..Len(outbound[v]) : outbound[v][i].number = outbound[v][j].number => i = j
  BY DEF AskInv
<1>d. \A k \in Link : \A i, j \in 1..Len(down[k]) :
          Coming(v, k, i) /\ Coming(v, k, j) /\ down[k][i].number = down[k][j].number => i = j
  BY DEF AskInv
<1>e. \A k \in Link : \A i \in 1..Len(outbound[v]), j \in 1..Len(down[k]) :
          Coming(v, k, j) => outbound[v][i].number # down[k][j].number
  BY DEF AskInv
<1>s. /\ \A i \in 1..Len(outbound[v]) : outbound[v][i].number <= visit[v].sent
      /\ \A k \in Link : \A i \in 1..Len(down[k]) :
            Coming(v, k, i) => down[k][i].number <= visit[v].sent
  BY DEF AskInv, Unread
<1>1. ASSUME NEW i \in 1..Len(outbound'[v]), NEW j \in 1..Len(outbound'[v]),
             outbound'[v][i].number = outbound'[v][j].number
      PROVE  i = j
  <2>1. CASE outbound'[v] = outbound[v]
    BY <1>1, <1>c, <2>1
  <2>2. CASE outbound[v] # <<>> /\ outbound'[v] = Tail(outbound[v])
    <3>1. /\ i \in Nat /\ i + 1 \in 1..Len(outbound[v]) /\ outbound'[v][i] = outbound[v][i + 1]
          /\ j \in Nat /\ j + 1 \in 1..Len(outbound[v]) /\ outbound'[v][j] = outbound[v][j + 1]
      BY <1>t, <1>1, <2>2, QueueHead
    <3>2. i + 1 = j + 1
      BY <1>1, <1>c, <3>1
    <3> QED
      BY <3>1, <3>2
  <2>3. CASE outbound'[v] = <<>>
    BY <1>1, <2>3
  <2>4. CASE outbound'[v] = <<Packet("hello", v, 0)>>
    BY <1>1, <2>4
  <2>5. CASE /\ visit[v].sent + 1 \in 0..MaxRequests /\ visit[v].sent + 1 # 0
             /\ outbound'[v] = Append(outbound[v], Packet("request", v, visit[v].sent + 1))
    <3> DEFINE f == Packet("request", v, visit[v].sent + 1)
    <3>1. f \in Frame /\ f.number = visit[v].sent + 1 /\ outbound'[v] = Append(outbound[v], f)
      BY <2>5, PacketFrame
    <3> HIDE DEF f
    <3>2. /\ \/ i \in 1..Len(outbound[v]) /\ outbound'[v][i] = outbound[v][i]
             \/ i = Len(outbound[v]) + 1 /\ outbound'[v][i] = f
          /\ \/ j \in 1..Len(outbound[v]) /\ outbound'[v][j] = outbound[v][j]
             \/ j = Len(outbound[v]) + 1 /\ outbound'[v][j] = f
      BY <1>t, <1>1, <3>1, QueueMore
    <3>3. \A l \in 1..Len(outbound[v]) : outbound[v][l].number # f.number
      <4>1. ASSUME NEW l \in 1..Len(outbound[v]) PROVE outbound[v][l].number # f.number
        <5>1. outbound[v][l].number <= visit[v].sent /\ outbound[v][l].number \in 0..MaxRequests
          BY <1>s, <1>t, QueueFrames
        <5> QED
          BY <1>t, <3>1, <5>1, TunnelAssumption
      <4> QED
        BY <4>1
    <3> QED
      BY <1>1, <1>c, <3>2, <3>3
  <2> QED
    BY <2>1, <2>2, <2>3, <2>4, <2>5, OutboundOf
<1>2. ASSUME NEW k \in Link, NEW i \in 1..Len(down'[k]), NEW j \in 1..Len(down'[k]),
             Coming(v, k, i)', Coming(v, k, j)', down'[k][i].number = down'[k][j].number
      PROVE  i = j
  <2>0. /\ down'[k][i].by = v /\ down'[k][i].kind # "reset"
        /\ down'[k][j].by = v /\ down'[k][j].kind # "reset"
    BY <1>2 DEF Coming
  <2>1. CASE down'[k] = down[k]
    BY <1>2, <1>d, <2>0, <2>1 DEF Coming
  <2>2. CASE down[k] # <<>> /\ down'[k] = Tail(down[k])
    <3>1. /\ i \in Nat /\ i + 1 \in 1..Len(down[k]) /\ down'[k][i] = down[k][i + 1]
          /\ j \in Nat /\ j + 1 \in 1..Len(down[k]) /\ down'[k][j] = down[k][j + 1]
      BY <1>t, <1>2, <2>2, QueueHead
    <3>2. Coming(v, k, i + 1) /\ Coming(v, k, j + 1)
      BY <2>0, <3>1 DEF Coming
    <3>3. i + 1 = j + 1
      BY <1>2, <1>d, <3>1, <3>2
    <3> QED
      BY <3>1, <3>3
  <2>3. CASE down'[k] = <<>>
    BY <1>2, <2>3
  <2>4. ASSUME NEW f \in Frame, down'[k] = Append(down[k], f),
               \A l \in 1..Len(down[k]) :
                  Coming(v, k, l) /\ f.by = v /\ f.kind # "reset" => down[k][l].number # f.number
        PROVE  i = j
    <3>1. /\ \/ i \in 1..Len(down[k]) /\ down'[k][i] = down[k][i]
             \/ i = Len(down[k]) + 1 /\ down'[k][i] = f
          /\ \/ j \in 1..Len(down[k]) /\ down'[k][j] = down[k][j]
             \/ j = Len(down[k]) + 1 /\ down'[k][j] = f
      BY <1>t, <1>2, <2>4, QueueMore
    <3>2. /\ i \in 1..Len(down[k]) => Coming(v, k, i)
          /\ j \in 1..Len(down[k]) => Coming(v, k, j)
      <4>1. Len(down[k]) \in Nat /\ Len(down[k]) + 1 \notin 1..Len(down[k])
        BY <1>t
      <4> QED
        BY <2>0, <3>1, <4>1 DEF Coming
    <3> QED
      BY <1>2, <1>d, <2>0, <2>4, <3>1, <3>2
  <2>5. CASE \E f \in Frame : (f.by # v \/ f.kind = "reset") /\ down'[k] = Append(down[k], f)
    BY <2>4, <2>5
  <2>6. CASE /\ outbound[v] # <<>> /\ outbound[v][1] \in Frame
             /\ down'[k] = Append(down[k], outbound[v][1])
    <3>1. 1 \in 1..Len(outbound[v])
      BY <1>t, <2>6, QueueHead
    <3> QED
      BY <1>e, <2>4, <2>6, <3>1
  <2> QED
    BY <2>1, <2>2, <2>3, <2>5, <2>6, DownOf
<1>3. ASSUME NEW k \in Link, NEW i \in 1..Len(outbound'[v]), NEW j \in 1..Len(down'[k]),
             Coming(v, k, j)', outbound'[v][i].number = down'[k][j].number
      PROVE  FALSE
  <2>1. CASE /\ outbound[v] # <<>> /\ 1 \in 1..Len(outbound[v])
             /\ outbound'[v] = Tail(outbound[v]) /\ down'[k][j] = outbound[v][1]
    <3>1. i \in Nat /\ i + 1 \in 1..Len(outbound[v]) /\ outbound'[v][i] = outbound[v][i + 1]
      BY <1>t, <1>3, <2>1, QueueHead
    <3>2. i + 1 = 1
      BY <1>3, <1>c, <2>1, <3>1
    <3> QED
      BY <3>1, <3>2
  <2>2. ASSUME NEW l \in 1..Len(down[k]), Coming(v, k, l), down'[k][j] = down[k][l] PROVE FALSE
    <3>1. ~ \E m \in 1..Len(outbound[v]) : outbound'[v][i] = outbound[v][m]
      BY <1>3, <1>e, <2>2
    <3>2. visit[v].pc # "idle"
      BY <2>2 DEF AskInv
    <3>3. outbound'[v][i].number # visit[v].sent + 1
      <4>1. down[k][l].number <= visit[v].sent /\ down[k][l].number \in 0..MaxRequests
        BY <1>s, <1>t, <2>2, QueueFrames
      <4> QED
        BY <1>3, <1>t, <2>2, <4>1, TunnelAssumption
    <3> QED
      BY <1>3, <3>1, <3>2, <3>3, OutboundFrom
  <2> QED
    BY <1>3, <2>1, <2>2, ComingFrom
<1> QED
  BY <1>1, <1>2, <1>3

\* What the client has asked for, and that it starts with nothing.
LEMMA AskSent ==
  ASSUME TunnelTypeOK, LinkInv, RegistryInv, FrameInv, [TunnelNext]_yvars, NEW v \in OwnTicket,
         AskInv(v)
  PROVE  /\ \A r \in Request : job'[v][r].pc # "none" => r <= visit'[v].sent
         /\ visit'[v].pc = "idle" =>
               /\ Unheard(v)' /\ outbound'[v] = <<>>
               /\ \A k \in Link : \A i \in 1..Len(down'[k]) : ~Coming(v, k, i)'
         /\ visit'[v].pc \in {"idle", "ready"} => visit'[v].read = 0 /\ visit'[v].sent = 0
<1>o. v \in Visit
  BY OwnSession
<1>t. outbound[v] \in Seq(Frame) /\ visit[v].sent \in 0..MaxRequests /\ visit \in VisitRows
  BY <1>o DEF TunnelTypeOK, VisitRows
<1>s. /\ visit'[v].sent = visit[v].sent \/ visit'[v].sent = visit[v].sent + 1
      /\ visit'[v].sent \in Int
  BY <1>o, <1>t, VisitMoves, TunnelAssumption
<1>1. ASSUME NEW r \in Request, job'[v][r].pc # "none" PROVE r <= visit'[v].sent
  <2>1. r <= visit[v].sent
    <3>1. CASE job[v][r].pc # "none"
      BY <3>1 DEF AskInv
    <3>2. ASSUME job[v][r].pc = "none", NEW k \in Link, Reads(v, r, k) PROVE r <= visit[v].sent
      <4>1. Coming(v, k, 1) /\ 1 \in 1..Len(down[k]) /\ down[k][1].number = r
        BY <1>o, <3>2, ReadsHead
      <4> QED
        BY <4>1 DEF AskInv, Unread
    <3>3. \/ job'[v][r] = job[v][r]
          \/ job[v][r].pc = "running"
          \/ job[v][r].pc = "sealed"
          \/ \E k \in Link : Reads(v, r, k)
      BY <1>o, JobMoves
    <3>4. CASE job[v][r].pc = "none"
      BY <1>1, <3>2, <3>3, <3>4
    <3> QED
      BY <3>1, <3>4
  <2> QED
    BY <1>s, <1>t, <2>1, TunnelAssumption DEF Request
<1>2. ASSUME visit'[v].pc = "idle"
      PROVE  /\ Unheard(v)' /\ outbound'[v] = <<>>
             /\ \A k \in Link : \A i \in 1..Len(down'[k]) : ~Coming(v, k, i)'
             /\ visit'[v].read = 0 /\ visit'[v].sent = 0
  <2>1. visit'[v] = visit[v] /\ visit[v].pc = "idle"
    BY <1>o, <1>2, VisitMoves
  <2>2. /\ Unheard(v) /\ outbound[v] = <<>>
        /\ \A k \in Link : \A i \in 1..Len(down[k]) : ~Coming(v, k, i)
        /\ visit'[v].read = 0 /\ visit'[v].sent = 0
    BY <2>1 DEF AskInv
  <2>3. ~ClientConnects(v)
    <3>1. ASSUME ClientConnects(v) PROVE FALSE
      <4>1. visit' = [visit EXCEPT ![v].pc = "ready"] \/ visit' = [visit EXCEPT ![v].pc = "closed"]
        BY <3>1 DEF ClientConnects, Closed
      <4> QED
        BY <1>o, <1>t, <1>2, <4>1 DEF VisitRows
    <3> QED
      BY <3>1
  <2>4. outbound'[v] = <<>>
    BY <1>o, <2>1, <2>2, <2>3, OutboundOf
  <2>5. \A k \in Link : \A i \in 1..Len(down'[k]) : ~Coming(v, k, i)'
    BY <1>o, <2>2, ComingFrom
  <2>6. Unheard(v)'
    <3>1. ASSUME NEW k \in Link, Accepts(v, k) PROVE FALSE
      <4>1. Reads(v, FirstDown(k).number, k)
        BY <3>1 DEF Accepts, Reads
      <4>2. Coming(v, k, 1) /\ 1 \in 1..Len(down[k])
        BY <1>o, <4>1, ReadsHead
      <4> QED
        BY <2>2, <4>2
    <3> QED
      BY <2>2, <3>1, UnheardStep
  <2> QED
    BY <2>2, <2>4, <2>5, <2>6
<1>3. ASSUME visit'[v].pc = "ready" PROVE visit'[v].read = 0 /\ visit'[v].sent = 0
  <2>1. /\ visit'[v].read = visit[v].read /\ visit'[v].sent = visit[v].sent
        /\ visit[v].pc \in {"idle", "ready"}
    BY <1>o, <1>3, VisitMoves
  <2> QED
    BY <2>1 DEF AskInv
<1> QED
  BY <1>1, <1>2, <1>3

LEMMA AskStep ==
  ASSUME TunnelTypeOK, LinkInv, RegistryInv, FrameInv, [TunnelNext]_yvars, NEW v \in OwnTicket,
         AskInv(v)
  PROVE  AskInv(v)'
<1>o. v \in Visit
  BY OwnSession
<1>t. outbound' \in [Visit -> Seq(Frame)] /\ down' \in [Link -> Seq(Frame)]
  BY TunnelTypeStep DEF TunnelTypeOK
<1>1. ASSUME NEW i \in 1..Len(outbound'[v]), NEW n, n = outbound'[v][i].number
      PROVE  Unread(v, n)'
  <2>1. n \in 0..MaxRequests
    BY <1>1, <1>o, <1>t, QueueFrames
  <2> QED
    BY <1>1, <2>1, AskUnread
<1>2. ASSUME NEW k \in Link, NEW i \in 1..Len(down'[k]), Coming(v, k, i)', NEW n,
             n = down'[k][i].number
      PROVE  Unread(v, n)'
  <2>1. n \in 0..MaxRequests
    BY <1>2, <1>t, QueueFrames
  <2> QED
    BY <1>2, <2>1, AskUnread
<1>3. /\ \A i \in 1..Len(outbound'[v]) : \A n : n = outbound'[v][i].number => Unread(v, n)'
      /\ \A k \in Link : \A i \in 1..Len(down'[k]) :
            Coming(v, k, i)' => \A n : n = down'[k][i].number => Unread(v, n)'
  BY <1>1, <1>2
<1>4. /\ \A i, j \in 1..Len(outbound'[v]) :
               outbound'[v][i].number = outbound'[v][j].number => i = j
      /\ \A k \in Link : \A i, j \in 1..Len(down'[k]) :
               Coming(v, k, i)' /\ Coming(v, k, j)' /\ down'[k][i].number = down'[k][j].number
                  => i = j
      /\ \A k \in Link : \A i \in 1..Len(outbound'[v]), j \in 1..Len(down'[k]) :
               Coming(v, k, j)' => outbound'[v][i].number # down'[k][j].number
  BY <1>o, AskOnce
<1>5. /\ \A r \in Request : job'[v][r].pc # "none" => r <= visit'[v].sent
      /\ visit'[v].pc = "idle" =>
               /\ Unheard(v)' /\ outbound'[v] = <<>>
               /\ \A k \in Link : \A i \in 1..Len(down'[k]) : ~Coming(v, k, i)'
      /\ visit'[v].pc \in {"idle", "ready"} => visit'[v].read = 0 /\ visit'[v].sent = 0
  BY AskSent
<1>6. /\ \A i \in 1..Len(outbound'[v]) : Unread(v, outbound[v][i].number)'
      /\ \A k \in Link : \A i \in 1..Len(down'[k]) :
            Coming(v, k, i)' => Unread(v, down[k][i].number)'
  BY <1>3 DEF Unread
<1> QED
  BY <1>4, <1>5, <1>6 DEF AskInv

\* What the Node has sent by a step.
LEMMA TopMoves ==
  ASSUME TunnelTypeOK, [TunnelNext]_yvars, NEW v \in Visit, AskInv(v)
  PROVE  /\ Top(v) \in Nat
         /\ \A r \in Request : Answers(v, r) => Top(v)' = Top(v) + 1
         /\ (\A r \in Request : ~Answers(v, r)) => Top(v)' = Top(v)
<1> DEFINE J == Jobs(v, {"sent"})
<1>1. J \subseteq Request
  BY DEF Jobs
<1>2. IsFiniteSet(J) /\ Cardinality(J) \in Nat
  <2>1. IsFiniteSet(Request)
    BY TunnelAssumption, FS_Interval DEF Request
  <2>2. IsFiniteSet(J)
    BY <1>1, <2>1, FS_Subset
  <2> QED
    BY <2>2, FS_CardinalityType
<1>3. ASSUME NEW r \in Request, Answers(v, r) PROVE Top(v)' = Top(v) + 1
  <2>1. /\ job[v][r].pc = "sealed" /\ job'[v][r].pc = "sent"
        /\ \A q \in Request : q # r => job'[v][q] = job[v][q]
    BY <1>3, AnsweredJob
  <2>2. J' = J \cup {r} /\ r \notin J
    BY <2>1 DEF Jobs
  <2>3. Cardinality(J') = Cardinality(J) + 1
    BY <1>2, <2>2, FS_AddElement
  <2> QED
    BY <2>3 DEF Top
<1>4. ASSUME \A r \in Request : ~Answers(v, r) PROVE Top(v)' = Top(v)
  <2>1. ASSUME NEW r \in Request PROVE job'[v][r].pc = "sent" <=> job[v][r].pc = "sent"
    <3>1. \/ job'[v][r] = job[v][r]
          \/ job[v][r].pc = "running" /\ job'[v][r].pc = "sealed"
          \/ \E k \in Link : /\ Reads(v, r, k) /\ FirstDown(k).kind = "request"
                             /\ sessions[k][SessionOf[v]] = v /\ job'[v][r].pc = "running"
      BY <1>4, JobMoves
    <3>2. ASSUME NEW k \in Link, Reads(v, r, k) PROVE job[v][r].pc = "none"
      <4>1. Coming(v, k, 1) /\ 1 \in 1..Len(down[k]) /\ down[k][1].number = r /\ r > 0
        BY <3>2, ReadsHead DEF Request
      <4> QED
        BY <4>1 DEF AskInv, Unread
    <3> QED
      BY <3>1, <3>2
  <2>2. J' = J
    BY <2>1 DEF Jobs
  <2> QED
    BY <2>2 DEF Top
<1> QED
  BY <1>2, <1>3, <1>4 DEF Top

\* The Node seals an answer at a time, with the next number.
LEMMA SealStep ==
  ASSUME TunnelTypeOK, [TunnelNext]_yvars, NEW v \in Visit, AskInv(v), SealInv(v)
  PROVE  SealInv(v)'
<1>n. Top(v) \in Nat
  BY TopMoves
<1>1. ASSUME NEW r \in Request, Seals(v, r) PROVE SealInv(v)'
  <2>1. /\ SendLockFree(v) /\ job'[v][r].number = Cardinality(Jobs(v, {"sealed", "sent"})) + 1
        /\ \A q \in Request : q # r => job'[v][q] = job[v][q]
        /\ job'[v][r].pc = "sealed"
    BY <1>1, Sealed
  <2>2. \A q \in Request : job[v][q].pc # "sealed"
    BY <2>1 DEF SendLockFree, Jobs
  <2>3. Jobs(v, {"sealed", "sent"}) = Jobs(v, {"sent"})
    BY <2>2 DEF Jobs
  <2>4. job'[v][r].number = Top(v) + 1
    BY <2>1, <2>3 DEF Top
  <2>5. \A q \in Request : ~Answers(v, q)
    BY <2>2 DEF Answers
  <2>6. Top(v)' = Top(v)
    BY <2>5, TopMoves
  <2> QED
    BY <2>1, <2>2, <2>4, <2>6 DEF SealInv
<1>2. ASSUME NEW r \in Request, Answers(v, r) PROVE SealInv(v)'
  <2>1. /\ job[v][r].pc = "sealed" /\ job'[v][r].pc = "sent"
        /\ \A q \in Request : q # r => job'[v][q] = job[v][q]
    BY <1>2, AnsweredJob
  <2>2. \A q \in Request : job[v][q].pc = "sealed" => q = r
    BY <2>1 DEF SealInv
  <2>3. \A q \in Request : job'[v][q].pc # "sealed"
    BY <2>1, <2>2
  <2> QED
    BY <2>3 DEF SealInv
<1>3. ASSUME \A r \in Request : ~Seals(v, r) /\ ~Answers(v, r) PROVE SealInv(v)'
  <2>1. Top(v)' = Top(v)
    BY <1>3, TopMoves
  <2>2. \A r \in Request : job'[v][r] = job[v][r] \/ job'[v][r].pc = "running"
    BY <1>3, JobMoves
  <2>3. ASSUME NEW r \in Request, job'[v][r].pc = "sealed"
        PROVE  /\ job'[v][r].number = Top(v)' + 1
               /\ \A q \in Request : job'[v][q].pc = "sealed" => q = r
    <3>1. job'[v][r] = job[v][r] /\ job[v][r].pc = "sealed"
      BY <2>2, <2>3
    <3>2. job'[v][r].number = Top(v)' + 1
      BY <2>1, <3>1 DEF SealInv
    <3> QED
      BY <2>2, <3>1, <3>2 DEF SealInv
  <2> QED
    BY <2>3 DEF SealInv
<1> QED
  BY <1>1, <1>2, <1>3

\* The hello of a client does not come again.
LEMMA HeardStep ==
  ASSUME TunnelTypeOK, LinkInv, FrameInv, [TunnelNext]_yvars, NEW v \in Visit,
         visit[v].pc # "idle", Heard(v)
  PROVE  Heard(v)'
<1>1. ASSUME NEW i \in 1..Len(outbound'[v]) PROVE outbound'[v][i].number # 0
  <2>1. visit[v].sent + 1 # 0
    BY TunnelAssumption DEF TunnelTypeOK
  <2>2. \A j \in 1..Len(outbound[v]) : outbound[v][j].number # 0
    BY DEF Heard
  <2> QED
    BY <1>1, <2>1, <2>2, OutboundFrom
<1>2. ASSUME NEW k \in Link, NEW i \in 1..Len(down'[k]), Coming(v, k, i)'
      PROVE  down'[k][i].number # 0
  BY <1>2, ComingFrom DEF Heard
<1> QED
  BY <1>1, <1>2 DEF Heard

\* Once the Node has taken a client up.
LEMMA HeardAfter ==
  ASSUME TunnelTypeOK, LinkInv, RegistryInv, FrameInv, [TunnelNext]_yvars, NEW v \in OwnTicket,
         AskInv(v), NEW k \in Link, Accepts(v, k)
  PROVE  Heard(v)'
<1>1. ~(Unread(v, 0)')
  BY DEF Accepts, Unread, Unheard
<1>2. 0 \in 0..MaxRequests
  BY TunnelAssumption
<1>3. /\ \A i \in 1..Len(outbound'[v]) : outbound'[v][i].number # 0
      /\ \A m \in Link : \A i \in 1..Len(down'[m]) : Coming(v, m, i)' => down'[m][i].number # 0
  BY <1>1, <1>2, AskUnread
<1> QED
  BY <1>3 DEF Heard

\* What a client has not read.
LEMMA InboundOf ==
  ASSUME TunnelTypeOK, RegistryInv, [TunnelNext]_yvars, NEW v \in OwnTicket
  PROVE  \/ inbound'[v] = inbound[v] /\ ~ClientReceives(v)
         \/ HandlerLeaves(v)
         \/ ClientReceives(v) /\ inbound[v] # <<>> /\ inbound'[v] = Tail(inbound[v])
         \/ \E k \in Link :
               /\ HubReturns(k) /\ up[k] # <<>> /\ FirstUp(k) \in Frame /\ FirstUp(k).by = v
               /\ inbound'[v] = Append(inbound[v], FirstUp(k)) /\ ~ClientReceives(v)
<1>o. /\ v \in Visit /\ \A w \in Visit : SessionOf[w] = SessionOf[v] => w = v
      /\ \A s \in Session : clients[s] = v => s = SessionOf[v]
  BY OwnSession
<1>t. inbound \in [Visit -> Seq(Frame)]
  BY DEF TunnelTypeOK
<1>1. ASSUME ClientReceives(v) PROVE inbound[v] # <<>> /\ inbound'[v] = Tail(inbound[v])
  BY <1>1, <1>o, <1>t DEF ClientReceives
<1>2. ASSUME NEW k \in Link, HubReturns(k), clients[SessionOf[FirstUp(k).by]] = v
      PROVE  FirstUp(k).by = v
  <2>1. FirstUp(k).by \in Visit /\ SessionOf[FirstUp(k).by] \in Session
    BY <1>2, Returned
  <2> QED
    BY <1>2, <1>o, <2>1
<1>3. CASE ClientReceives(v)
  BY <1>1, <1>3
<1>4. CASE ~ClientReceives(v)
  BY <1>2, <1>4, <1>o, InboundMoves
<1> QED
  BY <1>3, <1>4

\* A client that goes on was served before.
LEMMA LiveBefore ==
  ASSUME TunnelTypeOK, HandlerInv, [TunnelNext]_yvars, NEW v \in Visit,
         visit'[v].pc \in {"ready", "secure"}
  PROVE  \/ visit[v].pc = "idle" /\ visit'[v].pc = "ready" /\ ClientConnects(v)
         \/ /\ visit[v].pc \in {"ready", "secure"} /\ handler[v] = "serving" /\ ~HandlerLeaves(v)
<1>1. \/ visit[v].pc = "idle" /\ visit'[v].pc = "ready" /\ ClientConnects(v)
      \/ visit[v].pc \in {"ready", "secure"}
  BY VisitMoves
<1>2. ASSUME visit[v].pc \in {"ready", "secure"} PROVE handler[v] = "serving"
  <2>1. handler[v] \in {"none", "serving", "leaving", "over"}
    BY DEF TunnelTypeOK
  <2> QED
    BY <1>2, <2>1 DEF HandlerInv
<1> QED
  BY <1>1, <1>2 DEF HandlerLeaves

\* A client with a ticket of its own reads what it expects.
LEMMA ReadsExpected ==
  ASSUME TunnelTypeOK, FrameInv, NEW v \in Visit, AskInv(v), LiveInv(v), ClientReceives(v)
  PROVE  /\ garbled' = garbled /\ Expected(v)' = Expected(v) + 1
         /\ visit'[v].pc = "secure" /\ inbound[v] # <<>>
<1>t. visit \in VisitRows /\ inbound[v] \in Seq(Frame)
  BY DEF TunnelTypeOK, VisitRows
<1>1. /\ visit[v].pc \in {"ready", "secure"} /\ inbound[v] # <<>>
      /\ 1 \in 1..Len(inbound[v]) /\ Head(inbound[v]) = inbound[v][1]
  BY <1>t, QueueHead DEF ClientReceives
<1>2. /\ inbound[v][1].by = v /\ inbound[v][1].number = Expected(v) + 1 - 1
      /\ Answering(inbound[v][1])
  BY <1>1 DEF LiveInv, FrameInv
<1>r. visit[v].read \in Int
  BY <1>t, TunnelAssumption DEF VisitRows
<1>3. CASE visit[v].pc = "ready"
  <2>1. inbound[v][1].kind = "hello"
    BY <1>2, <1>3 DEF Expected, Answering
  <2>2. visit' = [visit EXCEPT ![v].pc = "secure"] /\ garbled' = garbled
    BY <1>1, <1>2, <1>3, <2>1 DEF ClientReceives
  <2>3. visit'[v].pc = "secure" /\ visit'[v].read = visit[v].read
    BY <1>t, <2>2 DEF VisitRows
  <2>4. visit[v].read = 0
    BY <1>3 DEF AskInv
  <2> QED
    BY <1>1, <1>3, <2>2, <2>3, <2>4 DEF Expected
<1>4. CASE visit[v].pc = "secure"
  <2>1. inbound[v][1].number = visit[v].read + 1
    BY <1>2, <1>4, <1>r DEF Expected
  <2>2. visit' = [visit EXCEPT ![v].read = @ + 1] /\ garbled' = garbled
    BY <1>1, <1>2, <1>4, <2>1 DEF ClientReceives
  <2>3. visit'[v].pc = "secure" /\ visit'[v].read = visit[v].read + 1
    BY <1>4, <1>t, <2>2 DEF VisitRows
  <2> QED
    BY <1>1, <1>4, <1>r, <2>2, <2>3 DEF Expected
<1> QED
  BY <1>1, <1>3, <1>4

\* What a client expects after a step in which it reads nothing.
LEMMA ExpectedKept ==
  ASSUME TunnelTypeOK, [TunnelNext]_yvars, NEW v \in Visit, ~ClientReceives(v),
         visit[v].pc \in {"ready", "secure"}, visit'[v].pc \in {"ready", "secure"}
  PROVE  Expected(v)' = Expected(v) /\ visit'[v].pc = visit[v].pc
<1>1. visit'[v].pc = visit[v].pc /\ visit'[v].read = visit[v].read
  BY VisitMoves
<1> QED
  BY <1>1 DEF Expected

\* The conjunct of LiveInv about what the client has not read.
Ahead(v) == \A i \in 1..Len(inbound[v]) :
               inbound[v][i].by = v /\ inbound[v][i].number = Expected(v) + i - 1

\* The numbers are numbers.
LEMMA Numbers ==
  ASSUME TunnelTypeOK, NEW v \in Visit, AskInv(v), [TunnelNext]_yvars
  PROVE  /\ Expected(v) \in Int /\ Due(v) \in Int /\ Top(v) \in Int
         /\ Len(inbound[v]) \in Nat
<1>1. visit[v].read \in Int /\ inbound[v] \in Seq(Frame)
  BY TunnelAssumption DEF TunnelTypeOK
<1>2. Len(inbound[v]) \in Nat /\ Expected(v) \in Int
  BY <1>1 DEF Expected
<1> QED
  BY <1>2, TopMoves DEF Due

\* A client that the Node takes up.
LEMMA LiveUnheard ==
  ASSUME TunnelTypeOK, LinkInv, RegistryInv, HandlerInv, FrameInv, [TunnelNext]_yvars,
         NEW v \in OwnTicket, AskInv(v), Unheard(v), visit'[v].pc \in {"ready", "secure"}
  PROVE  /\ Ahead(v)'
         /\ Unheard(v)' \/ (Heard(v)' /\ \E k \in Link : OnLink(v, k)')
<1>o. v \in Visit /\ SessionOf[v] \in Session /\ v # Nobody
  BY OwnSession
<1>1. CASE Unheard(v)'
  <2>1. inbound'[v] = <<>>
    BY <1>1 DEF Unheard
  <2> QED
    BY <1>1, <2>1 DEF Ahead
<1>2. ASSUME NEW k \in Link, Accepts(v, k)
      PROVE  Ahead(v)' /\ Heard(v)' /\ OnLink(v, k)'
  <2>1. /\ visit' = visit /\ inbound' = inbound /\ UNCHANGED job
        /\ up'[k] = Append(up[k], Packet("hello", v, 0))
        /\ sessions'[k][SessionOf[v]] = v
    BY <1>2, <1>o, Received DEF Accepts
  <2>2. inbound'[v] = <<>> /\ visit'[v].pc = "ready" /\ \A r \in Request : job'[v][r].pc = "none"
    BY <2>1 DEF Unheard
  <2>3. Expected(v)' = 0 /\ Due(v)' = 0
    BY <2>2 DEF Expected, Due
  <2>4. Top(v)' = 0
    <3>1. Jobs(v, {"sent"})' = {}
      BY <2>2 DEF Jobs
    <3> QED
      BY <3>1, FS_EmptySet DEF Top
  <2>5. Line(up'[k], v, 0, 0)
    <3> DEFINE f == Packet("hello", v, 0)
               n == 0 - 1
    <3>1. /\ up[k] \in Seq(Frame) /\ f \in Frame /\ f.by = v /\ f.number = n + 1
          /\ up'[k] = Append(up[k], f)
      BY <1>o, <2>1, PacketFrame, TunnelAssumption DEF TunnelTypeOK
    <3>2. Line(up[k], v, 0, n)
      BY DEF Line, Mine, Unheard
    <3>3. n \in Int /\ n + 1 = 0 /\ 0 \in Int
      OBVIOUS
    <3> HIDE DEF f, n
    <3>4. Line(Append(up[k], f), v, 0, n + 1)
      BY <1>o, <3>1, <3>2, <3>3, LineMoreMine
    <3> QED
      BY <3>1, <3>3, <3>4
  <2>6. Heard(v)'
    BY <1>2, HeardAfter
  <2>7. OnLink(v, k)'
    BY <2>1, <2>2, <2>3, <2>4, <2>5 DEF OnLink
  <2>8. Ahead(v)'
    BY <2>2 DEF Ahead
  <2> QED
    BY <2>6, <2>7, <2>8
<1> QED
  BY <1>1, <1>2, UnheardStep

\* A link that is lost stays lost.
LEMMA LostStays ==
  ASSUME TunnelTypeOK, LinkInv, [TunnelNext]_yvars, NEW k \in Link, link[k].node = "lost"
  PROVE  link'[k].node = "lost"
<1>t. link \in LinkRows
  BY DEF TunnelTypeOK, LinkRows
<1>1. CASE NodeConnects
  <2>1. PICK n \in 0..MaxLinks : \A m \in Link : link[m].node # "none" <=> m <= n
    BY DEF LinkInv
  <2>2. NextLink = n + 1
    BY <2>1, NextLinkIsNew
  <2>3. k # NextLink
    BY <2>1, <2>2, TunnelAssumption DEF Link
  <2> QED
    BY <1>1, <1>t, <2>3 DEF NodeConnects, LinkRows
<1>2. ASSUME NEW m \in Link, LinkIsLost(m) \/ HubMissesNode(m) PROVE link'[k].node = "lost"
  BY <1>2, <1>t DEF LinkIsLost, HubMissesNode, LinkRows
<1>3. CASE link' = link
  BY <1>3
<1> QED
  BY <1>1, <1>2, <1>3 DEF TunnelNext, Tied, Visiting, Linking, Handling, Dispatching,
         NodeReceives, HubReturns, Seals, Answers, ClientConnects, ClientReceives, ClientAsks,
         ClientCloses, HubForwards, HubMissesClient, HandlerLeaves, yvars

\* A client whose link is lost.
LEMMA LiveOff ==
  ASSUME TunnelTypeOK, LinkInv, RegistryInv, HandlerInv, FrameInv, [TunnelNext]_yvars,
         NEW v \in OwnTicket, AskInv(v), Heard(v), OffLink(v)
  PROVE  OffLink(v)'
<1>o. /\ v \in Visit /\ SessionOf[v] \in Session /\ v # Nobody
      /\ \A w \in Visit : SessionOf[w] = SessionOf[v] => w = v
  BY OwnSession
<1>t. up \in [Link -> Seq(Frame)]
  BY DEF TunnelTypeOK
<1>a. ASSUME NEW k \in Link, NodeReceives(k), FirstDown(k).by = v, FirstDown(k).kind = "hello"
      PROVE  FALSE
  <2>1. Reads(v, FirstDown(k).number, k)
    BY <1>a DEF Reads
  <2>2. Coming(v, k, 1) /\ 1 \in 1..Len(down[k])
    BY <1>o, <2>1, ReadsHead
  <2>3. down[k][1].number = 0
    BY <1>a, <2>2 DEF FrameInv, Asking, FirstDown
  <2> QED
    BY <2>2, <2>3 DEF Heard
<1>1. ASSUME NEW k \in Link PROVE sessions'[k][SessionOf[v]] # v
  <2>1. sessions[k][SessionOf[v]] # v
    BY DEF OffLink
  <2> QED
    BY <1>a, <1>o, <2>1, SessionMoves
<1>2. ASSUME NEW r \in Request, Answers(v, r) PROVE up' = up
  <2>1. job[v][r].pc = "sealed"
    BY <1>o, <1>2, AnsweredJob
  <2>2. job[v][r].link \in Link /\ link[job[v][r].link].node = "lost"
    BY <2>1 DEF OffLink
  <2>3. ~IsUp(job[v][r].link)
    BY <2>2 DEF IsUp
  <2> QED
    BY <1>o, <1>2, <2>3, Answered
<1>3. ASSUME NEW k \in Link, NEW i \in 1..Len(up'[k]) PROVE up'[k][i].by # v
  <2>i. \A j \in 1..Len(up[k]) : up[k][j].by # v
    BY DEF OffLink
  <2>1. CASE up'[k] = up[k]
    BY <1>3, <2>1, <2>i
  <2>2. CASE up'[k] = <<>>
    BY <1>3, <2>2
  <2>3. CASE up[k] # <<>> /\ up'[k] = Tail(up[k])
    BY <1>t, <1>3, <2>3, <2>i, QueueHead
  <2>4. ASSUME NEW f \in Frame, f.by # v, up'[k] = Append(up[k], f) PROVE up'[k][i].by # v
    <3>1. \/ i \in 1..Len(up[k]) /\ up'[k][i] = up[k][i]
          \/ up'[k][i] = f
      BY <1>t, <1>3, <2>4, QueueMore
    <3> QED
      BY <2>i, <2>4, <3>1
  <2>5. ~Accepts(v, k)
    BY <1>a DEF Accepts
  <2> QED
    BY <1>2, <2>1, <2>2, <2>3, <2>4, <2>5, UpOf
<1>4. ASSUME NEW r \in Request, job'[v][r].pc # "none"
      PROVE  job'[v][r].link \in Link /\ link'[job'[v][r].link].node = "lost"
  <2>1. job[v][r].pc # "none" /\ job'[v][r].link = job[v][r].link
    <3>1. \A k \in Link : sessions[k][SessionOf[v]] # v
      BY DEF OffLink
    <3> QED
      BY <1>4, <1>o, <3>1, JobMoves
  <2>2. job[v][r].link \in Link /\ link[job[v][r].link].node = "lost"
    BY <2>1 DEF OffLink
  <2> QED
    BY <2>1, <2>2, LostStays
<1> QED
  BY <1>1, <1>3, <1>4 DEF OffLink

\* What a served client has on its link stays in line.
LEMMA LineOn ==
  ASSUME TunnelTypeOK, LinkInv, Registered, FrameInv, [TunnelNext]_yvars, NEW v \in OwnTicket,
         AskInv(v), SealInv(v), LiveInv(v), NEW k \in Link, ~LinkIsLost(k),
         sessions[k][SessionOf[v]] = v, Line(up[k], v, Due(v), Top(v)),
         \A r \in Request : job[v][r].pc # "none" => job[v][r].link = k,
         visit[v].pc \in {"ready", "secure"}, handler[v] = "serving", ~HandlerLeaves(v),
         visit'[v].pc \in {"ready", "secure"}
  PROVE  /\ Line(up'[k], v, Due(v)', Top(v)')
         /\ \A m \in Link : HubReturns(m) /\ FirstUp(m).by = v => FirstUp(m).number = Due(v)
<1>o. /\ v \in Visit /\ SessionOf[v] \in Session /\ v # Nobody
      /\ \A w \in Visit : SessionOf[w] = SessionOf[v] => w = v
  BY OwnSession DEF Registered
<1>n. Expected(v) \in Int /\ Due(v) \in Int /\ Top(v) \in Int /\ Len(inbound[v]) \in Nat
  BY <1>o, Numbers
<1>u. IsUp(k) /\ \A m \in Link : IsUp(m) => m = k
  <2>1. IsUp(k)
    BY <1>o DEF LinkInv
  <2> QED
    BY <2>1 DEF LinkInv
<1>t. up[k] \in Seq(Frame) /\ inbound[v] \in Seq(Frame)
  BY <1>o DEF TunnelTypeOK
<1>c. clients[SessionOf[v]] = v
  BY DEF Registered, RegistryIsTrue
<1>m. ASSUME NEW m \in Link, HubReturns(m)
      PROVE  /\ m = k /\ up[k] # <<>> /\ up'[k] = Tail(up[k]) /\ up[k][1] = FirstUp(m)
             /\ FirstUp(m).by = v => FirstUp(m).number = Due(v)
  <2>1. up[m] # <<>> /\ up'[m] = Tail(up[m])
    BY <1>m, Returned
  <2>2. m = k
    BY <1>u, <2>1 DEF LinkInv
  <2>3. FirstUp(m).by = v => FirstUp(m).number = Due(v)
    BY <1>n, <1>o, <1>t, <2>1, <2>2, LineTailMine DEF FirstUp
  <2> QED
    BY <2>1, <2>2, <2>3 DEF FirstUp
<1>1. ASSUME NEW m \in Link, HubReturns(m) PROVE Line(up'[k], v, Due(v)', Top(v)')
  <2>1. /\ m = k /\ up[k] # <<>> /\ up'[k] = Tail(up[k]) /\ up[k][1] = FirstUp(m)
    BY <1>1, <1>m
  <2>2. visit' = visit /\ UNCHANGED job
    BY <1>1, Returned
  <2>3. Top(v)' = Top(v) /\ Expected(v)' = Expected(v)
    BY <2>2 DEF Top, Jobs, Expected
  <2>4. CASE FirstUp(m).by = v
    <3>1. inbound'[v] = Append(inbound[v], FirstUp(m)) /\ FirstUp(m) \in Frame
      BY <1>1, <1>c, <1>o, <2>4, Returned
    <3>2. Len(inbound'[v]) = Len(inbound[v]) + 1
      BY <1>t, <3>1, QueueMore
    <3>3. Due(v)' = Due(v) + 1
      BY <1>n, <2>3, <3>2 DEF Due
    <3>4. Line(Tail(up[k]), v, Due(v) + 1, Top(v))
      BY <1>n, <1>o, <1>t, <2>1, <2>4, LineTailMine
    <3> QED
      BY <2>1, <2>3, <3>3, <3>4
  <2>5. CASE FirstUp(m).by # v
    <3>1. inbound'[v] = inbound[v]
      <4>1. /\ FirstUp(m).by \in Visit /\ SessionOf[FirstUp(m).by] \in Session
            /\ \/ inbound' = inbound
               \/ \E x \in Visit : /\ clients[SessionOf[FirstUp(m).by]] = x
                                  /\ \A w \in Visit : w # x => inbound'[w] = inbound[w]
        BY <1>1, Returned
      <4>2. clients[SessionOf[FirstUp(m).by]] # v
        BY <1>o, <2>5, <4>1 DEF Registered, RegistryInv
      <4> QED
        BY <1>o, <4>1, <4>2
    <3>3. Due(v)' = Due(v)
      BY <2>3, <3>1 DEF Due
    <3>4. Line(Tail(up[k]), v, Due(v), Top(v))
      BY <1>n, <1>o, <1>t, <2>1, <2>5, LineTailOther
    <3> QED
      BY <2>1, <2>3, <3>3, <3>4
  <2> QED
    BY <2>4, <2>5
<1>2. ASSUME NEW r \in Request, Answers(v, r) PROVE Line(up'[k], v, Due(v)', Top(v)')
  <2>1. /\ job[v][r].pc = "sealed" /\ visit' = visit /\ inbound' = inbound
    BY <1>2, <1>o, AnsweredJob
  <2>2. job[v][r].link = k /\ job[v][r].number = Top(v) + 1
    BY <2>1 DEF SealInv
  <2>3. /\ Packet("answer", v, job[v][r].number) \in Frame
        /\ up'[k] = Append(up[k], Packet("answer", v, job[v][r].number))
    BY <1>2, <1>o, <1>u, <2>2, Answered
  <2>4. Due(v)' = Due(v) /\ Top(v)' = Top(v) + 1
    BY <1>2, <1>o, <2>1, TopMoves DEF Due, Expected
  <2> DEFINE f == Packet("answer", v, job[v][r].number)
  <2>5. f \in Frame /\ f.by = v /\ f.number = Top(v) + 1 /\ up'[k] = Append(up[k], f)
    BY <2>2, <2>3 DEF Packet
  <2> HIDE DEF f
  <2>6. Line(Append(up[k], f), v, Due(v), Top(v) + 1)
    BY <1>n, <1>o, <1>t, <2>5, LineMoreMine
  <2> QED
    BY <2>4, <2>5, <2>6
<1>3. ASSUME \A m \in Link : ~HubReturns(m), \A r \in Request : ~Answers(v, r)
      PROVE  Line(up'[k], v, Due(v)', Top(v)')
  <2>1. Top(v)' = Top(v)
    BY <1>3, <1>o, TopMoves
  <2>2. Due(v)' = Due(v)
    <3>1. CASE ClientReceives(v)
      <4>1. Expected(v)' = Expected(v) + 1 /\ inbound[v] # <<>>
        BY <1>o, <3>1, ReadsExpected
      <4>2. inbound'[v] = Tail(inbound[v])
        BY <1>3, <3>1, InboundOf DEF Registered
      <4>3. Len(inbound'[v]) = Len(inbound[v]) - 1
        BY <1>t, <4>1, <4>2, QueueHead
      <4> QED
        BY <1>n, <4>1, <4>3 DEF Due
    <3>2. CASE ~ClientReceives(v)
      <4>1. Expected(v)' = Expected(v)
        BY <1>o, <3>2, ExpectedKept
      <4>2. inbound'[v] = inbound[v]
        BY <1>3, <3>2, InboundOf DEF Registered
      <4> QED
        BY <4>1, <4>2 DEF Due
    <3> QED
      BY <3>1, <3>2
  <2>3. \/ up'[k] = up[k]
        \/ \E f \in Frame : f.by # v /\ up'[k] = Append(up[k], f)
    <3>1. ~Accepts(v, k)
      BY <1>o DEF Accepts
    <3> QED
      BY <1>3, <3>1, UpOf DEF Registered
  <2>4. Line(up'[k], v, Due(v), Top(v))
    BY <1>n, <1>o, <1>t, <2>3, LineMoreOther
  <2> QED
    BY <2>1, <2>2, <2>4
<1>4. Line(up'[k], v, Due(v)', Top(v)')
  BY <1>1, <1>2, <1>3
<1> QED
  BY <1>4, <1>m

\* A client that the Node serves goes on to be served, unless the link is lost.
LEMMA LiveOn ==
  ASSUME TunnelTypeOK, LinkInv, Registered, ResetInv, FrameInv, [TunnelNext]_yvars,
         NEW v \in OwnTicket, AskInv(v), SealInv(v), LiveInv(v), NEW k \in Link, OnLink(v, k),
         visit[v].pc \in {"ready", "secure"}, handler[v] = "serving", ~HandlerLeaves(v),
         visit'[v].pc \in {"ready", "secure"}
  PROVE  OnLink(v, k)' \/ OffLink(v)'
<1>o. /\ v \in Visit /\ SessionOf[v] \in Session /\ v # Nobody
      /\ \A w \in Visit : SessionOf[w] = SessionOf[v] => w = v
  BY OwnSession DEF Registered
<1>s. sessions[k][SessionOf[v]] = v
  BY DEF OnLink
<1>u. IsUp(k) /\ \A m \in Link : IsUp(m) => m = k
  <2>1. IsUp(k)
    BY <1>o, <1>s DEF LinkInv
  <2> QED
    BY <2>1 DEF LinkInv
<1>j. \A r \in Request : job'[v][r].pc # "none" => job'[v][r].link = k
  <2>1. ASSUME NEW r \in Request, NEW m \in Link, Reads(v, r, m) PROVE m = k
    BY <1>o, <1>u, <2>1, ReadsHead
  <2>2. ASSUME NEW r \in Request, job'[v][r].pc # "none" PROVE job'[v][r].link = k
    <3>1. \/ job'[v][r] = job[v][r]
          \/ job[v][r].pc # "none" /\ job'[v][r].link = job[v][r].link
          \/ \E m \in Link : Reads(v, r, m) /\ job'[v][r].link = m
      BY <1>o, JobMoves
    <3> QED
      BY <2>1, <2>2, <3>1 DEF OnLink
  <2> QED
    BY <2>2
<1>1. CASE LinkIsLost(k)
  <2>1. /\ link'[k].node = "lost"
        /\ up'[k] = <<>> /\ \A s \in Session : sessions'[k][s] = Nobody
        /\ \A m \in Link : m # k => up'[m] = up[m] /\ sessions'[m] = sessions[m]
    BY <1>1 DEF LinkIsLost, TunnelTypeOK
  <2>2. \A m \in Link : m # k => up[m] = <<>> /\ \A s \in Session : sessions[m][s] = Nobody
    BY <1>u DEF LinkInv
  <2>3. \A m \in Link : up'[m] = <<>> /\ \A s \in Session : sessions'[m][s] = Nobody
    BY <2>1, <2>2
  <2>4. OffLink(v)'
    BY <1>j, <1>o, <2>1, <2>3 DEF OffLink
  <2> QED
    BY <2>4
<1>2. CASE ~LinkIsLost(k)
  <2>1. sessions'[k][SessionOf[v]] = v
    <3>1. ASSUME NodeReceives(k), FirstDown(k).kind = "reset",
                 SessionOf[FirstDown(k).by] = SessionOf[v], FirstDown(k).by \in Visit
          PROVE  FALSE
      <4>1. FirstDown(k).by = v
        BY <1>o, <3>1
      <4>2. down[k] # <<>> /\ down[k] \in Seq(Frame)
        BY <3>1, Received DEF TunnelTypeOK
      <4>3. 1 \in 1..Len(down[k])
        BY <4>2, QueueHead
      <4>4. handler[v] = "over"
        BY <3>1, <4>1, <4>3 DEF FirstDown, ResetInv
      <4> QED
        BY <4>4
    <3> QED
      BY <1>2, <1>o, <1>s, <3>1, SessionMoves
  <2>2. /\ Line(up[k], v, Due(v), Top(v))
        /\ \A r \in Request : job[v][r].pc # "none" => job[v][r].link = k
    BY DEF OnLink
  <2>3. Line(up'[k], v, Due(v)', Top(v)')
    BY <1>2, <1>s, <2>2, LineOn
  <2>4. OnLink(v, k)'
    BY <1>j, <2>1, <2>3 DEF OnLink
  <2> QED
    BY <2>4
<1> QED
  BY <1>1, <1>2

\* What a client that goes on has not read is what it expects.
LEMMA AheadStep ==
  ASSUME TunnelTypeOK, LinkInv, Registered, FrameInv, [TunnelNext]_yvars,
         NEW v \in OwnTicket, AskInv(v), SealInv(v), LiveInv(v), Heard(v),
         visit[v].pc \in {"ready", "secure"}, handler[v] = "serving", ~HandlerLeaves(v),
         visit'[v].pc \in {"ready", "secure"}
  PROVE  Ahead(v)'
<1>o. v \in Visit
  BY OwnSession DEF Registered
<1>n. Expected(v) \in Int /\ Due(v) \in Int /\ Len(inbound[v]) \in Nat
      /\ Due(v) = Expected(v) + Len(inbound[v])
  BY <1>o, Numbers DEF Due
<1>t. inbound[v] \in Seq(Frame) /\ \A k \in Link : up[k] \in Seq(Frame)
  BY <1>o DEF TunnelTypeOK
<1>i. \A i \in 1..Len(inbound[v]) :
         inbound[v][i].by = v /\ inbound[v][i].number = Expected(v) + i - 1
  BY DEF LiveInv
<1> SUFFICES ASSUME NEW i \in 1..Len(inbound'[v])
             PROVE  inbound'[v][i].by = v /\ inbound'[v][i].number = Expected(v)' + i - 1
  BY DEF Ahead
<1>1. CASE inbound'[v] = inbound[v] /\ ~ClientReceives(v)
  <2>1. Expected(v)' = Expected(v)
    BY <1>1, <1>o, ExpectedKept
  <2> QED
    BY <1>1, <1>i, <2>1
<1>2. CASE ClientReceives(v) /\ inbound[v] # <<>> /\ inbound'[v] = Tail(inbound[v])
  <2>1. Expected(v)' = Expected(v) + 1
    BY <1>2, <1>o, ReadsExpected
  <2>2. i \in Nat /\ i + 1 \in 1..Len(inbound[v]) /\ inbound'[v][i] = inbound[v][i + 1]
    BY <1>2, <1>t, QueueHead
  <2>3. inbound[v][i + 1].by = v /\ inbound[v][i + 1].number = Expected(v) + (i + 1) - 1
    BY <1>i, <2>2
  <2> QED
    BY <1>n, <2>1, <2>2, <2>3
<1>3. ASSUME NEW k \in Link, HubReturns(k), up[k] # <<>>, FirstUp(k) \in Frame,
             FirstUp(k).by = v, inbound'[v] = Append(inbound[v], FirstUp(k)),
             ~ClientReceives(v)
      PROVE  inbound'[v][i].by = v /\ inbound'[v][i].number = Expected(v)' + i - 1
  <2>1. Expected(v)' = Expected(v)
    BY <1>3, <1>o, ExpectedKept
  <2>2. 1 \in 1..Len(up[k]) /\ up[k][1].by = v
    BY <1>3, <1>t, QueueHead DEF FirstUp
  <2>3. PICK m \in Link : OnLink(v, m)
    BY <2>2 DEF LiveInv, Unheard, OffLink
  <2>4. FirstUp(k).number = Due(v)
    <3>1. ~LinkIsLost(m)
      <4>1. ASSUME LinkIsLost(m) PROVE FALSE
        <5>1. up'[k] = up[k] \/ up'[k] = <<>>
          BY <4>1 DEF LinkIsLost, TunnelTypeOK
        <5>2. inbound' = inbound
          BY <4>1 DEF LinkIsLost
        <5>3. Len(inbound'[v]) = Len(inbound[v]) + 1
          BY <1>3, <1>t, QueueMore
        <5> QED
          BY <1>n, <5>2, <5>3
      <4> QED
        BY <4>1
    <3>2. /\ sessions[m][SessionOf[v]] = v /\ Line(up[m], v, Due(v), Top(v))
          /\ \A r \in Request : job[v][r].pc # "none" => job[v][r].link = m
      BY <2>3 DEF OnLink
    <3> QED
      BY <1>3, <3>1, <3>2, LineOn
  <2>5. \/ i \in 1..Len(inbound[v]) /\ inbound'[v][i] = inbound[v][i]
        \/ i = Len(inbound[v]) + 1 /\ inbound'[v][i] = FirstUp(k)
    BY <1>3, <1>t, QueueMore
  <2>6. CASE i \in 1..Len(inbound[v]) /\ inbound'[v][i] = inbound[v][i]
    BY <1>i, <2>1, <2>6
  <2>7. CASE i = Len(inbound[v]) + 1 /\ inbound'[v][i] = FirstUp(k)
    <3>1. Expected(v) + i - 1 = Due(v)
      BY <1>n, <2>7
    <3> QED
      BY <1>3, <2>1, <2>4, <2>7, <3>1
  <2> QED
    BY <2>5, <2>6, <2>7
<1> QED
  BY <1>1, <1>2, <1>3, InboundOf DEF Registered

LEMMA LiveStep ==
  ASSUME TunnelTypeOK, LinkInv, Registered, ResetInv, FrameInv, [TunnelNext]_yvars,
         NEW v \in OwnTicket, AskInv(v), SealInv(v), LiveInv(v)
  PROVE  LiveInv(v)'
<1>o. v \in Visit
  BY OwnSession DEF Registered
<1>g. HandlerInv /\ RegistryInv
  BY DEF Registered
<1>e. ASSUME visit'[v].pc \in {"ready", "secure"} =>
                /\ Ahead(v)'
                /\ Unheard(v)' \/ (Heard(v)' /\ (OffLink(v)' \/ \E k \in Link : OnLink(v, k)'))
      PROVE  LiveInv(v)'
  <2>1. (\E k \in Link : OnLink(v, k)') => (\E k \in Link : OnLink(v, k))'
    OBVIOUS
  <2> QED
    BY <1>e, <2>1 DEF LiveInv, Ahead
<1> SUFFICES ASSUME visit'[v].pc \in {"ready", "secure"}
             PROVE  /\ Ahead(v)'
                    /\ \/ Unheard(v)'
                       \/ Heard(v)' /\ (OffLink(v)' \/ \E k \in Link : OnLink(v, k)')
  BY <1>e
<1>1. CASE Unheard(v)
  BY <1>1, <1>g, LiveUnheard
<1>2. CASE ~Unheard(v)
  <2>1. visit[v].pc # "idle"
    BY <1>2 DEF AskInv
  <2>2. visit[v].pc \in {"ready", "secure"} /\ handler[v] = "serving" /\ ~HandlerLeaves(v)
    BY <1>g, <1>o, <2>1, LiveBefore
  <2>3. Heard(v) /\ (OffLink(v) \/ \E k \in Link : OnLink(v, k))
    BY <1>2, <2>2 DEF LiveInv
  <2>4. Ahead(v)'
    BY <2>2, <2>3, AheadStep
  <2>5. Heard(v)'
    BY <1>o, <2>1, <2>3, HeardStep
  <2>6. CASE OffLink(v)
    <3>1. OffLink(v)'
      BY <1>g, <2>3, <2>6, LiveOff
    <3> QED
      BY <2>4, <2>5, <3>1
  <2>7. ASSUME NEW k \in Link, OnLink(v, k) PROVE OffLink(v)' \/ OnLink(v, k)'
    BY <2>2, <2>7, LiveOn
  <2> QED
    BY <2>3, <2>4, <2>5, <2>6, <2>7
<1> QED
  BY <1>1, <1>2

LEMMA OwnStep ==
  ASSUME TunnelTypeOK, LinkInv, Registered, ResetInv, FrameInv, OwnInv, [TunnelNext]_yvars
  PROVE  OwnInv'
<1>1. ASSUME NEW v \in OwnTicket PROVE AskInv(v)' /\ SealInv(v)' /\ LiveInv(v)'
  <2>1. v \in Visit /\ AskInv(v) /\ SealInv(v) /\ LiveInv(v)
    BY OwnSession DEF OwnInv, Registered
  <2> QED
    BY <2>1, AskStep, SealStep, LiveStep DEF Registered
<1> QED
  BY <1>1 DEF OwnInv, OwnTicket

LEMMA ReadsStep ==
  ASSUME TunnelTypeOK, FrameInv, OwnInv, ReadsItsOwn, [TunnelNext]_yvars
  PROVE  ReadsItsOwn'
<1>1. ASSUME NEW v \in Visit, ClientReceives(v) PROVE ReadsItsOwn'
  <2>1. CASE v \in OwnTicket
    <3>1. garbled' = garbled
      BY <1>1, <2>1, ReadsExpected DEF OwnInv
    <3> QED
      BY <3>1 DEF ReadsItsOwn, OwnTicket
  <2>2. CASE v \notin OwnTicket
    <3>1. garbled' = garbled \/ garbled' = garbled \cup {v}
      BY <1>1 DEF ClientReceives
    <3> QED
      BY <2>2, <3>1 DEF ReadsItsOwn, OwnTicket
  <2> QED
    BY <2>1, <2>2
<1>2. CASE garbled' = garbled
  BY <1>2 DEF ReadsItsOwn, OwnTicket
<1> QED
  BY <1>1, <1>2 DEF TunnelNext, Tied, Visiting, Linking, Handling, Dispatching, NodeConnects,
         LinkIsLost, HubMissesNode, NodeReceives, HubReturns, Seals, Answers, ClientConnects,
         ClientAsks, ClientCloses, HubForwards, HubMissesClient, HandlerLeaves, yvars

LEMMA TunnelInitInv == TunnelInit => TunnelInv
<1> SUFFICES ASSUME TunnelInit PROVE TunnelInv
  OBVIOUS
<1>z. 0 \in 0..MaxLinks /\ 0 \in 0..MaxRequests /\ Link \subseteq 0..MaxLinks
  BY TunnelAssumption DEF Link
<1>i. /\ \A k \in Link : link[k] = [node |-> "none", hub |-> "none"]
      /\ nodes = 0 /\ \A s \in Session : clients[s] = Nobody
      /\ \A v \in Visit : visit[v] = [pc |-> "idle", read |-> 0, sent |-> 0]
      /\ \A v \in Visit : handler[v] = "none"
      /\ \A k \in Link, s \in Session : sessions[k][s] = Nobody
      /\ \A v \in Visit, r \in Request : job[v][r] = [pc |-> "none", link |-> 0, number |-> 0]
      /\ \A v \in Visit : outbound[v] = <<>> /\ inbound[v] = <<>>
      /\ \A k \in Link : down[k] = <<>> /\ up[k] = <<>>
      /\ garbled = {} /\ stale = FALSE
  BY DEF TunnelInit
<1>1. TunnelTypeOK
  <2>1. <<>> \in Seq(Frame)
    OBVIOUS
  <2>2. /\ link \in LinkRows /\ visit \in VisitRows /\ handler \in HandlerRows
        /\ clients \in ClientRows /\ sessions \in [Link -> ClientRows]
    BY <1>z DEF TunnelInit, LinkRows, VisitRows, HandlerRows, ClientRows, VisitPc
  <2>3. job \in JobRows
    <3>1. [pc |-> "none", link |-> 0, number |-> 0] \in JobRow
      BY <1>z DEF JobRow
    <3> QED
      BY <3>1 DEF TunnelInit, JobRows
  <2>4. /\ outbound \in [Visit -> Seq(Frame)] /\ inbound \in [Visit -> Seq(Frame)]
        /\ down \in [Link -> Seq(Frame)] /\ up \in [Link -> Seq(Frame)]
    BY <2>1 DEF TunnelInit
  <2>5. TunnelTyping
    BY <1>i, <1>z, <2>2, <2>3, <2>4 DEF TunnelTyping
  <2> QED
    BY <2>5, TunnelTypes
<1>2. LinkInv
  <2>1. \A k \in Link : link[k].node # "none" <=> k <= 0
    BY <1>i DEF Link
  <2> QED
    BY <1>i, <1>z, <2>1 DEF LinkInv, IsUp
<1>3. Registered
  BY <1>i DEF Registered, HandlerInv, RegistryInv, RegistryIsTrue, OwnTicket
<1>4. ResetInv /\ FrameInv
  BY <1>i DEF ResetInv, FrameInv
<1>5. ASSUME NEW v \in OwnTicket PROVE AskInv(v) /\ SealInv(v) /\ LiveInv(v)
  <2>1. v \in Visit
    BY DEF OwnTicket
  <2>2. Unheard(v)
    BY <1>i, <2>1, TunnelAssumption DEF Unheard, OwnTicket
  <2>3. AskInv(v)
    BY <1>i, <2>1, <2>2 DEF AskInv, Coming
  <2> QED
    BY <1>i, <2>1, <2>3 DEF SealInv, LiveInv
<1>6. ReadsItsOwn
  BY <1>i DEF ReadsItsOwn
<1> QED
  BY <1>1, <1>2, <1>3, <1>4, <1>5, <1>6 DEF TunnelInv, OwnInv

LEMMA TunnelStep == TunnelInv /\ [TunnelNext]_yvars => TunnelInv'
<1> SUFFICES ASSUME TunnelInv, [TunnelNext]_yvars PROVE TunnelInv'
  OBVIOUS
<1>1. /\ TunnelTypeOK /\ LinkInv /\ Registered /\ ResetInv /\ FrameInv /\ OwnInv
      /\ ReadsItsOwn
  BY DEF TunnelInv
<1>2. TunnelTypeOK' /\ LinkInv' /\ Registered'
  BY <1>1, TunnelTypeStep, LinkStep, RegisterStep
<1>3. ResetInv' /\ FrameInv'
  BY <1>1, ResetStep, FrameStep
<1>4. OwnInv' /\ ReadsItsOwn'
  BY <1>1, OwnStep, ReadsStep
<1> QED
  BY <1>2, <1>3, <1>4 DEF TunnelInv

\* Of RelayTunnel: the inductive invariant.
THEOREM TunnelInvariant == TunnelSpec => []TunnelInv
<1> QED
  BY TunnelInitInv, TunnelStep, PTL DEF TunnelSpec

\* TunnelSound, of RelayBroker, NodeCipherSession and relay_client(): a client with a ticket of
\* its own reads what was sent to it, in order; who is registered is served; a session whose
\* client has left is followed by its reset.
THEOREM TunnelIsSound == TunnelSpec => []TunnelSound
<1>1. TunnelInv => TunnelSound
  BY SessionsEndSound DEF TunnelInv, TunnelSound, Registered
<1> QED
  BY <1>1, TunnelInvariant, PTL

-----------------------------------------------------------------------------
(* The composition TLC checks (MCPlatform)                                 *)

\* A step of one part is a step of its component, and the other components stutter.
LEMMA PlatformStep ==
    ASSUME {1, 2, 3} \subseteq Visit, Invocation # {}, PlatformNext \/ UNCHANGED mcvars
    PROVE  [McpNext]_mvars /\ [RemoteNext]_rvars /\ [TunnelNext]_yvars /\ [HostNext]_hvars
<1>1. CASE UNCHANGED mcvars
  BY <1>1 DEF mcvars
<1>2. CASE In("calls", Called) /\ UNCHANGED NotMcp
  BY <1>2 DEF In, NotMcp, Called, McpNext
<1>3. CASE In("bridge", Bridged) /\ UNCHANGED NotMcp
  BY <1>3 DEF In, NotMcp, Bridged, McpNext
<1>4. CASE In("remote", Alone) /\ UNCHANGED NotRemote
  <2>1. (CHOOSE i \in Invocation : TRUE) \in Invocation
    OBVIOUS
  <2>2. Alone => RemoteNext
    BY <2>1 DEF Alone, RemoteNext
  <2> QED
    BY <1>4, <2>2 DEF In, NotRemote
<1>5. CASE In("crowd", Competing) /\ UNCHANGED NotRemote
  <2>1. ASSUME Competing PROVE RemoteNext
    <3>1. PICK i \in Invocation :
            \/ \E t \in {"p2p", "relay"} : Begin(i, t) \/ Invoke(i, t) \/ Answer(i, t)
            \/ Calling(i) \/ Executing(i) \/ Cancel(i)
      BY <2>1 DEF Competing
    <3>2. InvocationNext(i)
      BY <3>1 DEF InvocationNext, Transport
    <3> QED
      BY <3>2 DEF RemoteNext
  <2> QED
    BY <1>5, <2>1 DEF In, NotRemote
<1>6. CASE In("shared", Sharing) /\ UNCHANGED NotTunnel
  BY <1>6 DEF In, NotTunnel, Sharing, TunnelNext
<1>7. CASE In("tunnel", Tunnelling) /\ UNCHANGED NotTunnel
  BY <1>7 DEF In, NotTunnel, Tunnelling, TunnelNext
<1>8. CASE In("host", HostNext) /\ UNCHANGED NotHost
  BY <1>8 DEF In, NotHost
<1> QED
  BY <1>1, <1>2, <1>3, <1>4, <1>5, <1>6, <1>7, <1>8 DEF PlatformNext

\* Every behaviour of the composition is one of each of its components, with its fairness.
THEOREM PlatformComposes ==
    ASSUME {1, 2, 3} \subseteq Visit, Invocation # {}
    PROVE  PlatformSpec => McpSpec /\ RemoteSpec /\ TunnelSpec /\ HostSpec
<1>1. PlatformInit => McpInit /\ RemoteInit /\ TunnelInit /\ HostInit
  BY DEF PlatformInit
<1>2. [PlatformNext]_mcvars
        => [McpNext]_mvars /\ [RemoteNext]_rvars /\ [TunnelNext]_yvars /\ [HostNext]_hvars
  BY PlatformStep
<1> QED
  BY <1>1, <1>2, PTL DEF PlatformSpec, McpSpec, RemoteSpec, TunnelSpec, HostSpec

\* The variables of the composition keep their types.
THEOREM PlatformTypeCorrect ==
    ASSUME {1, 2, 3} \subseteq Visit, Invocation # {}
    PROVE  PlatformSpec => []PlatformTypeOK
<1>1. PlatformSpec => [](part \in Part)
  <2>1. part \in Part /\ [PlatformNext]_mcvars => (part \in Part)'
    BY DEF PlatformNext, mcvars, In
  <2>2. PlatformInit => part \in Part
    BY DEF PlatformInit
  <2> QED
    BY <2>1, <2>2, PTL DEF PlatformSpec
<1>2. McpInv /\ RemoteInv /\ TunnelInv /\ HostInv /\ part \in Part => PlatformTypeOK
  BY DEF McpInv, RemoteInv, TunnelInv, HostInv, PlatformTypeOK
<1> QED
  BY <1>1, <1>2, PlatformComposes, McpInvariant, RemoteInvariant, TunnelInvariant, HostInvariant, PTL
=============================================================================
