----------------------------- MODULE HostUpdate -----------------------------
(***************************************************************************)
(* Updates of an installation from signed bundles: HostLifecycleManager    *)
(* (host_lifecycle.py), the broker of the host, which takes one action at  *)
(* a time, and the native updater it calls (crates/knoa-update).           *)
(*                                                                         *)
(* The updater keeps the releases side by side and points to the current   *)
(* one.  A service is started through the updater and runs what is current *)
(* then.  A command may fail or run out of time and the broker may die     *)
(* between any two steps; the releases' health shows when it is asked for. *)
(*                                                                         *)
(* `systemctl stop' returns when the service has stopped, `sc.exe stop'    *)
(* while it may still run; only update waits, after its first stop, until  *)
(* the services have released their ports.  A service that is still        *)
(* stopping can neither be started nor stopped: sc.exe fails.              *)
(***************************************************************************)
EXTENDS Integers, FiniteSets

CONSTANTS
    Release,  \* the bundles there are
    Role,     \* "hub" and "node"
    Slow,     \* bound: the roles whose services may go on after `sc.exe stop'
    None,     \* the empty string in the state file
    MaxLapses \* bound: commands that fail, processes that die

ASSUME HostAssumption ==
    /\ IsFiniteSet(Release) /\ IsFiniteSet(Role)
    /\ Slow \subseteq Role
    /\ None \notin Release
    /\ MaxLapses \in Nat

VARIABLES
    store,    \* state.json of the release store
    versions, \* the releases that are staged
    staging,  \* is there anything in the directory .incoming-lifecycle
    incoming, \* the bundles in the incoming directory
    roles,    \* installed_roles
    service,  \* of every role: the release its service runs, None: stopped
    lingering, \* the roles whose services were asked to stop and still run
    host,     \* the action of the broker: the bundle, the state before, the roles it is about
              \* and whether the updater was killed; kept when the action is over
    outcome,  \* history: how the last update has ended
    lapses    \* how many failures there have been

hvars == <<store, versions, staging, incoming, roles, service, lingering, host, outcome, lapses>>

Pointer == Release \cup {None}
State == [current : Pointer, previous : Pointer, failed : Pointer]

HostPc == {"idle", "activating", "stopping", "extracting", "installing", "checking", "resuming",
           "starting", "waiting", "withdrawing", "rejecting", "restarting"}

HostTypeOK ==
    /\ store \in State
    /\ versions \subseteq Release /\ incoming \subseteq Release
    /\ staging \in BOOLEAN
    /\ roles \subseteq Role
    /\ service \in [Role -> Pointer] /\ lingering \subseteq Role
    /\ host \in [pc : HostPc, bundle : Pointer, before : State, active : SUBSET Role,
                killed : BOOLEAN]
    /\ outcome \in {"none", "updated", "refused", "restored", "broken"}
    /\ lapses \in 0..MaxLapses

\* The installer has installed a release, recorded the roles and started their services.
HostInit ==
    \E first \in Release :
        /\ store = [current |-> first, previous |-> None, failed |-> None]
        /\ versions = {first}
        /\ staging = FALSE
        /\ incoming = {}
        /\ roles \in SUBSET Role
        /\ service = [r \in Role |-> IF r \in roles THEN first ELSE None]
        /\ lingering = {}
        /\ host = [pc |-> "idle", bundle |-> None, before |-> store, active |-> {},
                   killed |-> FALSE]
        /\ outcome = "none" /\ lapses = 0

Lapse == lapses < MaxLapses /\ lapses' = lapses + 1
Goes(pc) == host' = [host EXCEPT !.pc = pc]

\* The request is answered, with a result or an exception; what is done is done.
Replied(how) == Goes("idle") /\ outcome' = how

\* `knoa-update run' resolves the current release when the service starts; without one it exits.
\* To start a service that runs does nothing.
Started(which) ==
    [r \in Role |-> IF r \in which /\ service[r] = None THEN store.current ELSE service[r]]

Stopped(which) == [r \in Role |-> IF r \in which THEN None ELSE service[r]]

\* These services are asked to stop, and nobody waits for those that take their time.
AskedToStop(which) ==
    \E slow \in SUBSET {r \in which \cap Slow : service[r] # None} :
        /\ service' = Stopped(which \ slow)
        /\ lingering' = lingering \cup slow

\* A command fails on its own, or on a service that is still stopping.
CommandFails == Lapse \/ (host.active \cap lingering # {} /\ UNCHANGED lapses)

-----------------------------------------------------------------------------
(* act("update"): the services stop, the updater installs *)

Update(b) ==
    /\ host.pc = "idle" /\ b \in incoming
    /\ host' = [pc |-> "stopping", bundle |-> b, before |-> store, active |-> roles,
                killed |-> FALSE]
    /\ outcome' = "none"
    /\ UNCHANGED <<store, versions, staging, incoming, roles, service, lingering, lapses>>

\* Before the installation: every service is stopped and waited for, its ports included.
StopServices ==
    /\ host.pc = "stopping" /\ host.active \cap lingering = {}
    /\ Goes("extracting")
    /\ service' = Stopped(host.active)
    /\ UNCHANGED <<store, versions, staging, incoming, roles, lingering, outcome, lapses>>

\* Before the release is rejected: nobody waits.
WithdrawServices ==
    /\ host.pc = "withdrawing" /\ Goes("rejecting")
    /\ AskedToStop(host.active)
    /\ UNCHANGED <<store, versions, staging, incoming, roles, outcome, lapses>>

\* A command fails, or a service does not stop in time: the exception passes everything by.
StopFails(which) ==
    /\ host.pc \in {"stopping", "withdrawing"} /\ which \subseteq host.active \ lingering
    /\ CommandFails
    /\ AskedToStop(which)
    /\ Replied("broken")
    /\ UNCHANGED <<store, versions, staging, incoming, roles>>

\* extract_archive(): only into an empty directory.  A bundle that is not genuine, or not for
\* this host, is found out when it is there.
Extract(genuine) ==
    /\ host.pc = "extracting"
    /\ staging' = TRUE
    /\ Goes(IF staging \/ ~genuine THEN "resuming" ELSE "installing")
    /\ UNCHANGED <<store, versions, incoming, roles, service, lingering, outcome, lapses>>

\* ReleaseStore::install(): the pointer moves before the health command is run.
Install ==
    /\ host.pc = "installing"
    /\ versions' = versions \cup {host.bundle}
    /\ store' = IF store.current = host.bundle THEN store
                ELSE [current |-> host.bundle, previous |-> store.current, failed |-> None]
    /\ Goes("checking")
    /\ UNCHANGED <<staging, incoming, roles, service, lingering, outcome, lapses>>

\* Mutation: the pointer stays where it is.
Restored_Not == store

\* The state as it was, with the failure noted, if install() has changed it.
Restored ==
    IF host.before.current = host.bundle THEN store
    ELSE [host.before EXCEPT !.failed = host.bundle]

CheckHealth(passes) ==
    /\ host.pc = "checking"
    /\ store' = IF passes THEN store ELSE Restored
    /\ Goes(IF passes THEN "starting" ELSE "resuming")
    /\ UNCHANGED <<versions, staging, incoming, roles, service, lingering, outcome, lapses>>

\* The command takes longer than 300 s.
UpdaterIsKilled ==
    /\ host.pc \in {"extracting", "installing", "checking"}
    /\ Lapse
    /\ staging' = TRUE
    /\ host' = [host EXCEPT !.pc = "resuming", !.killed = TRUE]
    /\ UNCHANGED <<store, versions, incoming, roles, service, lingering, outcome>>

-----------------------------------------------------------------------------
(* act("update"): the services start, and are asked for their health *)

\* After a failed installation, a successful one and a rejected one.
StartServices ==
    /\ \/ host.pc = "resuming" /\ Replied(IF host.killed THEN "broken" ELSE "refused")
       \/ host.pc = "starting" /\ Goes("waiting") /\ UNCHANGED outcome
       \/ host.pc = "restarting" /\ Replied("restored")
    /\ host.active \cap lingering = {}
    /\ service' = Started(host.active)
    /\ UNCHANGED <<store, versions, staging, incoming, roles, lingering, lapses>>

StartFails(which) ==
    /\ host.pc \in {"resuming", "starting", "restarting"}
    /\ which \subseteq host.active \ lingering
    /\ CommandFails
    /\ service' = Started(which)
    /\ Replied("broken")
    /\ UNCHANGED <<store, versions, staging, incoming, roles, lingering>>

\* _wait_healthy() and bundle.unlink().
ServicesHealthy ==
    /\ host.pc = "waiting"
    /\ incoming' = incoming \ {host.bundle}
    /\ Replied("updated")
    /\ UNCHANGED <<store, versions, staging, roles, service, lingering, lapses>>

ServicesUnhealthy ==
    /\ host.pc = "waiting" /\ host.active # {}
    /\ Goes("withdrawing")
    /\ UNCHANGED <<store, versions, staging, incoming, roles, service, lingering, outcome, lapses>>

\* ReleaseStore::reject_current(): the previous release must pass its health command.
Reject(passes) ==
    /\ host.pc = "rejecting"
    /\ IF store.previous = None
       THEN /\ store' = [current |-> None, previous |-> None, failed |-> store.current]
            /\ Goes("restarting") /\ UNCHANGED outcome
       ELSE IF passes
       THEN /\ store' = [current |-> store.previous, previous |-> store.current,
                         failed |-> store.current]
            /\ Goes("restarting") /\ UNCHANGED outcome
       ELSE Replied("broken") /\ UNCHANGED store
    /\ UNCHANGED <<versions, staging, incoming, roles, service, lingering, lapses>>

-----------------------------------------------------------------------------
(* The other actions of the broker, and its surroundings *)

\* The service is enabled and started first, and recorded when it is healthy.
Activate(r) ==
    /\ host.pc = "idle" /\ r \notin lingering
    /\ service' = Started({r})
    /\ host' = [host EXCEPT !.pc = "activating", !.active = {r}]
    /\ outcome' = "none"
    /\ UNCHANGED <<store, versions, staging, incoming, roles, lingering, lapses>>

\* When it is not healthy in time it is asked to stop and disabled.
ActivationEnds(well) ==
    /\ host.pc = "activating"
    /\ IF well
       THEN /\ \A r \in host.active : service[r] # None
            /\ roles' = roles \cup host.active
            /\ UNCHANGED <<service, lingering>>
       ELSE AskedToStop(host.active) /\ UNCHANGED roles
    /\ Goes("idle")
    /\ UNCHANGED <<store, versions, staging, incoming, outcome, lapses>>

Deactivate(r) ==
    /\ host.pc = "idle" /\ r \notin lingering
    /\ AskedToStop({r})
    /\ roles' = roles \ {r}
    /\ UNCHANGED <<store, versions, staging, incoming, host, outcome, lapses>>

\* _restart_role(), or the service manager after a crash or at boot.
ServiceRestarts(r) ==
    /\ host.pc \in {"idle", "waiting"} /\ (r \in roles \/ service[r] # None) /\ r \notin lingering
    /\ service' = [service EXCEPT ![r] = store.current]
    /\ UNCHANGED <<store, versions, staging, incoming, roles, lingering, host, outcome, lapses>>

\* A service that was asked to stop has stopped.
ServiceStops(r) ==
    /\ r \in lingering
    /\ lingering' = lingering \ {r}
    /\ service' = Stopped({r})
    /\ UNCHANGED <<store, versions, staging, incoming, roles, host, outcome, lapses>>

BrokerDies ==
    /\ host.pc # "idle"
    /\ Lapse
    /\ Replied("broken")
    /\ UNCHANGED <<store, versions, staging, incoming, roles, service, lingering>>

BundleArrives(b) ==
    /\ b \notin incoming
    /\ incoming' = incoming \cup {b}
    /\ UNCHANGED <<store, versions, staging, roles, service, lingering, host, outcome, lapses>>

\* Nothing in the program empties the directory; somebody may.
StagingIsCleared ==
    /\ host.pc = "idle" /\ staging
    /\ staging' = FALSE
    /\ UNCHANGED <<store, versions, incoming, roles, service, lingering, host, outcome, lapses>>

HostNext ==
    \/ StopServices \/ WithdrawServices \/ Install \/ UpdaterIsKilled \/ StartServices
    \/ ServicesHealthy \/ ServicesUnhealthy \/ BrokerDies \/ StagingIsCleared
    \/ \E b \in Release : Update(b) \/ BundleArrives(b)
    \/ \E yes \in BOOLEAN : Extract(yes) \/ CheckHealth(yes) \/ Reject(yes) \/ ActivationEnds(yes)
    \/ \E which \in SUBSET Role : StopFails(which) \/ StartFails(which)
    \/ \E r \in Role : Activate(r) \/ Deactivate(r) \/ ServiceRestarts(r) \/ ServiceStops(r)

HostSpec == HostInit /\ [][HostNext]_hvars

-----------------------------------------------------------------------------
(* What the host can rely on *)

\* The pointers are to staged releases, and the one to fall back to is another one.
PointersStand ==
    /\ {store.current, store.previous} \subseteq versions \cup {None}
    /\ store.current = store.previous => store.current = None

\* The pointer moves while no service the broker knows of runs, but for one that is rejected: its
\* services may still be stopping.
StoppedForTheSwitch ==
    \A r \in host.active :
        /\ host.pc \in {"installing", "checking"} => service[r] = None
        /\ host.pc = "rejecting" => service[r] = None \/ r \in lingering

\* An update that is refused or taken back leaves the release that was current, and every role
\* that was installed when it began runs what is current.
AllOrNothing ==
    (host.pc = "idle" /\ outcome \in {"updated", "refused", "restored"}) =>
        /\ (outcome # "updated" /\ host.before.current # host.bundle) =>
               store.current = host.before.current
        /\ outcome = "updated" => store.current = host.bundle
        /\ \A r \in host.active \cap roles : service[r] = store.current

\* However an update ends that nobody interrupts, all services of the host run one release: the
\* new one or the one that was current.  The fall-back is always staged and never the same.
HostSound == PointersStand /\ StoppedForTheSwitch /\ AllOrNothing

=============================================================================
