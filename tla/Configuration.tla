---------------------------- MODULE Configuration ----------------------------
(***************************************************************************)
(* The managed configuration of a Node: ConfigRegistry keeps drafts and    *)
(* immutable revisions, ConfigurationService publishes one at a time, and  *)
(* the composition brings it into force: MCP servers first, then the       *)
(* runtimes of the agents.                                                 *)
(*                                                                         *)
(* Everything runs on one event loop; it may turn to somebody else while   *)
(* the lock is awaited, during the preflight, while extensions stop and    *)
(* start and while the new runtimes are checked.  A document is a value    *)
(* for every field.  Skill digests are frozen: a stored document is a      *)
(* normal one.  A draft of the controller that is refused stays in the     *)
(* table; nobody publishes it, and the model takes the next in its place.  *)
(***************************************************************************)
EXTENDS Integers, Sequences

CONSTANTS
    NumServers,       \* MCP servers, in the order of the document
    Setting,          \* the other fields
    Editor,           \* clients with a draft of their own
    MaxSaves,         \* bound: edits and rollbacks
    MaxUpsets         \* bound: what fails outside, and deaths of Core

ASSUME ConfigurationAssumption ==
    /\ NumServers \in Nat /\ MaxSaves \in Nat /\ MaxUpsets \in Nat
    /\ Setting \cap 1..NumServers = {}
    /\ Editor \cap {"control", "rollback"} = {}

VARIABLES
    revision,  \* config_revisions; replaced, set and checked are history
    control,   \* config_control_state
    draft,     \* config_drafts
    asked,     \* the expected_version of a publish() under way, or 0
    apply,     \* the holder of the service's lock
    inForce,   \* the revision of managed_holder, the resolver and the agents
    providers, \* the revision managed_extension_providers was built for
    extension, \* what the ExtensionManager holds for a server
    raised,    \* an apply raised after the switch, in this life of Core
    failed,    \* an extension did not start, in this life of Core
    saves, upsets

gvars == <<revision, control, draft, asked, apply, inForce, providers, extension, raised, failed,
           saves, upsets>>

Server == 1..NumServers
Field == Server \cup Setting

\* A server is absent or disabled, or has one of two configurations.
Value(f) == IF f \in Server THEN 0..2 ELSE 1..2
Document == {d \in [Field -> 0..2] : \A f \in Field : d[f] \in Value(f)}

\* The controller's convenience calls use a draft of their own.
Drafter == Editor \cup {"control"}
RevisionId == Nat \ {0}
NoDraft == [base |-> 0, doc |-> [f \in Field |-> 1], version |-> 0, set |-> {}]
NoApply == [pc |-> "free", who |-> "control", doc |-> [f \in Field |-> 1], expected |-> 0,
            previous |-> 0, swapped |-> 0]
NoProvider == [from |-> 0, up |-> FALSE]

RevisionRow == [doc : Document, replaced : Nat, set : SUBSET Field, checked : BOOLEAN,
                kind : {"bootstrap", "draft", "control", "rollback"}]
DraftRow == [base : Nat, doc : Document, version : Nat, set : SUBSET Field]
ControlRow == [desired : RevisionId, applied : RevisionId, status : {"idle", "applying", "failed"}]
LockHolder == [pc : {"free", "checking", "swapping", "switching"}, who : Drafter \cup {"rollback"},
               doc : Document, expected : Nat, previous : Nat, swapped : Nat]
ProviderEntry == [from : Nat, up : BOOLEAN]

ConfigurationTypeOK ==
    /\ revision \in Seq(RevisionRow)
    /\ control \in ControlRow
    /\ draft \in [Drafter -> DraftRow]
    /\ asked \in [Drafter -> Nat]
    /\ apply \in LockHolder
    /\ inForce \in RevisionId /\ providers \in RevisionId
    /\ extension \in [Server -> ProviderEntry]
    /\ raised \in BOOLEAN /\ failed \in BOOLEAN
    /\ saves \in 0..MaxSaves /\ upsets \in 0..MaxUpsets

Doc(r) == revision[r].doc
Named(r) == {s \in Server : Doc(r)[s] # 0}

\* initialize() on an empty database.
ConfigurationInit ==
    /\ revision = <<[doc |-> [f \in Field |-> 1], replaced |-> 0, set |-> Field, checked |-> TRUE,
                     kind |-> "bootstrap"]>>
    /\ control = [desired |-> 1, applied |-> 1, status |-> "idle"]
    /\ draft = [d \in Drafter |-> NoDraft]
    /\ asked = [d \in Drafter |-> 0]
    /\ apply = NoApply
    /\ inForce = 1 /\ providers = 1
    /\ extension = [s \in Server |-> [from |-> 1, up |-> TRUE]]
    /\ raised = FALSE /\ failed = FALSE
    /\ saves = 0 /\ upsets = 0

running == <<inForce, providers, extension, raised, failed>>

Upset(happens) ==
    /\ happens => upsets < MaxUpsets
    /\ upsets' = IF happens THEN upsets + 1 ELSE upsets

-----------------------------------------------------------------------------
(* Drafts *)

\* create_draft(): a copy of the desired revision.
CreateDraft(e) ==
    /\ draft[e] = NoDraft /\ asked[e] = 0
    /\ draft' = [draft EXCEPT ![e] = [base |-> control.desired, doc |-> Doc(control.desired),
                                      version |-> 1, set |-> {}]]
    /\ UNCHANGED <<revision, control, asked, apply, running, saves, upsets>>

\* replace_draft() with the version that is stored; any other is refused.
ReplaceDraft(e, f, v) ==
    /\ draft[e] # NoDraft /\ draft[e].doc[f] # v
    /\ saves < MaxSaves /\ saves' = saves + 1
    /\ LET d == draft[e] IN
       draft' = [draft EXCEPT ![e] = [base |-> d.base, doc |-> [d.doc EXCEPT ![f] = v],
                                      version |-> d.version + 1, set |-> d.set \cup {f}]]
    /\ UNCHANGED <<revision, control, asked, apply, running, upsets>>

\* publish() until it has the lock.  Bound: only a draft that was edited is published.
RequestPublish(e) ==
    /\ draft[e].set # {} /\ asked[e] = 0
    /\ asked' = [asked EXCEPT ![e] = draft[e].version]
    /\ UNCHANGED <<revision, control, draft, apply, running, saves, upsets>>

\* ConfigurationController: set_config(), add_mcp_server(), set_mcp_server_enabled().  The
\* document is made from the applied revision, the draft is based on the desired one.
SetConfig(f, v) ==
    /\ asked["control"] = 0
    /\ Doc(control.applied)[f] # v
    /\ saves < MaxSaves /\ saves' = saves + 1
    /\ draft' = [draft EXCEPT !["control"] =
                   [base |-> control.desired, version |-> 2, set |-> {f},
                    doc |-> [Doc(control.applied) EXCEPT ![f] = v]]]
    /\ asked' = [asked EXCEPT !["control"] = 2]
    /\ UNCHANGED <<revision, control, apply, running, upsets>>

-----------------------------------------------------------------------------
(* ConfigurationService, under its lock *)

TakeLock(d) ==
    /\ apply.pc = "free" /\ asked[d] # 0
    /\ apply' = [pc |-> "checking", who |-> d, doc |-> draft[d].doc, expected |-> asked[d],
                 previous |-> 0, swapped |-> 0]
    /\ UNCHANGED <<revision, control, draft, asked, running, saves, upsets>>

Answered == [d \in Drafter |-> IF d = apply.who THEN 0 ELSE asked[d]]

\* The call returns or raises.
Release == apply' = NoApply /\ asked' = Answered

\* Mutation: a draft may be based on a revision that is no longer the desired one.
UpToDate_OldBase(d) == draft[d].version = apply.expected

UpToDate(d) ==
    /\ draft[d].version = apply.expected
    /\ draft[d].base = control.desired

\* The preflight of a draft passes, and publish_draft() makes it a revision.
PublishDraft ==
    /\ apply.pc = "checking" /\ apply.who # "rollback"
    /\ LET d == apply.who
           made == [doc |-> draft[d].doc, replaced |-> control.desired, set |-> draft[d].set,
                    checked |-> draft[d].doc = apply.doc,
                    kind |-> IF d = "control" THEN "control" ELSE "draft"]
       IN IF UpToDate(d)
          THEN /\ revision' = Append(revision, made)
               /\ control' = [control EXCEPT !.desired = Len(revision) + 1, !.status = "applying"]
               /\ draft' = [draft EXCEPT ![d] = NoDraft]
               /\ apply' = [apply EXCEPT !.pc = "swapping", !.previous = control.applied]
               /\ UNCHANGED asked
          ELSE Release /\ UNCHANGED <<revision, control, draft>>
    /\ UNCHANGED <<running, saves, upsets>>

\* The preflight refuses: a draft stays as it is, a rollback has failed.
PreflightFails ==
    /\ apply.pc = "checking"
    /\ Release
    /\ control' = IF apply.who = "rollback" THEN [control EXCEPT !.status = "failed"] ELSE control
    /\ Upset(TRUE)
    /\ UNCHANGED <<revision, draft, running, saves>>

\* rollback(): the old document is a new revision before its preflight ...
Rollback(r) ==
    /\ apply.pc = "free"
    /\ saves < MaxSaves /\ saves' = saves + 1
    /\ revision' = Append(revision, [doc |-> Doc(r), replaced |-> control.desired, set |-> Field,
                                     checked |-> FALSE, kind |-> "rollback"])
    /\ control' = [control EXCEPT !.desired = Len(revision) + 1, !.status = "applying"]
    /\ apply' = [NoApply EXCEPT !.pc = "checking", !.who = "rollback",
                                !.previous = control.applied]
    /\ UNCHANGED <<draft, asked, running, upsets>>

\* ... passes.
RollbackPasses ==
    /\ apply.pc = "checking" /\ apply.who = "rollback"
    /\ revision' = [revision EXCEPT ![control.desired] = [@ EXCEPT !.checked = TRUE]]
    /\ apply' = [apply EXCEPT !.pc = "swapping"]
    /\ UNCHANGED <<control, draft, asked, running, saves, upsets>>

-----------------------------------------------------------------------------
(* apply_configuration(): the extensions *)

\* remove_provider() of every provider built for r; one of another revision is not found.
Without(r) == [s \in Server |-> IF extension[s].from = r THEN NoProvider ELSE extension[s]]

\* add_provider() in order, until a server is found that is registered already; those in
\* `down` do not start and stay registered.
Added(ext, r, down) ==
    [s \in Server |->
       IF s \in Named(r) /\ \A u \in Named(r) : u <= s => ext[u] = NoProvider
       THEN [from |-> r, up |-> s \notin down] ELSE ext[s]]

\* The servers that do not start: none, or one.
Trouble(r) == {{}} \cup {{s} : s \in Named(r)}

NameTaken(ext, r) == \E s \in Named(r) : ext[s] # NoProvider

\* What is left when the first extension that fails is `at`: those before it are removed
\* again, it is not, and the previous ones are added.
Reinstated(at, down) ==
    LET base == Without(providers)
        left == IF base[at] = NoProvider
                THEN [base EXCEPT ![at] = [from |-> control.desired, up |-> FALSE]] ELSE base
    IN Added(left, providers, down)

Changed == \E s \in Server : Doc(apply.previous)[s] # Doc(control.desired)[s]

\* Nothing to do, or every extension starts.
SwapExtensions ==
    /\ apply.pc = "swapping"
    /\ apply' = [apply EXCEPT !.pc = "switching", !.swapped = IF Changed THEN providers ELSE 0]
    /\ IF Changed
       THEN /\ ~NameTaken(Without(providers), control.desired)
            /\ extension' = Added(Without(providers), control.desired, {})
            /\ providers' = control.desired
       ELSE UNCHANGED <<extension, providers>>
    /\ UNCHANGED <<revision, control, draft, asked, inForce, raised, failed, saves,
                   upsets>>

\* A server of the new document does not start, or its name is taken; mark_failed().
SwapFails(s) ==
    /\ apply.pc = "swapping" /\ Changed
    /\ s \in Named(control.desired)
    /\ \A u \in Named(control.desired) : u < s => Without(providers)[u] = NoProvider
    /\ Upset(Without(providers)[s] = NoProvider)
    /\ \E down \in Trouble(providers) : extension' = Reinstated(s, down)
    /\ failed' = TRUE
    /\ control' = [control EXCEPT !.status = "failed"]
    /\ Release
    /\ UNCHANGED <<revision, draft, inForce, providers, raised, saves>>

-----------------------------------------------------------------------------
(* apply_configuration(): the agents *)

\* replace_generations(), the holders, and mark_applied().
Switch ==
    /\ apply.pc = "switching"
    /\ inForce' = control.desired
    /\ control' = [control EXCEPT !.applied = control.desired, !.status = "idle"]
    /\ Release
    /\ UNCHANGED <<revision, draft, providers, extension, raised, failed, saves, upsets>>

\* An agent is unhealthy or still drains: the previous extensions are put back.
SwitchFails ==
    /\ apply.pc = "switching"
    /\ Upset(TRUE)
    /\ control' = [control EXCEPT !.status = "failed"]
    /\ LET before == apply.swapped IN
       IF before = 0 THEN UNCHANGED <<providers, extension, failed>>
       ELSE \E down \in Trouble(before) :
              /\ extension' = Added(Without(providers), before, down)
              /\ providers' = IF NameTaken(Without(providers), before) THEN providers ELSE before
              /\ failed' = (failed \/ down # {})
    /\ Release
    /\ UNCHANGED <<revision, draft, inForce, raised, saves>>

\* The vision broker or a reviewer cannot be set up: mark_failed(), after the switch.
SwitchRaisesLate ==
    /\ apply.pc = "switching"
    /\ Upset(TRUE)
    /\ inForce' = control.desired
    /\ raised' = TRUE
    /\ control' = [control EXCEPT !.status = "failed"]
    /\ Release
    /\ UNCHANGED <<revision, draft, providers, extension, failed, saves>>

-----------------------------------------------------------------------------
\* The start-up synchronisation: adopt() if the agents Core ships have changed, and then
\* the applied revision, whatever was desired.
Adopted ==
    {[revisions |-> revision, control |-> control]} \cup
    {[revisions |-> Append(revision, [doc |-> doc, replaced |-> control.applied, set |-> Setting,
                                      checked |-> TRUE, kind |-> "bootstrap"]),
      control |-> [desired |-> Len(revision) + 1, applied |-> Len(revision) + 1,
                   status |-> "idle"]] :
       doc \in {[Doc(control.applied) EXCEPT ![f] = 2] : f \in Setting} \ {Doc(control.applied)}}

CoreDiesAndStarts ==
    /\ Upset(TRUE)
    /\ \E start \in Adopted, down \in Trouble(control.applied) :
         LET r == start.control.applied IN
         /\ revision' = start.revisions /\ control' = start.control
         /\ inForce' = r /\ providers' = r
         /\ extension' = [s \in Server |->
                             IF s \in Named(control.applied)
                             THEN [from |-> r, up |-> s \notin down] ELSE NoProvider]
         /\ failed' = (down # {})
    /\ asked' = [d \in Drafter |-> 0]
    /\ apply' = NoApply
    /\ raised' = FALSE
    /\ UNCHANGED <<draft, saves>>

ConfigurationNext ==
    \/ \E e \in Editor : CreateDraft(e) \/ RequestPublish(e)
    \/ \E e \in Editor, f \in Field : \E v \in Value(f) : ReplaceDraft(e, f, v)
    \/ \E f \in Field : \E v \in Value(f) : SetConfig(f, v)
    \/ \E d \in Drafter : TakeLock(d)
    \/ PublishDraft \/ PreflightFails
    \/ \E r \in 1..Len(revision) : Rollback(r)
    \/ RollbackPasses
    \/ SwapExtensions \/ \E s \in Server : SwapFails(s)
    \/ Switch \/ SwitchFails \/ SwitchRaisesLate
    \/ CoreDiesAndStarts

ConfigurationSpec == ConfigurationInit /\ [][ConfigurationNext]_gvars

-----------------------------------------------------------------------------
(* Properties *)

KeepsOthers(r) ==
    \A f \in Field \ revision[r].set : Doc(r)[f] = Doc(revision[r].replaced)[f]

\* publish_draft() undoes nobody's edit: a revision made from a draft differs from the one
\* it replaces only in what was set in that draft, whoever published in between.
DraftsKeepOthers == \A r \in 1..Len(revision) : revision[r].kind = "draft" => KeepsOthers(r)

\* What is applied is what a preflight has accepted, although a draft may be replaced
\* while its preflight runs and a rollback is desired before it.
AppliedIsChecked == revision[control.applied].checked

\* Between two calls the applied revision is in force and its servers run, unless an apply
\* raised after the switch or an extension did not start; nothing else is registered.
AppliedInForce ==
    apply.pc = "free" /\ ~raised =>
        /\ inForce = control.applied
        /\ control.status = "idle" <=> control.desired = control.applied
        /\ ~failed => \A s \in Server :
             IF s \in Named(control.applied) THEN extension[s].up ELSE extension[s] = NoProvider

ConfigurationSound == DraftsKeepOthers /\ AppliedIsChecked /\ AppliedInForce

\* What desired() asks of those who make a draft, its docstring: they build on the revision
\* the registry will base the draft on, so that no update is undone.
NoUpdateIsUndone ==
    \A r \in 1..Len(revision) : revision[r].kind \in {"draft", "control"} => KeepsOthers(r)
=============================================================================
