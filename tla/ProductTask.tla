---------------------------- MODULE ProductTask ----------------------------
(***************************************************************************)
(* A product Task and the schedule or trigger that launches it.            *)
(*                                                                         *)
(* The definition and its binding live in the Task repository, the         *)
(* provider in the schedule or the trigger repository.  Nothing spans      *)
(* them: ProductTaskLifecycle keeps them together by commands of many      *)
(* steps that undo what they did when a step fails, and                    *)
(* MCPResourceTaskBridge repairs an event Task that has lost its trigger,  *)
(* between any two of these steps.                                         *)
(***************************************************************************)
EXTENDS Integers, FiniteSets

CONSTANTS
    MaxProviders, \* bound: schedules and triggers at one time
    MaxCommands,  \* bound: commands of the client
    MaxFailures   \* bound: steps that raise, and crashes

ASSUME ProductAssumption == MaxProviders \in Nat /\ MaxCommands \in Nat /\ MaxFailures \in Nat

VARIABLES
    def,       \* the row of tasks
    provider,  \* the schedules and triggers created for the Task
    bound,     \* the providers of task_launch_bindings
    cmd,       \* the command of ProductTaskLifecycle in progress
    repair,    \* MCPResourceTaskBridge._ensure_trigger_binding()
    commands,  \* how many commands there have been
    failures,  \* how many steps have failed
    logged,    \* has a rollback failed, which is logged
    crashed    \* has Core died, or a request been cancelled, in mid-command

pvars == <<def, provider, bound, cmd, repair, commands, failures, logged, crashed>>

Kind == {"schedule", "event"}
Provider == 1..MaxProviders
None == 0
OnOff == {"active", "paused"}

\* goal stands for everything a provider is given of the definition.
Definition == [state : {"absent"} \cup OnOff, kind : Kind, goal : 0..MaxCommands]
NoDef == [state |-> "absent", kind |-> "event", goal |-> 0]
NoProvider == [state |-> "absent", kind |-> "event", goal |-> 0, repaired |-> FALSE]

Op == {"none", "create", "update", "delete", "state"}
CmdPc == {"idle", "define", "revise", "check", "find", "remove", "unbind", "provide", "bind",
          "discard", "read", "switch", "store", "restore", "revert", "drop"}
RepairPc == {"off", "idle", "find", "unbind", "provide", "bind", "recheck"}

\* undo: the command is rolling back; task, previous: the records it has read;
\* target: the provider it works on; want: the state it sets; prior: the state of the
\* provider before.
CmdIdle == [op |-> "none", pc |-> "idle", undo |-> FALSE, task |-> NoDef, previous |-> NoDef,
            target |-> None, want |-> "active", prior |-> "active"]
RepairIdle == [pc |-> "idle", task |-> NoDef, target |-> None]
RepairOff == [RepairIdle EXCEPT !.pc = "off"]

ProductTypeOK ==
    /\ def \in Definition
    /\ provider \in [Provider -> [state : {"absent"} \cup OnOff, kind : Kind,
                                  goal : 0..MaxCommands, repaired : BOOLEAN]]
    /\ bound \subseteq Provider
    /\ cmd \in [op : Op, pc : CmdPc, undo : BOOLEAN, task : Definition, previous : Definition,
                target : {None} \cup Provider, want : OnOff, prior : OnOff]
    /\ repair \in [pc : RepairPc, task : Definition, target : {None} \cup Provider]
    /\ commands \in 0..MaxCommands
    /\ failures \in 0..MaxFailures
    /\ logged \in BOOLEAN
    /\ crashed \in BOOLEAN

ProductInit ==
    /\ def = NoDef
    /\ provider = [p \in Provider |-> NoProvider]
    /\ bound = {}
    /\ cmd = CmdIdle
    /\ repair \in {RepairIdle, RepairOff}
    /\ commands = 0
    /\ failures = 0
    /\ logged = FALSE
    /\ crashed = FALSE

Exists(p) == provider[p].state \in OnOff

\* A new ID: nobody knows it.
Unused ==
    LET free == {p \in Provider : ~Exists(p) /\ p \notin bound \cup {cmd.target, repair.target}}
    IN  {p \in free : \A q \in free : p <= q}

\* create() of the schedules or triggers.
Created(p, task, repaired) ==
    [provider EXCEPT ![p] = [state |-> "active", kind |-> task.kind, goal |-> task.goal,
                             repaired |-> repaired]]

\* delete(); a binding keeps the kind of its provider.
Removed(p) == [provider EXCEPT ![p] = [NoProvider EXCEPT !.kind = provider[p].kind]]

\* bind_task_launch(): UNIQUE(task_id, provider_kind).
Bindable(p) ==
    /\ def.state # "absent"
    /\ \A q \in bound : q = p \/ provider[q].kind # provider[p].kind

-----------------------------------------------------------------------------
(* Where a command goes when a step is done, and when it raises *)

Step(pc) == cmd.pc = pc
GoCmd(pc) == cmd' = [cmd EXCEPT !.pc = pc]

AfterRemove ==
    CASE cmd.op = "delete" -> [cmd EXCEPT !.pc = "drop"]
      [] cmd.op = "update" /\ ~cmd.undo -> [cmd EXCEPT !.pc = "provide"]
      [] OTHER -> [cmd EXCEPT !.pc = "revert"]

\* The new provider is active; a Task that is not is paused again.
AfterProvide ==
    IF cmd.op = "create" \/ cmd.task.state = "active" THEN CmdIdle
    ELSE [cmd EXCEPT !.pc = "read", !.want = cmd.task.state]

\* Mutation: a failed update is not rolled back.
AfterRaise_NoUndo(c) ==
    CASE c.op = "create" /\ c.pc # "define" -> [c EXCEPT !.pc = "drop", !.undo = TRUE]
      [] c.op = "delete" /\ c.pc = "drop" /\ ~c.undo -> [c EXCEPT !.pc = "provide", !.undo = TRUE]
      [] OTHER -> CmdIdle

\* The except clauses: create drops the definition, update removes the provider again
\* and goes back to the previous record, delete provides a provider again.
AfterRaise(c) ==
    CASE c.op = "create" /\ c.pc # "define" /\ ~c.undo -> [c EXCEPT !.pc = "drop", !.undo = TRUE]
      [] c.op = "update" /\ c.pc # "revise" /\ ~c.undo -> [c EXCEPT !.pc = "find", !.undo = TRUE]
      [] c.op = "update" /\ c.undo /\ c.pc \in {"find", "remove", "unbind"} ->
            [c EXCEPT !.pc = "revert"]
      [] c.op = "delete" /\ c.pc = "drop" /\ ~c.undo -> [c EXCEPT !.pc = "provide", !.undo = TRUE]
      [] OTHER -> CmdIdle

\* Only a failure of the rollback itself is logged and swallowed.
Raises == cmd' = AfterRaise(cmd) /\ logged' = (logged \/ cmd.undo)

\* A step of a command raises.  A bind that failed discards the provider first, a
\* state that was not stored restores the provider first.
CmdStepFails ==
    /\ ~Step("idle")
    /\ failures < MaxFailures
    /\ failures' = failures + 1
    /\ \/ Step("bind") /\ GoCmd("discard") /\ UNCHANGED logged
       \/ Step("store") /\ cmd.target # None /\ GoCmd("restore") /\ UNCHANGED logged
       \/ /\ Step("discard") \/ Step("restore")
          /\ cmd' = AfterRaise(cmd) /\ logged' = TRUE
       \/ /\ ~Step("bind") /\ ~(Step("store") /\ cmd.target # None)
          /\ ~Step("discard") /\ ~Step("restore")
          /\ Raises
    /\ UNCHANGED <<def, provider, bound, repair, commands, crashed>>

-----------------------------------------------------------------------------
(* The commands: what a client asks for *)

Asks(c) ==
    /\ Step("idle")
    /\ commands < MaxCommands
    /\ commands' = commands + 1
    /\ cmd' = c
    /\ UNCHANGED <<def, provider, bound, repair, failures, logged, crashed>>

AskCreate(kind) ==
    /\ def.state = "absent" /\ commands = 0
    /\ Asks([CmdIdle EXCEPT !.op = "create", !.pc = "define",
                            !.task = [state |-> "active", kind |-> kind, goal |-> 0]])

AskUpdate(kind) ==
    Asks([CmdIdle EXCEPT !.op = "update", !.pc = "revise",
                         !.task = [NoDef EXCEPT !.kind = kind, !.goal = commands]])

AskDelete == Asks([CmdIdle EXCEPT !.op = "delete", !.pc = "check"])

AskState(want) == Asks([CmdIdle EXCEPT !.op = "state", !.pc = "read", !.want = want])

-----------------------------------------------------------------------------
(* The steps of the commands *)

\* TaskService.create_definition()
Define ==
    /\ Step("define")
    /\ def' = cmd.task
    /\ GoCmd("provide")
    /\ UNCHANGED <<provider, bound, repair, commands, failures, logged, crashed>>

\* TaskService.update_definition(): the previous record is read before.
Revise ==
    /\ Step("revise")
    /\ IF def.state = "absent" THEN cmd' = CmdIdle /\ UNCHANGED def
       ELSE LET new == [cmd.task EXCEPT !.state = def.state] IN
            /\ def' = new
            /\ cmd' = [cmd EXCEPT !.pc = "find", !.task = new, !.previous = def]
    /\ UNCHANGED <<provider, bound, repair, commands, failures, logged, crashed>>

\* delete_definition(): a Task that is executing is not deleted.
CheckIdle(executing) ==
    /\ Step("check")
    /\ cmd' = IF def.state = "absent" \/ executing THEN CmdIdle
              ELSE [cmd EXCEPT !.pc = "find", !.task = def]
    /\ UNCHANGED <<def, provider, bound, repair, commands, failures, logged, crashed>>

\* _remove_launch_provider(): any row of the bindings ...
FindProvider ==
    /\ Step("find")
    /\ \/ bound = {} /\ cmd' = AfterRemove
       \/ \E p \in bound : cmd' = [cmd EXCEPT !.pc = "remove", !.target = p]
    /\ UNCHANGED <<def, provider, bound, repair, commands, failures, logged, crashed>>

\* ... its provider, which may be gone already ...
RemoveProvider ==
    /\ Step("remove")
    /\ provider' = Removed(cmd.target)
    /\ GoCmd("unbind")
    /\ UNCHANGED <<def, bound, repair, commands, failures, logged, crashed>>

\* ... and every binding.
Unbind ==
    /\ Step("unbind")
    /\ bound' = {}
    /\ cmd' = AfterRemove
    /\ UNCHANGED <<def, provider, repair, commands, failures, logged, crashed>>

\* _create_launch_provider()
Provide ==
    /\ Step("provide")
    /\ \E p \in Unused :
          /\ provider' = Created(p, cmd.task, FALSE)
          /\ cmd' = [cmd EXCEPT !.pc = "bind", !.target = p]
    /\ UNCHANGED <<def, bound, repair, commands, failures, logged, crashed>>

Bind ==
    /\ Step("bind")
    /\ IF Bindable(cmd.target)
       THEN bound' = bound \cup {cmd.target} /\ cmd' = AfterProvide
       ELSE UNCHANGED bound /\ GoCmd("discard")
    /\ UNCHANGED <<def, provider, repair, commands, failures, logged, crashed>>

Discard ==
    /\ Step("discard")
    /\ provider' = Removed(cmd.target)
    /\ Raises
    /\ UNCHANGED <<def, bound, repair, commands, failures, crashed>>

\* set_definition_state(): the binding is read, ...
ReadBinding ==
    /\ Step("read")
    /\ \/ def.state = "absent" /\ Raises
       \/ /\ def.state # "absent" /\ bound = {}
          /\ cmd' = [cmd EXCEPT !.pc = "store", !.target = None] /\ UNCHANGED logged
       \/ /\ def.state # "absent"
          /\ \E p \in bound : cmd' = [cmd EXCEPT !.pc = "switch", !.target = p]
          /\ UNCHANGED logged
    /\ UNCHANGED <<def, provider, bound, repair, commands, failures, crashed>>

\* ... the provider is paused or resumed, ...
Switch ==
    /\ Step("switch")
    /\ IF ~Exists(cmd.target) THEN Raises /\ UNCHANGED provider
       ELSE /\ provider' = [provider EXCEPT ![cmd.target].state = cmd.want]
            /\ cmd' = [cmd EXCEPT !.pc = "store", !.prior = provider[cmd.target].state]
            /\ UNCHANGED logged
    /\ UNCHANGED <<def, bound, repair, commands, failures, crashed>>

\* ... and the state of the definition stored.
Store ==
    /\ Step("store")
    /\ IF def.state = "absent"
       THEN /\ IF cmd.target # None THEN GoCmd("restore") /\ UNCHANGED logged ELSE Raises
            /\ UNCHANGED def
       ELSE def' = [def EXCEPT !.state = cmd.want] /\ cmd' = CmdIdle /\ UNCHANGED logged
    /\ UNCHANGED <<provider, bound, repair, commands, failures, crashed>>

\* The provider gets back the state it had, if it is still there.
Restored == IF Exists(cmd.target) THEN [provider EXCEPT ![cmd.target].state = cmd.prior]
            ELSE provider

Restore ==
    /\ Step("restore")
    /\ provider' = Restored
    /\ Raises
    /\ UNCHANGED <<def, bound, repair, commands, failures, crashed>>

\* The rollback of an update: the definition as it was, with a provider of its own.
Revert ==
    /\ Step("revert")
    /\ IF def.state = "absent" THEN cmd' = CmdIdle /\ UNCHANGED def
       ELSE /\ def' = [cmd.previous EXCEPT !.state = def.state]
            /\ cmd' = [cmd EXCEPT !.pc = "provide", !.task = cmd.previous]
    /\ UNCHANGED <<provider, bound, repair, commands, failures, logged, crashed>>

\* TaskService.delete_definition(): refused while the Task executes, which an active
\* one may have begun since; the bindings go with it (ON DELETE CASCADE).
Drop(executing) ==
    /\ Step("drop")
    /\ executing => def.state = "active"
    /\ IF def.state = "absent" \/ executing THEN Raises /\ UNCHANGED <<def, bound>>
       ELSE def' = NoDef /\ bound' = {} /\ cmd' = CmdIdle /\ UNCHANGED logged
    /\ UNCHANGED <<provider, repair, commands, failures, crashed>>

-----------------------------------------------------------------------------
(* MCPResourceTaskBridge._ensure_trigger_binding() *)

RepairAt(pc) == repair.pc = pc
GoRepair(pc) == repair' = [repair EXCEPT !.pc = pc]

\* list_event_definitions(): the active event Tasks.
RepairStarts ==
    /\ RepairAt("idle")
    /\ def.state = "active" /\ def.kind = "event"
    /\ repair' = [RepairIdle EXCEPT !.pc = "find", !.task = def]
    /\ UNCHANGED <<def, provider, bound, cmd, commands, failures, logged, crashed>>

\* Mutation: any binding will do.
Dangling_Never(p) == FALSE

\* The binding names a trigger that is not there.
Dangling(p) == provider[p].kind = "event" /\ ~Exists(p)

\* A binding whose trigger exists is fine; one of a schedule is left alone; one whose
\* trigger is missing is removed.
RepairFinds ==
    /\ RepairAt("find")
    /\ \/ def.state = "absent" /\ repair' = RepairIdle
       \/ def.state # "absent" /\ bound = {} /\ GoRepair("provide")
       \/ /\ def.state # "absent"
          /\ \E p \in bound : repair' = IF Dangling(p) THEN [repair EXCEPT !.pc = "unbind"]
                                        ELSE RepairIdle
    /\ UNCHANGED <<def, provider, bound, cmd, commands, failures, logged, crashed>>

RepairUnbinds ==
    /\ RepairAt("unbind")
    /\ bound' = {}
    /\ IF def.state = "absent" THEN repair' = RepairIdle ELSE GoRepair("provide")
    /\ UNCHANGED <<def, provider, cmd, commands, failures, logged, crashed>>

\* The request ID of a repair is always the same: an earlier trigger of a repair is
\* found again, and conflicts if the definition has changed since.
RepairProvides ==
    /\ RepairAt("provide")
    /\ \/ \E p \in Provider :
            /\ Exists(p) /\ provider[p].repaired
            /\ repair' = IF provider[p].goal = repair.task.goal
                         THEN [repair EXCEPT !.pc = "bind", !.target = p] ELSE RepairIdle
            /\ UNCHANGED provider
       \/ /\ \A p \in Provider : ~(Exists(p) /\ provider[p].repaired)
          /\ \E p \in Unused : /\ provider' = Created(p, repair.task, TRUE)
                               /\ repair' = [repair EXCEPT !.pc = "bind", !.target = p]
    /\ UNCHANGED <<def, bound, cmd, commands, failures, logged, crashed>>

RepairBinds ==
    /\ RepairAt("bind")
    /\ IF Bindable(repair.target)
       THEN bound' = bound \cup {repair.target} /\ repair' = RepairIdle
       ELSE UNCHANGED bound /\ GoRepair("recheck")
    /\ UNCHANGED <<def, provider, cmd, commands, failures, logged, crashed>>

\* The binding is looked up again: an event binding of another is used and the trigger
\* left; a definition that is gone raises before the trigger is deleted.
RepairRechecks ==
    /\ RepairAt("recheck")
    /\ repair' = RepairIdle
    /\ \/ /\ def.state = "absent" \/ \E p \in bound : provider[p].kind = "event"
          /\ UNCHANGED provider
       \/ /\ def.state # "absent" /\ ~\E p \in bound : provider[p].kind = "event"
          /\ provider' = Removed(repair.target)
    /\ UNCHANGED <<def, bound, cmd, commands, failures, logged, crashed>>

\* Any await may raise; that is logged by the pass, and the next one begins anew.
RepairFails ==
    /\ repair.pc \notin {"off", "idle"}
    /\ failures < MaxFailures
    /\ failures' = failures + 1
    /\ IF RepairAt("bind") THEN GoRepair("recheck") ELSE repair' = RepairIdle
    /\ UNCHANGED <<def, provider, bound, cmd, commands, logged, crashed>>

\* Core dies, or the request is cancelled, which no except clause catches: the command
\* is never taken up again.
ProductCrash ==
    /\ failures < MaxFailures
    /\ failures' = failures + 1
    /\ crashed' = TRUE
    /\ cmd' = CmdIdle
    /\ repair' = IF RepairAt("off") THEN repair ELSE RepairIdle
    /\ UNCHANGED <<def, provider, bound, commands, logged>>

Asking ==
    \/ \E kind \in Kind : AskCreate(kind) \/ AskUpdate(kind)
    \/ AskDelete
    \/ \E want \in OnOff : AskState(want)

CmdStep ==
    \/ Define \/ Revise
    \/ \E executing \in BOOLEAN : CheckIdle(executing) \/ Drop(executing)
    \/ FindProvider \/ RemoveProvider \/ Unbind
    \/ Provide \/ Bind \/ Discard
    \/ ReadBinding \/ Switch \/ Store \/ Restore
    \/ Revert

RepairStep ==
    \/ RepairStarts \/ RepairFinds \/ RepairUnbinds
    \/ RepairProvides \/ RepairBinds \/ RepairRechecks

ProductNext ==
    \/ Asking
    \/ CmdStep
    \/ CmdStepFails
    \/ RepairStep
    \/ RepairFails
    \/ ProductCrash

\* Commands go on by themselves; the bridge looks again after an interval.
ProductFairness == WF_pvars(CmdStep) /\ WF_pvars(RepairStep)

ProductSpec == ProductInit /\ [][ProductNext]_pvars /\ ProductFairness

-----------------------------------------------------------------------------
(* Properties *)

Quiet == Step("idle")

\* The definition has one provider, which was made from it and is paused when it is; or
\* it is bound to one that is missing, which launch_status() tells the client.
Coherent ==
    IF def.state = "absent" THEN \A p \in Provider : ~Exists(p)
    ELSE \E p \in bound :
            /\ bound = {p}
            /\ Exists(p) => /\ provider[p].kind = def.kind /\ provider[p].goal = def.goal
                          /\ provider[p].state = def.state
            /\ \A q \in Provider \ {p} : ~Exists(q)

\* The except clauses of ProductTaskLifecycle: wherever one step of a command fails, or
\* two, the definition and its provider agree again when the command is over, no schedule
\* or trigger is left behind, and an active one never launches a paused Task, unless a
\* rollback failed too, which is logged.  (Without a bridge, which races the commands,
\* and a crash.)
NoSilentDrift == Quiet /\ RepairAt("off") /\ ~crashed /\ ~logged => Coherent

\* What the repair cannot mend: a schedule bound to what has become an event Task,
\* and a trigger of an earlier repair that is bound to nothing and has another goal.
Unmendable ==
    \/ \E p \in bound : provider[p].kind = "schedule"
    \/ \E p \in Provider \ bound : Exists(p) /\ provider[p].repaired
                                    /\ provider[p].goal # def.goal

\* _ensure_trigger_binding(): however a command was cut short, an active event Task gets
\* a trigger again in the end and keeps it.
EventTaskIsRepaired ==
    <>[](~RepairAt("off") /\ Quiet /\ def.state = "active" /\ def.kind = "event") =>
        <>[](Unmendable \/ \E p \in bound : provider[p].kind = "event" /\ Exists(p))
=============================================================================
