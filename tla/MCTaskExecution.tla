-------------------------- MODULE MCTaskExecution --------------------------
(* Small instances of TaskExecution for TLC. *)
EXTENDS TaskExecution, TLC

CONSTANTS t1, s1, p1

\* One Task.
OneSessionOf == t1 :> s1
OneOwnerOf == t1 :> p1
OnePriority == t1 :> 0

\* One tool call that needs approval; a free one and one that needs approval.
OneAction == "call1" :> "write"
ReadWrite == ("call1" :> "read") @@ ("call2" :> "write")

=============================================================================
