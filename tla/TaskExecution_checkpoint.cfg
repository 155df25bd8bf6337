SPECIFICATION ExecSpec
CONSTANTS
    t1 = t1
    s1 = s1
    p1 = p1
    Task = {t1}
    SessionOf <- OneSessionOf
    OwnerOf <- OneOwnerOf
    Priority <- OnePriority
    Session = {s1}
    Principal = {p1}
    Action = {"write"}
    Step = {"call1"}
    ActionOf <- OneAction
    NeedsApproval = {"write"}
    Reviewer = "off"
    Staged = {}
    MaxActive = 1
    MaxActivePerPrincipal = 1
    MaxAttempts = 2
    MaxEvents = 5
    Happens = {"pause", "cancel", "stop", "checkpoint_failure"}
    MaxConcurrency = 1
INVARIANTS
    CompletedIsCheckpointed
CHECK_DEADLOCK FALSE
