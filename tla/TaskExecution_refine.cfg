SPECIFICATION ExecSpec
CONSTANTS
    t1 = t1
    s1 = s1
    p1 = p1
    Task = {t1}
    SessionOf <- OneSessionOf
    OwnerOf <- OneOwnerOf
    Priority <- OnePriority
    Session = {s1}
    Principal = {p1}
    Action = {"write"}
    Step = {"call1"}
    ActionOf <- OneAction
    NeedsApproval = {"write"}
    Reviewer = "auto"
    Staged = {t1}
    MaxActive = 1
    MaxActivePerPrincipal = 1
    MaxAttempts = 2
    MaxEvents = 4
    Happens = {"pause", "cancel", "overlap", "stop"}
    MaxConcurrency = 1
INVARIANTS
    EffectApproved
PROPERTIES
    Spec
CHECK_DEADLOCK FALSE
