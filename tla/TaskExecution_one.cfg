SPECIFICATION ExecSpec
CONSTANTS
    t1 = t1
    s1 = s1
    p1 = p1
    Task = {t1}
    SessionOf <- OneSessionOf
    OwnerOf <- OneOwnerOf
    Priority <- OnePriority
    Session = {s1}
    Principal = {p1}
    Action = {"read", "write"}
    Step = {"call1", "call2"}
    ActionOf <- ReadWrite
    NeedsApproval = {"write"}
    Reviewer = "off"
    Staged = {}
    MaxActive = 1
    MaxActivePerPrincipal = 1
    MaxAttempts = 2
    MaxEvents = 5
    Happens = {"slow_heartbeat", "stop", "turn_timeout"}
    MaxConcurrency = 2
INVARIANTS
    ExecTypeOK
    EffectOnce
CHECK_DEADLOCK FALSE
