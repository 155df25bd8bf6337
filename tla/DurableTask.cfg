SPECIFICATION MCSpec
CONSTANTS
    t0 = t0
    t1 = t1
    t2 = t2
    t3 = t3
    s0 = s0
    s1 = s1
    s2 = s2
    p0 = p0
    p1 = p1
    p2 = p2
    Task = {t0, t1, t2, t3}
    SessionOf <- ManySessionOf
    OwnerOf <- ManyOwnerOf
    Priority <- ManyPriority
    Session = {s0, s1, s2}
    Principal = {p0, p1, p2}
    Action = {"write", "send"}
    Step = {"call1", "call2"}
    Staged = {t0}
    MaxActive = 2
    MaxActivePerPrincipal = 2
    MaxAttempts = 3
    MaxEvents = 6
SYMMETRY TwinSymmetry
INVARIANTS
    TypeOK
    JournalMatchesTask
    LeaseFollowsAttempt
    SessionExclusive
    CapacityRespected
PROPERTIES
    TerminalIsFinal
    DecidedOnce
    ImplementsLifecycle
CHECK_DEADLOCK FALSE
