SPECIFICATION DeliveriesSpec
CONSTANTS
    RunAt = 1
    Intervals = {0, 2}
    MaxDeliveryAttempts = 2
    MaxTime = 3
    MaxFires = 2
    MaxCrashes = 1
    NumIntents = 2
    Device = {d1}
    MaxTokens = 2
    Source = {s1, s2}
    NumHooks = 1
    MaxPending = 1
    MaxHubFaults = 1
    NumServers = 2
    Setting = {3}
    Editor = {e1}
    MaxSaves = 2
    MaxUpsets = 1
    Turn = {t1, t2}
    Places = 1
    MaxApplies = 2
INVARIANTS
    DeliveriesTypeOK
    OccurrencesAccounted
    NothingFallsThrough
    ConfigurationSound
    GenerationsSound
PROPERTIES
    FiresOnSchedule
    DeliveriesEnd
CHECK_DEADLOCK FALSE
