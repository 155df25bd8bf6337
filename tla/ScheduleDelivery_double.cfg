SPECIFICATION DeliverySpec
CONSTANTS
    RunAt = 1
    Intervals = {0, 2}
    MaxDeliveryAttempts = 2
    MaxTime = 3
    MaxFires = 2
    MaxCrashes = 1
INVARIANTS
    SingleActive
CHECK_DEADLOCK FALSE
