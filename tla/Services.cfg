SPECIFICATION ServicesSpec
CONSTANTS
    Capacity = 1
    ClientCapacity = 2
    PageLimit = 2
    MaxEvents = 3
    MaxOpens = 2
    MaxStreamFaults = 1
    NumUris = 1
    NumContents = 2
    Spilled <- SecondContent
    MaxDeliveryAttempts = 2
    MaxChanges = 1
    MaxMishaps = 1
    MaxProviders = 5
    MaxCommands = 2
    MaxFailures = 2
    Client = {c1, c2}
    MaxDeaths = 1
    Approver = {c1, c2}
    MaxRestarts = 1
    Key = {k1, k2}
    MaxChildren = 2
    MaxParallelChildren = 1
    MaxBreaks = 1
INVARIANTS
    ServicesTypeOK
    DeliveredOnlyNews
    NoSilentDrift
    QuestionSound
    ActedAsApproved
    FailClosed
PROPERTIES
    SeenInOrder
    StreamsSettle
    EventsSettle
    EventTaskIsRepaired
    AnswerArrives
    FinishedStaysFinished
    TurnsEnd
CHECK_DEADLOCK FALSE
