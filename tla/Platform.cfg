SPECIFICATION PlatformSpec
CONSTANTS
    Call = {w, r}
    ReadOnly = {r}
    Bridge = b
    MaxOwners = 6
    MaxTroubles = 1
    Invocation = {i1, i2}
    MaxConcurrency = 1
    MaxParts = 1
    MaxOutages = 2
    Visit = {1, 2, 3}
    SessionOf <- TicketOf
    Session = {"own", "shared"}
    MaxRequests = 2
    MaxLinks = 2
    Nobody = Nobody
    Release = {r1, r2}
    Role = {hub, node}
    Slow = {hub}
    None = None
    MaxLapses = 1
INVARIANTS
    PlatformTypeOK
    McpSound
    RemoteSound
    TunnelSound
    HostSound
PROPERTIES
    RequestsEnd
CHECK_DEADLOCK FALSE
