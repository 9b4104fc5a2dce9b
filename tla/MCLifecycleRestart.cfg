CONSTANTS
    MaxUDPServers = 8
    Runs = {r1, r2}
    Stops = {p1}
    NoSocket = NoSocket
    NumConfigured = 2
    PortFails = FALSE
    Followed = {}
    ChannelCap = 1
SPECIFICATION ServerSpec
INVARIANT SetupReplaces
CHECK_DEADLOCK FALSE
