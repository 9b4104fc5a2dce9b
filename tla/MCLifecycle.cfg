CONSTANTS
    MaxUDPServers = 5
    Runs = {r1, r2, r3}
    Stops = {p1, p2}
    NoSocket = NoSocket
    NumConfigured = 2
    PortFails = TRUE
    Followed = {r1}
    ChannelCap = 1
SPECIFICATION ServerSpec
INVARIANT SingleLoopUnlessOverlapped
INVARIANT StopMeansStopped
INVARIANT RunKeepsItsFields
INVARIANT FlagHasOwner
PROPERTY ServerSettles
CHECK_DEADLOCK FALSE
