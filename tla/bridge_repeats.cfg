\* One other bridge, which answers two requests.
SPECIFICATION Spec
CONSTANTS
    PortMax = 3
    Addresses = {"self", "peer"}
    Peers = {"self", "peer"}
    Self = "self"
    TcpPort = 3
    Times = {1, 2}
    Replies <- MCRepeated
    Targets <- MCTargets
    Noise = {}
    Remotes = {"remote"}
    FaultSets = {{}}
    AcceptErrors = FALSE
INVARIANT OneConnectionPerPeer
CHECK_DEADLOCK TRUE
