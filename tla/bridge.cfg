\* Two keys: we find ourselves, and a datagram from elsewhere names a peer.  A plain target,
\* and one with a colon in it.  Sends, receives and accepts may fail, and a datagram may be
\* empty, lost, delayed or repeated.
SPECIFICATION FairSpec
CONSTANTS
    PortMax = 3
    Addresses = {"self", "peer"}
    Peers = {"self", "peer"}
    Self = "self"
    TcpPort = 3
    Times = {1, 2}
    Replies <- MCReplies
    Targets <- MCTargets
    Noise <- MCNoise
    Remotes = {"remote"}
    FaultSets = {{"send", "receive"}}
    AcceptErrors = TRUE
INVARIANTS ConnectsToTheNamed FoundIsAccepting DestroyedIsQuiet
PROPERTIES ClientsAreKept HeardIsTried DestructorReturns
CHECK_DEADLOCK TRUE
