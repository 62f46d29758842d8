\* Both releases; two calls that open sockets, two failures, two chunks.
SPECIFICATION FairSpec
CONSTANTS
    Urls = {camera}
    Releases = {"player", "server"}
    Listening = TRUE
    MaxCalls = 2
    MaxFaults = 2
    MaxChunks = 2
INVARIANTS
    TypeOK
    NeverStalls
    OneStream
    RightStream
    NoIdleBacklog
PROPERTIES
    ImplementsPlayback
    Recovers
