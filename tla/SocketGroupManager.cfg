\* Three sockets, two of them with the same port number, and one group object
\* with room for one socket, that is full, ends and is used again.
SPECIFICATION FairSpec
CHECK_DEADLOCK FALSE
CONSTANTS
    g1 = g1
    s1 = s1
    s2 = s2
    s3 = s3
    None = None
    Groups <- OneGroup
    Sockets <- ThreeSockets
    Port <- SharedPorts
    Talkers <- TwoTalk
    mSize = 1
    CacheSize = 1
INVARIANTS
    TypeOK
    Served
    ListedOnce
    OneReceiver
    NoneLost
    PoolSuffices
PROPERTIES
    ClosedIsAnnounced
