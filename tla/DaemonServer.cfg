\* Two daemons over one database and one socket path, two clients, crashes everywhere.
SPECIFICATION FairSpec
CONSTANTS
    Daemons = {d1, d2}
    Clients = {k1, k2}
    Events = {e1, e2}
    LegacyEvents = {e1}
    InitialVersions = {0, 3, 5}
    FrameLimit = 1
    None = None
INVARIANTS
    SchemaWhole
    LeftoversHarmless
    ReachableUnlessOverlapped
PROPERTY
    ShutdownEnds
