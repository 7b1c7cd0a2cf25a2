\* Two instance ids that register, reconnect and end over two sockets whose hellos
\* offer different things, a dispatch, and a channel of one.
SPECIFICATION Spec
CONSTANTS
    Instances = {1, 2}
    Sockets = {s1, s2}
    Dispatches = {d1}
    Hellos <- BrowserHellos
    Actions <- TabActions
    Capacity = 1
    None = None
    Ack = Ack
SYMMETRY Symmetry
INVARIANTS
    PendingExact
    NoOrphanPending
    RegistryLive
    RoutedToEligible
PROPERTY
    StaleTeardownHarmless
