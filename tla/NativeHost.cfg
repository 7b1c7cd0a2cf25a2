\* Two events that may share an id, other messages, full channels, and a request of
\* Core that may keep the reader for ever.
SPECIFICATION FairSpec
CONSTANTS
    Ids = {r1, r2}
    MaxTasks = 2
    Capacity = 1
    MaxActions = 1
    MaxMessages = 2
    None = None
CHECK_DEADLOCK FALSE
INVARIANTS
    PendingExact
    AcksGenuine
    AnsweredOnce
PROPERTY
    EventAnswered
