\* Two reconnections, two events, a peer that may send frames to be refused, but
\* none in the chunk of a hello acknowledgement: Core sends none there.
SPECIFICATION FairSpec
CONSTANTS
    MaxTransports = 3
    MaxEvents = 2
    MaxChunk = 2
    InvalidFrames = TRUE
    HelloAckAlone = TRUE
INVARIANTS
    PendingOnCurrent
    NoLeakedSocket
    OneAttemptAtATime
    StoppedIsQuiet
    ReconnectArmed
    EventsInOrder
PROPERTIES
    EmitSettles
