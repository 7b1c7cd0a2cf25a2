\* Two calls of observe, stop and emitIfRegistered that overlap.
SPECIFICATION ExtSpec
CONSTANTS
    Flows = {f1, f2}
    MaxTransports = 1
    MaxEvents = 2
    MaxChunk = 1
    InvalidFrames = FALSE
    HelloAckAlone = TRUE
SYMMETRY Permutable
INVARIANTS
    Throttled
    OptIn
