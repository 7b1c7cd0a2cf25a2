\* A browser instance with an old and a new socket, retransmitting two numbers.
SPECIFICATION Spec
CONSTANTS
    b1 = b1
    b2 = b2
    v1 = v1
    Locators = {"page", "folder"}
    Clients = {c1}
    Sockets = {b1, b2, v1}
    HelloOf <- Hellos
    InstanceOf <- InstanceIds
    SequenceNumbers = {0, 1}
    None = None
INVARIANTS
    SequencesExact
    EventsConsented
    PauseTakesHold
