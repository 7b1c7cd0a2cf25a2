\* An adapter that stops reading while its channel is full.
SPECIFICATION CoreSpec
CONSTANTS
    Instances = {1}
    Sockets = {s1, s2}
    Dispatches = {d1}
    Hellos <- OneHello
    Actions <- TabActions
    Capacity = 1
    None = None
    Ack = Ack
PROPERTY
    TimeoutBoundsCall
