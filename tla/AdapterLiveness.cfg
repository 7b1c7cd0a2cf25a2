\* Fairness of Core only: nothing is assumed of the adapters.
SPECIFICATION CoreSpec
CONSTANTS
    Instances = {1}
    Sockets = {s1, s2}
    Dispatches = {d1}
    Hellos <- OneHello
    Actions <- TabActions
    Capacity = 1
    None = None
    Ack = Ack
PROPERTIES
    DispatchReturns
    ShutdownCompletes
