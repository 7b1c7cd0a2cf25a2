\* Two rituals, two runs of three actions each.
SPECIFICATION FairSpec
CONSTANTS
    Rituals = {r1, r2}
    Executions = {e1, e2}
    N = 3
    None = None
INVARIANTS
    SingleRunning
    LocksAccountedFor
    TerminalStepsClosed
PROPERTIES
    HistoryImmutable
    ImplementsHistory
    RunEnds
