\* Two pages, two handlers at a time, one worker killed at work.
SPECIFICATION FairSpec
CONSTANTS
    Pages = {p1, p2}
    Revocable = {p1}
    Tasks = {t1, t2}
    Main = t1
    MaxHandlers = 3
    MaxFaults = 1
    None = None
PROPERTIES
    LocalPauseHolds
    RetryArmed
    ForgottenWhenPaused
    RevocationTakesHold
    PauseNotForever
