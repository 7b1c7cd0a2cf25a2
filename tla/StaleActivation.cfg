\* Activate reads version 1, an update commits version 2, activate sets the status.
SPECIFICATION Spec
CONSTANTS
    Rituals = {r1}
    Clients = {c1, c2}
    Definitions <- TwoTexts
    MaxVersion = 2
    None = None
INVARIANT
    ActiveVersionApproved
