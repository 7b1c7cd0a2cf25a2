\* One ritual with up to three versions, two clients.
SPECIFICATION Spec
CONSTANTS
    Rituals = {r1}
    Clients = {c1, c2}
    Definitions <- SimilarDefs
    MaxVersion = 3
    None = None
SYMMETRY Symmetry
INVARIANTS
    ExecutedWasApproved
    CurrentIsLatest
