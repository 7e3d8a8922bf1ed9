SPECIFICATION Spec
CONSTANTS
    Sender = {c1, c2}
    MaxMessage = 2
    Parts = 2
    Worker = {w1, w2, w3}
    LastShorter = TRUE
    Paced = {c1}
INVARIANTS TypeOK  NothingIsStuck
PROPERTY ImplementsDelivery
SYMMETRY Symmetry
CHECK_DEADLOCK FALSE
