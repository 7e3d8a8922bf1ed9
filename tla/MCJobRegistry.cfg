SPECIFICATION Spec
CONSTANTS
    Client = {c1, c2}
    Extended = {c1, c2}
    Concurrent = {c1}
    Worker = {w1, w2, w3}
    MaxRequest = 3
    StackLength = 1
INVARIANTS TypeOK ContextsHaveOnePlace  
SYMMETRY Symmetry
CHECK_DEADLOCK FALSE
