\* Three slots: the rest of a list finds empty slots, or none, while others look and put.
SPECIFICATION Spec
CONSTANTS
    x1 = x1
    x2 = x2
    x3 = x3
    x4 = x4
    Null = Null
    Thread = {A, B}
    Item = {x1, x2, x3, x4}
    BUFFER_SIZE = 3
    QUEUE_COUNT = 1
    Positions = 3
    Priority <- MCHigh
SYMMETRY Symmetry
INVARIANT FindsIfAlone
PROPERTY ImplementsPool
