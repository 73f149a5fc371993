\* Two slots and two stacks: a list finds no empty slot and meets what another thread has put.
SPECIFICATION FairSpec
CONSTANTS
    x1 = x1
    x2 = x2
    x3 = x3
    x4 = x4
    Null = Null
    Thread = {A, B}
    Item = {x1, x2, x3}
    BUFFER_SIZE = 2
    QUEUE_COUNT = 2
    Positions = 2
    Priority <- MCPriority
INVARIANTS TypeOK ReturnsSingle
PROPERTY ImplementsPool Served
