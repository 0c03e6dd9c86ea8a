CONSTANTS
    x1 = x1
    x2 = x2
    Conns <- TwoConnections
    MaxId = 2
    MaxSession = 3
    MaxTasks = 2
SPECIFICATION Spec
SYMMETRY ConnSymmetry
INVARIANTS TypeOK NoneLost
PROPERTY ImplementsOutbox
CHECK_DEADLOCK FALSE
