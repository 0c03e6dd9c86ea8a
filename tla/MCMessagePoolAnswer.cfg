CONSTANTS
    x1 = x1
    x2 = x2
    Conns <- OneConnection
    MaxId = 1
    MaxSession = 2
    MaxTasks = 2
SPECIFICATION FairSpec
PROPERTY ReconnectionAnswered
CHECK_DEADLOCK FALSE
