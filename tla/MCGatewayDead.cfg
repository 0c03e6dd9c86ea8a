CONSTANTS
    k1 = k1
    k2 = k2
    Client <- OneClient
    MaxConn = 2
    MaxMsg = 1
SPECIFICATION Spec
PROPERTY DeadSessionsAreTold
CHECK_DEADLOCK FALSE
