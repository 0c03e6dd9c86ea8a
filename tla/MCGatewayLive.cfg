CONSTANTS
    k1 = k1
    k2 = k2
    Client <- OneClient
    MaxConn = 2
    MaxMsg = 2
SPECIFICATION FairSpec
PROPERTIES SeesSessionLives CloseArrives
CHECK_DEADLOCK FALSE
