CONSTANTS
    k1 = k1
    k2 = k2
    Client <- TwoClients
    MaxConn = 2
    MaxMsg = 1
SPECIFICATION Spec
SYMMETRY ClientSymmetry
INVARIANTS TypeOK OneHome SessionsSurvive ClosedOnlyByClient
CHECK_DEADLOCK FALSE
