CONSTANTS
    s1 = s1
    s2 = s2
    t1 = t1
    t2 = t2
    Sessions <- TwoSessions
    Tokens <- TwoTokens
    NoToken = NoToken
    NoSession = NoSession
    MaxCtl = 2
    MaxObj = 2
    MaxSent = 4
    MaxRare = 1
    MaxQueue = 2
SPECIFICATION Spec
SYMMETRY LoginSymmetry
INVARIANTS TypeOK TokensFollowPlayers OneClient Reachable NoGhost
CHECK_DEADLOCK FALSE
