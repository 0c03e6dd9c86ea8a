CONSTANTS
    s1 = s1
    s2 = s2
    t1 = t1
    t2 = t2
    Sessions <- TwoSessions
    Tokens <- OneToken
    NoToken = NoToken
    NoSession = NoSession
    MaxCtl = 2
    MaxObj = 2
    MaxSent = 3
    MaxRare = 1
    MaxQueue = 2
SPECIFICATION FairSpec
PROPERTY EventuallyOffline
CHECK_DEADLOCK FALSE
