CONSTANTS
    p1 = p1
    p2 = p2
    p3 = p3
    Player <- TwoPlayers
    FriendListSize = 1
    BlackListSize = 1
    NoList = NoList
    OwnId = FALSE
    MaxFaults = 1
SPECIFICATION Spec
SYMMETRY PlayerSymmetry
INVARIANTS TypeOK OneRequest NeverBoth AcceptedAreFriends CrashLosesNoEntry
