SPECIFICATION Spec
CONSTANTS
  Player = {p1, p2, p3}
  Guild = {g1}
  NoRecord = NoRecord
  Out = Out
  Zero = Zero
  MaxLevel = 1
  MaxMemberSize <- OneLevel
  RightLevel2MemberSize <- OneOfLevel
  RightLevel1MemberSize <- OneOfLevel
  MaxCanReqSize = 2
  EnterGuildCD = 1
  MaxCharges = 0
  MaxQueries = 0
SYMMETRY PlayerSymmetry
INVARIANTS
  OnlyExOwnersHaveStraySeats
  MemberLimit
  MembersHaveNoRequests
  RequestsAreGenuine
  QuickJoinNeedsNoRequest
