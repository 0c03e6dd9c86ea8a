SPECIFICATION FairSpec
CONSTANTS
  Player = {p1, p2}
  Guild = {g1}
  NoRecord = NoRecord
  Out = Out
  Zero = Zero
  MaxLevel = 2
  MaxMemberSize <- TwoLevels
  RightLevel2MemberSize <- NoLimit
  RightLevel1MemberSize <- NoLimit
  MaxCanReqSize = 0
  EnterGuildCD = 0
  MaxCharges = 2
  MaxQueries = 1
INVARIANTS
  TypeOK
  PlayerAgreesWithRecord
  DoubleChargeOnlyAtLastLevel
PROPERTIES
  DissolutionCompletes
