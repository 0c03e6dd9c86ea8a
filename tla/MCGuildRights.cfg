SPECIFICATION Spec
CONSTANTS
  Player = {p1, p2}
  Guild = {g1}
  NoRecord = NoRecord
  Out = Out
  Zero = Zero
  MaxLevel = 1
  MaxMemberSize <- OneLevel
  RightLevel2MemberSize <- OneOfLevel
  RightLevel1MemberSize <- OneOfLevel
  MaxCanReqSize = 0
  EnterGuildCD = 1
  MaxCharges = 0
  MaxQueries = 0
PROPERTIES
  NoOperationOnSuperiors
