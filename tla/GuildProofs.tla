---------------------------- MODULE GuildProofs ----------------------------
(***************************************************************************)
(* Proofs that the membership records of Guild stay consistent, for every  *)
(* number of players and guilds and every configuration table.             *)
(***************************************************************************)
EXTENDS Guild, FiniteSetTheorems, TLAPS

USE DEF cacheVars

(* Every handler, timer and cache operation keeps the shape of the state.  *)
LEMMA TypeInit == Init => TypeOK
  BY GuildAssumption DEF Init, TypeOK, GuildStatus, RightLevels, NotIn, NoReqs, ReqKey, ReqStatus

LEMMA LevelTypes ==
    /\ {Level0, Level1, Level2, Level3} = RightLevels
    /\ NotIn \notin RightLevels
  BY DEF RightLevels, NotIn, Level0, Level1, Level2, Level3

LEMMA NoReqsType ==
    /\ NoReqs \in [ReqKey -> ReqStatus]
    /\ {"none", "NORMAL"} \subseteq ReqStatus
    /\ Guild \subseteq ReqKey /\ Zero \in ReqKey
  BY DEF NoReqs, ReqStatus, ReqKey

LEMMA DirectJoinType ==
    ASSUME TypeOK, NEW p \in Player, NEW g \in Guild, NEW r \in RightLevels,
           DirectJoinGuild(p, g, r)
    PROVE  /\ memberGuild' \in [Player -> Guild \cup {NoRecord, Out}]
           /\ pGuild' \in [Player -> Guild \cup {Out}]
           /\ req' \in [Player -> [ReqKey -> ReqStatus]]
           /\ rights' \in [Guild -> [Player -> RightLevels \cup {NotIn}]]
<1>1. CASE AlreadyInGuild(p)
  BY <1>1 DEF TypeOK, DirectJoinGuild
<1>2. CASE ~AlreadyInGuild(p)
  <2>1. memberGuild' \in [Player -> Guild \cup {NoRecord, Out}]
    BY <1>2 DEF TypeOK, DirectJoinGuild
  <2>2. pGuild' \in [Player -> Guild \cup {Out}]
    BY <1>2 DEF TypeOK, DirectJoinGuild
  <2>3. req' \in [Player -> [ReqKey -> ReqStatus]]
    BY <1>2, NoReqsType DEF TypeOK, DirectJoinGuild
  <2>4. rights' \in [Guild -> [Player -> RightLevels \cup {NotIn}]]
    <3>1. rights' = [rights EXCEPT ![g] = [rights[g] EXCEPT ![p] = r]]
      BY <1>2 DEF DirectJoinGuild
    <3>2. [rights[g] EXCEPT ![p] = r] \in [Player -> RightLevels \cup {NotIn}]
      BY DEF TypeOK
    <3> QED
      BY <3>1, <3>2 DEF TypeOK
  <2> QED
    BY <2>1, <2>2, <2>3, <2>4
<1> QED
  BY <1>1, <1>2

(* A load and the first half of a query build the player alike: a join that *)
(* an accepted request still owed, or the records put right.               *)
LEMMA BuildEffect ==
    ASSUME TypeOK, NEW p \in Player, Load(p) \/ QueryBuilds(p)
    PROVE  /\ UNCHANGED <<cached, status, owner, needReq, level, noReq, inDissolution,
                          cooling, donated, history>>
           /\ \/ /\ NotInGuild(p) /\ UNCHANGED cacheVars
                 /\ \E g \in cached : /\ req[p][g] = "ACCEPT" /\ ~IsMaxSize(rights[g], level[g])
                                      /\ DirectJoinGuild(p, g, Level3)
              \/ BuildAsLoad(p) /\ (Load(p) \/ QueryBuilds(p)) /\ AcceptedBy(p) = {}
<1>1. CASE Load(p)
  BY <1>1 DEF Load, AcceptedBy
<1>2. CASE QueryBuilds(p)
  BY <1>2 DEF QueryBuilds, AcceptedBy
<1> QED
  BY <1>1, <1>2

(* What building a player does to the records: they keep their shape, and  *)
(* the guild the record names is one that PlayerVO.guildID can hold.       *)
LEMMA BuildType ==
    ASSUME TypeOK, NEW p \in Player, BuildAsLoad(p)
    PROVE  /\ memberGuild' \in [Player -> Guild \cup {NoRecord, Out}]
           /\ req' \in [Player -> [ReqKey -> ReqStatus]]
           /\ GuildIDOf(p)' \in Guild \cup {Out}
<1>1. CASE NotInGuild(p)
  BY <1>1 DEF TypeOK, BuildAsLoad, GuildIDOf, NotInGuild
<1>2. CASE ~NotInGuild(p)
  <2>1. memberGuild' \in [Player -> Guild \cup {NoRecord, Out}]
    BY <1>2 DEF TypeOK, BuildAsLoad
  <2>2. req' \in [Player -> [ReqKey -> ReqStatus]]
    BY <1>2, NoReqsType DEF TypeOK, BuildAsLoad
  <2>3. GuildIDOf(p)' \in Guild \cup {Out}
    BY <2>1 DEF GuildIDOf, NotInGuild
  <2> QED
    BY <2>1, <2>2, <2>3
<1> QED
  BY <1>1, <1>2

LEMMA TypeStep == TypeOK /\ [Next]_vars => TypeOK'
<1> SUFFICES ASSUME TypeOK, [Next]_vars PROVE TypeOK'
  OBVIOUS
<1> USE GuildAssumption, LevelTypes, NoReqsType
<1>1. ASSUME NEW p \in Player, NEW g \in Guild, NEW need \in BOOLEAN, CreateGuild(p, g, need)
      PROVE  TypeOK'
  <2>1. level' = level /\ noReq' \subseteq Guild
    BY <1>1 DEF TypeOK, CreateGuild, RefNoNeedReqGuilds
  <2> QED
    BY <1>1, <2>1, DirectJoinType DEF TypeOK, CreateGuild, GuildStatus
<1>2. ASSUME NEW p \in Player, NEW g \in Guild, NEW id \in {g, Zero}, JoinGuild(p, id, g)
      PROVE  TypeOK'
  <2>1. noReq' \subseteq Guild
    BY <1>2 DEF TypeOK, JoinGuild, RefNoNeedReqGuilds
  <2>2. CASE needReq[g]
    <3>1. req' = [req EXCEPT ![p] = [req[p] EXCEPT ![id] = "NORMAL"]]
      BY <1>2, <2>2 DEF JoinGuild
    <3>2. [req[p] EXCEPT ![id] = "NORMAL"] \in [ReqKey -> ReqStatus]
      BY DEF TypeOK
    <3> QED
      BY <1>2, <2>1, <2>2, <3>1, <3>2 DEF TypeOK, JoinGuild, history
  <2>3. CASE ~needReq[g]
    BY <1>2, <2>1, <2>3, DirectJoinType DEF TypeOK, JoinGuild, history
  <2> QED
    BY <2>2, <2>3
<1>3. ASSUME NEW p \in Player, NEW g \in Guild, NEW need \in BOOLEAN, ModifyNeedReqStatus(p, g, need)
      PROVE  TypeOK'
  BY <1>3 DEF TypeOK, ModifyNeedReqStatus, memberVars, playerVars, history
<1>4. ASSUME NEW p \in Player, NEW g \in Guild, NotAllJoinReq(p, g)
      PROVE  TypeOK'
  BY <1>4 DEF TypeOK, NotAllJoinReq, ReqKey, ReqStatus, guildVars, playerVars, history
<1>5. ASSUME NEW p \in Player, NEW g \in Guild, DissolutionGuild(p, g) \/ CancelDissolutionGuild(p, g)
      PROVE  TypeOK'
  BY <1>5 DEF TypeOK, GuildStatus, DissolutionGuild, CancelDissolutionGuild, memberVars, playerVars, history
<1>6. ASSUME NEW p \in Player, NEW g \in Guild, Donate(p, g)
      PROVE  TypeOK'
  <2>1. charges' \in [Player -> Nat]
    BY <1>6 DEF TypeOK, Donate
  <2>2. level' \in [Guild -> 1..MaxLevel]
    <3>1. CASE level[g] = MaxLevel
      BY <1>6, <3>1 DEF TypeOK, Donate
    <3>2. CASE level[g] # MaxLevel
      <4>1. PICK l \in {level[g], level[g] + 1} : level' = [level EXCEPT ![g] = l]
        BY <1>6, <3>2 DEF Donate
      <4>2. l \in 1..MaxLevel
        BY <3>2 DEF TypeOK
      <4> QED
        BY <4>1, <4>2 DEF TypeOK
    <3> QED
      BY <3>1, <3>2
  <2>3. donated' \subseteq Player
    BY <1>6 DEF TypeOK, Donate
  <2> QED
    BY <1>6, <2>1, <2>2, <2>3 DEF TypeOK, Donate, playerVars
<1>7. ASSUME NEW p \in Player, NEW q \in Player, NEW g \in Guild, AcceptJoin(p, q, g)
      PROVE  TypeOK'
  <2>1. CASE NotInGuild(q) /\ req[q][g] = "NORMAL"
    BY <1>7, <2>1, DirectJoinType DEF TypeOK, AcceptJoin, history
  <2>2. CASE ~(NotInGuild(q) /\ req[q][g] = "NORMAL")
    <3>1. req' = [req EXCEPT ![q] = [req[q] EXCEPT ![g] = "none"]]
      BY <1>7, <2>2 DEF AcceptJoin
    <3>2. [req[q] EXCEPT ![g] = "none"] \in [ReqKey -> ReqStatus]
      BY DEF TypeOK
    <3> QED
      BY <1>7, <2>2, <3>1, <3>2 DEF TypeOK, AcceptJoin, history
  <2> QED
    BY <2>1, <2>2
<1>8. ASSUME NEW p \in Player, NEW q \in Player, NEW g \in Guild, RefuseJoin(p, q, g)
      PROVE  TypeOK'
  BY <1>8 DEF TypeOK, RefuseJoin, ReqKey, ReqStatus, guildVars, playerVars, history
<1>9. ASSUME NEW p \in Player, NEW q \in Player, NEW g \in Guild,
             NEW r \in {Level3, Level2, Level1}, ModifyRight(p, q, g, r)
      PROVE  TypeOK'
  BY <1>9 DEF TypeOK, ModifyRight, memberVars, playerVars, history
<1>10. ASSUME NEW p \in Player, NEW q \in Player, NEW g \in Guild, OutGuild(p, q, g)
       PROVE  TypeOK'
  <2>1. noReq' \subseteq Guild
    BY <1>10 DEF TypeOK, OutGuild, RefNoNeedReqGuilds
  <2>2. rights' \in [Guild -> [Player -> RightLevels \cup {NotIn}]]
    BY <1>10 DEF TypeOK, OutGuild
  <2>3. /\ memberGuild' \in [Player -> Guild \cup {NoRecord, Out}]
        /\ pGuild' \in [Player -> Guild \cup {Out}]
        /\ cooling' \subseteq Player
    <3>1. CASE memberGuild[q] = NoRecord
      BY <1>10, <3>1 DEF TypeOK, OutGuild
    <3>2. CASE memberGuild[q] # NoRecord
      <4>1. memberGuild' \in [Player -> Guild \cup {NoRecord, Out}]
        BY <1>10, <3>2 DEF TypeOK, OutGuild
      <4>2. cooling' \subseteq Player
        BY <1>10, <3>2, SMTT(30) DEF TypeOK, OutGuild
      <4>3. pGuild' \in [Player -> Guild \cup {Out}]
        <5>1. pGuild' \in {pGuild, [pGuild EXCEPT ![q] = Out]}
          BY <1>10, <3>2 DEF OutGuild
        <5> QED
          BY <5>1 DEF TypeOK
      <4> QED
        BY <4>1, <4>2, <4>3
    <3> QED
      BY <3>1, <3>2
  <2> QED
    BY <1>10, <2>1, <2>2, <2>3 DEF TypeOK, OutGuild, history
<1>11. ASSUME NEW p \in Player, NEW q \in Player, NEW g \in Guild, ChgOwner(p, q, g)
       PROVE  TypeOK'
  BY <1>11 DEF TypeOK, ChgOwner, memberVars, playerVars
<1>12. ASSUME NEW due \in SUBSET inDissolution, HalfHourJob(due)
       PROVE  TypeOK'
  <2>1. req' \in [Player -> [ReqKey -> ReqStatus]]
    BY <1>12 DEF TypeOK, HalfHourJob, ClearGuildReq, ReqStatus
  <2> QED
    BY <1>12, <2>1 DEF TypeOK, GuildStatus, HalfHourJob, CheckInDissolutionGuild,
                       RecordsAfterDissolution, history
<1>14. ASSUME NEW active \in SUBSET Player, NEW newOwner \in [Guild -> Player \cup {NoRecord}],
              DayOffset4Job(active, newOwner)
       PROVE  TypeOK'
  <2>1. owner' \in [Guild -> Player \cup {NoRecord}] /\ everOwner' \subseteq Player
    BY <1>14 DEF TypeOK, DayOffset4Job, ReplaceGuildLeader, Replaced, Heirs
  <2>2. ASSUME NEW g \in Guild
        PROVE  [rights[g] EXCEPT ![newOwner[g]] = Level0, ![owner[g]] = Level1]
                  \in [Player -> RightLevels \cup {NotIn}]
    BY DEF TypeOK
  <2>3. rights' \in [Guild -> [Player -> RightLevels \cup {NotIn}]]
    BY <1>14, <2>2 DEF TypeOK, DayOffset4Job, ReplaceGuildLeader
  <2>4. donated' \subseteq Player /\ charges' \in [Player -> Nat]
    BY <1>14 DEF TypeOK, DayOffset4Job, SystemResetGuildData
  <2> QED
    BY <1>14, <2>1, <2>3, <2>4 DEF TypeOK, DayOffset4Job, playerVars
<1>15. ASSUME NEW p \in Player, CoolDown(p) \/ Evict(p)
       PROVE  TypeOK'
  BY <1>15 DEF TypeOK, CoolDown, Evict, guildVars, memberVars, playerVars, history
<1>16. ASSUME NEW p \in Player, Load(p) \/ QueryBuilds(p)
       PROVE  TypeOK'
  <2>1. UNCHANGED <<cached, status, owner, needReq, level, noReq, inDissolution,
                    cooling, donated, everOwner, charges>>
    BY <1>16, BuildEffect DEF history
  <2>2. ASSUME NEW g \in cached, DirectJoinGuild(p, g, Level3), UNCHANGED cacheVars
        PROVE  TypeOK'
    BY <2>1, <2>2, DirectJoinType DEF TypeOK
  <2>3. ASSUME BuildAsLoad(p), AcceptedBy(p) = {} PROVE TypeOK'
    <3>1. rights' = rights
      BY <2>3 DEF BuildAsLoad
    <3>2. /\ memberGuild' \in [Player -> Guild \cup {NoRecord, Out}]
          /\ req' \in [Player -> [ReqKey -> ReqStatus]]
          /\ GuildIDOf(p)' \in Guild \cup {Out}
      BY <2>3, BuildType
    <3>3. /\ inCache' \subseteq Player /\ overtaken' \subseteq Player
          /\ pGuild' \in [Player -> Guild \cup {Out}]
          /\ built' \subseteq Player \X (Guild \cup {Out})
      <4>1. CASE Load(p)
        <5>1. /\ inCache' = inCache \cup {p} /\ overtaken' = overtaken \ {p} /\ built' = built
              /\ pGuild' = [pGuild EXCEPT ![p] = GuildIDOf(p)']
          BY <2>3, <4>1 DEF Load
        <5> QED
          BY <3>2, <5>1 DEF TypeOK
      <4>2. CASE QueryBuilds(p)
        <5>1. /\ inCache' = inCache /\ overtaken' = overtaken /\ pGuild' = pGuild
              /\ built' = built \cup {<<p, GuildIDOf(p)'>>}
          BY <2>3, <4>2 DEF QueryBuilds
        <5> QED
          BY <3>2, <5>1 DEF TypeOK
      <4> QED
        BY <1>16, <4>1, <4>2
    <3> QED
      BY <2>1, <3>1, <3>2, <3>3 DEF TypeOK
  <2> QED
    BY <1>16, <2>2, <2>3, BuildEffect
<1>17. ASSUME NEW p \in Player, EnterGame(p)
       PROVE  TypeOK'
  <2>1. memberGuild' \in [Player -> Guild \cup {NoRecord, Out}]
    BY <1>17 DEF TypeOK, EnterGame
  <2>2. GuildIDOf(p)' \in Guild \cup {Out}
    BY <2>1 DEF GuildIDOf, NotInGuild
  <2> QED
    BY <1>17, <2>1, <2>2 DEF TypeOK, EnterGame, guildVars, history
<1>23. ASSUME NEW p \in Player, NEW g \in Guild \cup {Out}, QueryLoaded(p, g)
       PROVE  TypeOK'
  BY <1>23 DEF TypeOK, QueryLoaded, guildVars, memberVars, history
<1>18. CASE UNCHANGED vars
  BY <1>18 DEF TypeOK, vars, guildVars, memberVars, playerVars, history
<1>19. ASSUME NEW p \in Player, NEW g \in Guild, ClientRequest(p, g)
       PROVE  TypeOK'
  BY <1>1, <1>2, <1>3, <1>4, <1>5, <1>6, <1>19 DEF ClientRequest
<1>20. ASSUME NEW p \in Player, NEW q \in Player, NEW g \in Guild, ClientRequestOn(p, q, g)
       PROVE  TypeOK'
  BY <1>7, <1>8, <1>9, <1>10, <1>11, <1>20 DEF ClientRequestOn
<1>21. ASSUME Timers PROVE TypeOK'
  BY <1>12, <1>14, <1>21 DEF Timers
<1>22. ASSUME NEW p \in Player, PlayerLifecycle(p) PROVE TypeOK'
  BY <1>15, <1>16, <1>17, <1>22, <1>23 DEF PlayerLifecycle
<1> QED
  BY <1>18, <1>19, <1>20, <1>21, <1>22 DEF Next

(* The state of the guild module always has the shape TypeOK describes.    *)
THEOREM TypeCorrect == Spec => []TypeOK
  BY TypeInit, TypeStep, PTL DEF Spec

----------------------------------------------------------------------------
(* What the handlers do to one seat, one record and one request.           *)

LEMMA DirectJoinEffect ==
    ASSUME TypeOK, NEW p \in Player, NEW g \in Guild, NEW r \in RightLevels,
           DirectJoinGuild(p, g, r), ~AlreadyInGuild(p)
    PROVE  /\ \A h \in Guild, q \in Player :
                 rights'[h][q] = IF h = g /\ q = p THEN r ELSE rights[h][q]
           /\ \A q \in Player : memberGuild'[q] = IF q = p THEN g ELSE memberGuild[q]
           /\ \A q \in Player : req'[q] = IF q = p THEN NoReqs ELSE req[q]
           /\ \A q \in Player : pGuild'[q] = IF q = p /\ p \in inCache THEN g ELSE pGuild[q]
<1>1. rights' = [rights EXCEPT ![g] = [rights[g] EXCEPT ![p] = r]]
  BY DEF DirectJoinGuild
<1>2. \A h \in Guild, q \in Player :
         rights'[h][q] = IF h = g /\ q = p THEN r ELSE rights[h][q]
  BY <1>1 DEF TypeOK
<1>3. \A q \in Player : memberGuild'[q] = IF q = p THEN g ELSE memberGuild[q]
  BY DEF DirectJoinGuild, TypeOK
<1>4. \A q \in Player : req'[q] = IF q = p THEN NoReqs ELSE req[q]
  BY DEF DirectJoinGuild, TypeOK
<1>5. \A q \in Player : pGuild'[q] = IF q = p /\ p \in inCache THEN g ELSE pGuild[q]
  BY DEF DirectJoinGuild, TypeOK
<1> QED
  BY <1>2, <1>3, <1>4, <1>5

LEMMA ModifyRightEffect ==
    ASSUME TypeOK, NEW p \in Player, NEW q \in Player, NEW g \in Guild,
           NEW r \in {Level3, Level2, Level1}, ModifyRight(p, q, g, r)
    PROVE  \A h \in Guild, x \in Player :
              rights'[h][x] = IF h = g /\ x = q THEN r ELSE rights[h][x]
<1>1. rights' = [rights EXCEPT ![g] = [rights[g] EXCEPT ![q] = r]]
  BY DEF ModifyRight
<1> QED
  BY <1>1 DEF TypeOK

LEMMA OutGuildEffect ==
    ASSUME TypeOK, NEW p \in Player, NEW q \in Player, NEW g \in Guild, OutGuild(p, q, g)
    PROVE  /\ \A h \in Guild, x \in Player :
                 rights'[h][x] = IF h = g /\ x = q THEN NotIn ELSE rights[h][x]
           /\ \A x \in Player : memberGuild'[x] =
                 IF x = q /\ memberGuild[q] # NoRecord THEN Out ELSE memberGuild[x]
           /\ \A x \in Player : pGuild'[x] =
                 IF x = q /\ q \in inCache /\ memberGuild[q] # NoRecord THEN Out ELSE pGuild[x]
<1>1. rights' = [rights EXCEPT ![g] = [rights[g] EXCEPT ![q] = NotIn]]
  BY DEF OutGuild
<1>2. \A h \in Guild, x \in Player :
         rights'[h][x] = IF h = g /\ x = q THEN NotIn ELSE rights[h][x]
  BY <1>1 DEF TypeOK
<1>3. \A x \in Player : memberGuild'[x] =
         IF x = q /\ memberGuild[q] # NoRecord THEN Out ELSE memberGuild[x]
  BY DEF OutGuild, TypeOK
<1>4. \A x \in Player : pGuild'[x] =
         IF x = q /\ q \in inCache /\ memberGuild[q] # NoRecord THEN Out ELSE pGuild[x]
  BY DEF OutGuild, TypeOK
<1> QED
  BY <1>2, <1>3, <1>4

LEMMA ChgOwnerEffect ==
    ASSUME TypeOK, NEW p \in Player, NEW q \in Player, NEW g \in Guild, ChgOwner(p, q, g)
    PROVE  /\ \A h \in Guild, x \in Player :
                 rights'[h][x] = IF h = g /\ x = p THEN Level1
                                 ELSE IF h = g /\ x = q THEN Level0 ELSE rights[h][x]
           /\ \A h \in Guild : owner'[h] = IF h = g THEN q ELSE owner[h]
<1>1. rights' = [rights EXCEPT ![g] = [rights[g] EXCEPT ![q] = Level0, ![p] = Level1]]
  BY DEF ChgOwner
<1>2. \A h \in Guild, x \in Player :
         rights'[h][x] = IF h = g /\ x = p THEN Level1
                         ELSE IF h = g /\ x = q THEN Level0 ELSE rights[h][x]
  BY <1>1 DEF TypeOK
<1> QED
  BY <1>2 DEF ChgOwner, TypeOK

LEMMA ReplaceGuildLeaderEffect ==
    ASSUME TypeOK, NEW active \in SUBSET Player, NEW newOwner \in [Guild -> Player \cup {NoRecord}],
           ReplaceGuildLeader(active, newOwner)
    PROVE  /\ \A g \in Guild : Replaced(g, active) =>
                 /\ newOwner[g] \in active /\ rights[g][newOwner[g]] # NotIn
                 /\ newOwner[g] # owner[g]
                 /\ newOwner[g] \in everOwner'
           /\ \A g \in Guild, x \in Player : rights'[g][x] =
                 IF Replaced(g, active) /\ x = owner[g] THEN Level1
                 ELSE IF Replaced(g, active) /\ x = newOwner[g] THEN Level0 ELSE rights[g][x]
           /\ \A g \in Guild : owner'[g] = IF Replaced(g, active) THEN newOwner[g] ELSE owner[g]
           /\ everOwner \subseteq everOwner'
<1>1. \A g \in Guild : Replaced(g, active) => newOwner[g] \in Heirs(g, active)
  BY DEF ReplaceGuildLeader, Replaced, Heirs
<1>2. \A g \in Guild : Replaced(g, active) =>
         newOwner[g] \in active /\ rights[g][newOwner[g]] # NotIn /\ newOwner[g] # owner[g]
  BY <1>1 DEF Replaced, Heirs
<1>3. rights' = [g \in Guild |-> IF Replaced(g, active)
                   THEN [rights[g] EXCEPT ![newOwner[g]] = Level0, ![owner[g]] = Level1]
                   ELSE rights[g]]
  BY DEF ReplaceGuildLeader, Replaced, Heirs
<1>4. \A g \in Guild, x \in Player : rights'[g][x] =
         IF Replaced(g, active) /\ x = owner[g] THEN Level1
         ELSE IF Replaced(g, active) /\ x = newOwner[g] THEN Level0 ELSE rights[g][x]
  BY <1>3 DEF TypeOK
<1>5. \A g \in Guild : owner'[g] = IF Replaced(g, active) THEN newOwner[g] ELSE owner[g]
  BY DEF ReplaceGuildLeader, Replaced, Heirs
<1>6. everOwner' = everOwner \cup {newOwner[g] : g \in {h \in Guild : Replaced(h, active)}}
  BY DEF ReplaceGuildLeader, Replaced, Heirs
<1> QED
  BY <1>2, <1>4, <1>5, <1>6

(* The daily replacement of leaders touches the seats of cached guilds only *)
(* and takes no seat away.                                                  *)
LEMMA ReplaceOnlyCached ==
    ASSUME TypeOK, NEW active \in SUBSET Player, NEW newOwner \in [Guild -> Player \cup {NoRecord}],
           ReplaceGuildLeader(active, newOwner)
    PROVE  \A g \in Guild, x \in Player : g \notin cached => rights'[g][x] = rights[g][x]
<1> SUFFICES ASSUME NEW g \in Guild, NEW x \in Player, g \notin cached
             PROVE  rights'[g][x] = rights[g][x]
  OBVIOUS
<1>1. \A h \in Guild, y \in Player : rights'[h][y] =
         IF Replaced(h, active) /\ y = owner[h] THEN Level1
         ELSE IF Replaced(h, active) /\ y = newOwner[h] THEN Level0 ELSE rights[h][y]
  BY ReplaceGuildLeaderEffect
<1>2. ~Replaced(g, active)
  BY DEF Replaced
<1> QED
  BY <1>1, <1>2

LEMMA ReplaceKeepsSeats ==
    ASSUME TypeOK, NEW active \in SUBSET Player, NEW newOwner \in [Guild -> Player \cup {NoRecord}],
           ReplaceGuildLeader(active, newOwner)
    PROVE  \A g \in Guild, x \in Player : rights[g][x] # NotIn => rights'[g][x] # NotIn
<1> SUFFICES ASSUME NEW g \in Guild, NEW x \in Player, rights[g][x] # NotIn
             PROVE  rights'[g][x] # NotIn
  OBVIOUS
<1>1. rights'[g][x] =
         IF Replaced(g, active) /\ x = owner[g] THEN Level1
         ELSE IF Replaced(g, active) /\ x = newOwner[g] THEN Level0 ELSE rights[g][x]
  BY ReplaceGuildLeaderEffect, ZenonT(60)
<1>2. Level1 # NotIn /\ Level0 # NotIn
  BY DEF Level1, Level0, NotIn
<1> QED
  BY <1>1, <1>2

LEMMA DissolveEffect ==
    ASSUME TypeOK, NEW due \in SUBSET inDissolution, CheckInDissolutionGuild(due)
    PROVE  /\ \A p \in Player : memberGuild'[p] =
                 IF (\E g \in due : rights[g][p] # NotIn) /\ memberGuild[p] # NoRecord
                 THEN Out ELSE memberGuild[p]
           /\ \A p \in Player : pGuild'[p] =
                 IF (\E g \in due : rights[g][p] # NotIn) /\ p \in inCache
                 THEN Out ELSE pGuild[p]
           /\ \A g \in Guild : status'[g] = IF g \in due THEN "DISSOLUTION_END" ELSE status[g]
  BY DEF CheckInDissolutionGuild, RecordsAfterDissolution

----------------------------------------------------------------------------
(* First layer: the lists of CacheGuild agree with the status of each guild, *)
(* and a guild id that was not handed out yet has left no trace.             *)

UnbornIsBlank ==
    \A g \in Guild : status[g] = "UNBORN" =>
        g \notin noReq /\ \A p \in Player : rights[g][p] = NotIn

Listed == DissolutionListed /\ QuickJoinNeedsNoRequest /\ UnbornIsBlank

LEMMA ListedInit == Init => Listed
  BY DEF Init, Listed, DissolutionListed, QuickJoinNeedsNoRequest, UnbornIsBlank

LEMMA ListedStep == TypeOK /\ Listed /\ [Next]_vars => Listed'
<1> SUFFICES ASSUME TypeOK, Listed, [Next]_vars PROVE Listed'
  OBVIOUS
<1> USE LevelTypes
<1> USE DEF Listed, DissolutionListed, QuickJoinNeedsNoRequest, UnbornIsBlank
<1>1. ASSUME NEW p \in Player, NEW g \in Guild, NEW need \in BOOLEAN, CreateGuild(p, g, need)
      PROVE  Listed'
  <2>1. ~AlreadyInGuild(p) /\ DirectJoinGuild(p, g, Level0)
    BY <1>1 DEF CreateGuild
  <2>2. \A h \in Guild, q \in Player :
           rights'[h][q] = IF h = g /\ q = p THEN Level0 ELSE rights[h][q]
    BY <2>1, DirectJoinEffect
  <2>3. \A h \in Guild : status'[h] = IF h = g THEN "NORMAL" ELSE status[h]
    BY <1>1 DEF CreateGuild, TypeOK
  <2>4. \A h \in Guild : needReq'[h] = IF h = g THEN need ELSE needReq[h]
    BY <1>1 DEF CreateGuild, TypeOK
  <2>5. noReq' \in {noReq, noReq \cup {g}, noReq \ {g}} /\ (need => noReq' = noReq) /\ g \notin noReq
    BY <1>1 DEF CreateGuild, RefNoNeedReqGuilds
  <2>6. DissolutionListed'
    BY <1>1, <2>3 DEF CreateGuild, TypeOK
  <2>7. QuickJoinNeedsNoRequest'
    <3>1. noReq \subseteq Guild
      BY DEF TypeOK
    <3> QED
      BY <2>4, <2>5, <3>1
  <2>8. UnbornIsBlank'
    BY <2>2, <2>3, <2>5
  <2> QED
    BY <2>6, <2>7, <2>8
<1>2. ASSUME NEW p \in Player, NEW g \in Guild, NEW id \in {g, Zero}, JoinGuild(p, id, g)
      PROVE  Listed'
  <2>1. CASE needReq[g]
    BY <1>2, <2>1 DEF JoinGuild
  <2>2. CASE ~needReq[g]
    <3>1. ~AlreadyInGuild(p) /\ DirectJoinGuild(p, g, Level3) /\ status[g] = "NORMAL"
      BY <1>2, <2>2 DEF JoinGuild
    <3>2. \A h \in Guild, q \in Player :
             rights'[h][q] = IF h = g /\ q = p THEN Level3 ELSE rights[h][q]
      BY <3>1, DirectJoinEffect
    <3>3. noReq' \in {noReq, noReq \cup {g}, noReq \ {g}}
      BY <1>2, <2>2 DEF JoinGuild, RefNoNeedReqGuilds
    <3> QED
      BY <1>2, <2>2, <3>1, <3>2, <3>3, ZenonT(60) DEF JoinGuild
  <2> QED
    BY <2>1, <2>2
<1>3. ASSUME NEW p \in Player, NEW g \in Guild, NEW need \in BOOLEAN, ModifyNeedReqStatus(p, g, need)
      PROVE  Listed'
  BY <1>3 DEF ModifyNeedReqStatus, TypeOK
<1>4. ASSUME NEW p \in Player, NEW g \in Guild, DissolutionGuild(p, g) \/ CancelDissolutionGuild(p, g)
      PROVE  Listed'
  <2>1. g \in cached /\ UNCHANGED <<cached, rights, noReq, needReq>>
    BY <1>4 DEF DissolutionGuild, CancelDissolutionGuild, MayAct
  <2>2. CASE DissolutionGuild(p, g)
    <3>1. \A h \in Guild : status'[h] = IF h = g THEN "IN_DISSOLUTION" ELSE status[h]
      BY <2>2 DEF DissolutionGuild, TypeOK
    <3>2. inDissolution' = inDissolution \cup {g}
      BY <2>2 DEF DissolutionGuild
    <3> QED
      BY <2>1, <3>1, <3>2
  <2>3. CASE CancelDissolutionGuild(p, g)
    <3>1. \A h \in Guild : status'[h] = IF h = g THEN "NORMAL" ELSE status[h]
      BY <2>3 DEF CancelDissolutionGuild, TypeOK
    <3>2. inDissolution' = inDissolution \ {g}
      BY <2>3 DEF CancelDissolutionGuild
    <3> QED
      BY <2>1, <3>1, <3>2
  <2> QED
    BY <1>4, <2>2, <2>3
<1>5. ASSUME NEW p \in Player, NEW q \in Player, NEW g \in Guild, AcceptJoin(p, q, g)
      PROVE  Listed'
  <2>1. status[g] # "UNBORN" /\ UNCHANGED <<cached, status, noReq, needReq, inDissolution>>
    BY <1>5 DEF AcceptJoin, MayAct
  <2>2. CASE UNCHANGED rights
    BY <2>1, <2>2
  <2>3. CASE DirectJoinGuild(q, g, Level3) /\ ~AlreadyInGuild(q)
    <3>1. \A h \in Guild, x \in Player :
             rights'[h][x] = IF h = g /\ x = q THEN Level3 ELSE rights[h][x]
      BY <2>3, DirectJoinEffect
    <3> QED
      BY <2>1, <3>1
  <2> QED
    BY <1>5, <2>2, <2>3 DEF AcceptJoin, DirectJoinGuild
<1>6. ASSUME NEW p \in Player, NEW q \in Player, NEW g \in Guild,
             NEW r \in {Level3, Level2, Level1}, ModifyRight(p, q, g, r)
      PROVE  Listed'
  <2>1. status[g] # "UNBORN" /\ UNCHANGED <<cached, status, noReq, needReq, inDissolution>>
    BY <1>6 DEF ModifyRight, MayAct
  <2>2. \A h \in Guild, x \in Player :
           rights'[h][x] = IF h = g /\ x = q THEN r ELSE rights[h][x]
    BY <1>6, ModifyRightEffect
  <2> QED
    BY <2>1, <2>2
<1>7. ASSUME NEW p \in Player, NEW q \in Player, NEW g \in Guild, OutGuild(p, q, g)
      PROVE  Listed'
  <2>1. status[g] # "UNBORN" /\ UNCHANGED <<cached, status, needReq, inDissolution>>
    BY <1>7 DEF OutGuild, MayAct
  <2>2. \A h \in Guild, x \in Player :
           rights'[h][x] = IF h = g /\ x = q THEN NotIn ELSE rights[h][x]
    BY <1>7, OutGuildEffect
  <2>3. noReq' \in {noReq, noReq \cup {g}, noReq \ {g}} /\ (needReq[g] => noReq' = noReq)
    BY <1>7 DEF OutGuild, RefNoNeedReqGuilds
  <2> QED
    BY <2>1, <2>2, <2>3
<1>8. ASSUME NEW p \in Player, NEW q \in Player, NEW g \in Guild, ChgOwner(p, q, g)
      PROVE  Listed'
  <2>1. status[g] # "UNBORN" /\ UNCHANGED <<cached, status, noReq, needReq, inDissolution>>
    BY <1>8 DEF ChgOwner, MayAct
  <2>2. \A h \in Guild, x \in Player : h # g => rights'[h][x] = rights[h][x]
    BY <1>8, ChgOwnerEffect
  <2> QED
    BY <2>1, <2>2
<1>9. ASSUME NEW due \in SUBSET inDissolution, HalfHourJob(due)
      PROVE  Listed'
  <2>1. \A g \in Guild : status'[g] = IF g \in due THEN "DISSOLUTION_END" ELSE status[g]
    BY <1>9, DissolveEffect DEF HalfHourJob
  <2> QED
    BY <1>9, <2>1 DEF HalfHourJob, CheckInDissolutionGuild
<1>10. ASSUME NEW active \in SUBSET Player, NEW newOwner \in [Guild -> Player \cup {NoRecord}],
              DayOffset4Job(active, newOwner)
       PROVE  Listed'
  <2>1. UNCHANGED <<cached, status, noReq, needReq, inDissolution>>
    BY <1>10 DEF DayOffset4Job
  <2>2. ReplaceGuildLeader(active, newOwner)
    BY <1>10 DEF DayOffset4Job
  <2>3. \A g \in Guild, x \in Player : g \notin cached => rights'[g][x] = rights[g][x]
    BY <2>2, ReplaceOnlyCached
  <2> QED
    BY <2>1, <2>3
<1>11. ASSUME NEW p \in Player, Load(p) \/ QueryBuilds(p)
       PROVE  Listed'
  <2>1. UNCHANGED <<cached, status, noReq, needReq, inDissolution>>
    BY <1>11, BuildEffect
  <2>2. CASE UNCHANGED rights
    BY <2>1, <2>2
  <2>3. ASSUME NEW g \in cached, DirectJoinGuild(p, g, Level3), ~AlreadyInGuild(p)
        PROVE  Listed'
    <3>1. g \in Guild
      BY DEF TypeOK
    <3>2. \A h \in Guild, x \in Player :
             rights'[h][x] = IF h = g /\ x = p THEN Level3 ELSE rights[h][x]
      BY <2>3, <3>1, DirectJoinEffect
    <3> QED
      BY <2>1, <3>1, <3>2
  <2>4. ASSUME NEW g \in cached, DirectJoinGuild(p, g, Level3) PROVE Listed'
    BY <2>2, <2>3, <2>4 DEF DirectJoinGuild
  <2>5. BuildAsLoad(p) => UNCHANGED rights
    BY DEF BuildAsLoad
  <2> QED
    BY <1>11, <2>2, <2>4, <2>5, BuildEffect
<1>12. CASE UNCHANGED <<cached, status, noReq, needReq, inDissolution, rights>>
  BY <1>12
<1>13. ASSUME NEW p \in Player, NEW g \in Guild, ClientRequest(p, g)
       PROVE  Listed'
  BY <1>1, <1>2, <1>3, <1>4, <1>12, <1>13
  DEF ClientRequest, NotAllJoinReq, Donate, guildVars
<1>14. ASSUME NEW p \in Player, NEW q \in Player, NEW g \in Guild, ClientRequestOn(p, q, g)
       PROVE  Listed'
  BY <1>5, <1>6, <1>7, <1>8, <1>12, <1>14 DEF ClientRequestOn, RefuseJoin, guildVars
<1>15. ASSUME Timers PROVE Listed'
  BY <1>9, <1>10, <1>15 DEF Timers
<1>16. ASSUME NEW p \in Player, PlayerLifecycle(p) PROVE Listed'
  BY <1>11, <1>12, <1>16 DEF PlayerLifecycle, CoolDown, Evict, EnterGame, QueryLoaded, guildVars
<1> QED
  BY <1>12, <1>13, <1>14, <1>15, <1>16 DEF Next, vars, guildVars

----------------------------------------------------------------------------
(* Second layer: record, seat, requests and player of one member agree.    *)

Records ==
    /\ RecordHasSeat
    /\ MembersHaveNoRequests
    /\ RequestsAreGenuine
    /\ PlayerAgreesWithRecord

LEMMA RecordsInit == Init => Records
  BY GuildAssumption
  DEF Init, Records, RecordHasSeat, MembersHaveNoRequests, RequestsAreGenuine,
      PlayerAgreesWithRecord, GuildIDOf, NoReqs, ReqKey, NotInGuild

LEMMA NoReqsBlank == \A k \in ReqKey : NoReqs[k] = "none"
  BY DEF NoReqs

(* A player that may join is in no guild at all, not merely in one that    *)
(* cannot be found.                                                        *)
LEMMA JoinersAreOut ==
    ASSUME TypeOK, Records, NEW p \in Player, ~AlreadyInGuild(p)
    PROVE  NotInGuild(p)
  BY DEF TypeOK, Records, RecordHasSeat, AlreadyInGuild, NotInGuild

(* Requests that only disappear stay genuine.                              *)
LEMMA GenuineShrinks ==
    ASSUME RequestsAreGenuine,
           \A x \in Player, k \in ReqKey : req'[x][k] \in {"none", req[x][k]}
    PROVE  RequestsAreGenuine'
<1>1. \A x \in Player : req'[x][Zero] = "none"
  BY DEF RequestsAreGenuine, ReqKey
<1>2. \A x \in Player, g \in Guild : req'[x][g] \in {"none", "NORMAL"}
  BY DEF RequestsAreGenuine, ReqKey
<1> QED
  BY <1>1, <1>2 DEF RequestsAreGenuine

LEMMA RecordsJoin ==
    ASSUME TypeOK, Records, NEW p \in Player, NEW g \in Guild, NEW r \in RightLevels,
           DirectJoinGuild(p, g, r), ~AlreadyInGuild(p),
           cached' \in {cached, cached \cup {g}}, g \in cached', UNCHANGED <<inCache, overtaken>>
    PROVE  Records'
<1> USE GuildAssumption, LevelTypes, NoReqsType, NoReqsBlank
<1>1. /\ \A h \in Guild, q \in Player :
            rights'[h][q] = IF h = g /\ q = p THEN r ELSE rights[h][q]
      /\ \A q \in Player : memberGuild'[q] = IF q = p THEN g ELSE memberGuild[q]
      /\ \A q \in Player : req'[q] = IF q = p THEN NoReqs ELSE req[q]
      /\ \A q \in Player : pGuild'[q] = IF q = p /\ p \in inCache THEN g ELSE pGuild[q]
  BY DirectJoinEffect
<1>2. RecordHasSeat'
  <2> SUFFICES ASSUME NEW q \in Player, memberGuild'[q] \in Guild
               PROVE  memberGuild'[q] \in cached' /\ rights'[memberGuild'[q]][q] # NotIn
    BY DEF RecordHasSeat
  <2>1. CASE q = p
    BY <1>1, <2>1
  <2>2. CASE q # p
    <3>1. memberGuild[q] \in Guild /\ memberGuild[q] \in cached /\ rights[memberGuild[q]][q] # NotIn
      BY <1>1, <2>2 DEF Records, RecordHasSeat
    <3> QED
      BY <1>1, <2>2, <3>1
  <2> QED
    BY <2>1, <2>2
<1>3. MembersHaveNoRequests' /\ RequestsAreGenuine'
  <2>1. MembersHaveNoRequests'
    BY <1>1 DEF Records, MembersHaveNoRequests
  <2>2. RequestsAreGenuine'
    BY <1>1, GenuineShrinks DEF Records
  <2> QED
    BY <2>1, <2>2
<1>4. PlayerAgreesWithRecord'
  BY <1>1, SMTT(30) DEF Records, PlayerAgreesWithRecord, GuildIDOf, NotInGuild, TypeOK
<1> QED
  BY <1>2, <1>3, <1>4 DEF Records

(* No accepted request waits for its player: the join of buildAsLoad is    *)
(* never taken ...                                                         *)
LEMMA NothingOwed ==
    ASSUME TypeOK, Records, NEW p \in Player
    PROVE  AcceptedBy(p) = {}
  BY DEF TypeOK, Records, RequestsAreGenuine, AcceptedBy

(* ... and its repairs change nothing.                                     *)
LEMMA BuildKeepsRecords ==
    ASSUME TypeOK, Records, NEW p \in Player, Load(p) \/ QueryBuilds(p)
    PROVE  UNCHANGED <<cached, memberGuild, req, rights>>
<1>1. UNCHANGED cached
  BY BuildEffect
<1>2. BuildAsLoad(p)
  BY NothingOwed DEF Load, QueryBuilds
<1>3. CASE NotInGuild(p)
  BY <1>1, <1>2, <1>3 DEF BuildAsLoad
<1>4. CASE ~NotInGuild(p)
  <2>1. memberGuild[p] \in Guild /\ req[p] = NoReqs
    BY <1>4 DEF NotInGuild, TypeOK, Records, MembersHaveNoRequests
  <2>2. memberGuild[p] \in cached /\ rights[memberGuild[p]][p] # NotIn
    BY <2>1 DEF Records, RecordHasSeat
  <2>3. memberGuild' = memberGuild /\ rights' = rights
    BY <1>2, <1>4, <2>2 DEF BuildAsLoad
  <2>4. req' = req
    BY <1>2, <1>4, <2>1 DEF BuildAsLoad, TypeOK
  <2> QED
    BY <1>1, <2>3, <2>4
<1> QED
  BY <1>3, <1>4

LEMMA RecordsStep == TypeOK /\ Listed /\ Records /\ [Next]_vars => Records'
<1> SUFFICES ASSUME TypeOK, Listed, Records, [Next]_vars PROVE Records'
  OBVIOUS
<1> USE GuildAssumption, LevelTypes, NoReqsType, NoReqsBlank
<1>1. ASSUME NEW p \in Player, NEW g \in Guild, NEW need \in BOOLEAN, CreateGuild(p, g, need)
      PROVE  Records'
  BY <1>1, RecordsJoin DEF CreateGuild
<1>2. ASSUME NEW p \in Player, NEW g \in Guild, NEW id \in {g, Zero}, JoinGuild(p, id, g)
      PROVE  Records'
  <2>1. g \in cached
    BY <1>2 DEF JoinGuild, Listed, DissolutionListed
  <2>2. CASE needReq[g]
    <3>1. id = g
      BY <1>2, <2>2 DEF JoinGuild, Listed, QuickJoinNeedsNoRequest
    <3>2. req' = [req EXCEPT ![p] = [req[p] EXCEPT ![g] = "NORMAL"]]
      BY <1>2, <2>2, <3>1 DEF JoinGuild
    <3>3. \A q \in Player, k \in ReqKey :
             req'[q][k] = IF q = p /\ k = g THEN "NORMAL" ELSE req[q][k]
      BY <3>2 DEF TypeOK
    <3>4. \A q \in Player : q # p => req'[q] = req[q]
      BY <3>2 DEF TypeOK
    <3>5. NotInGuild(p)
      BY <1>2, JoinersAreOut DEF JoinGuild
    <3>6. UNCHANGED <<memberGuild, pGuild, rights, cached, inCache, overtaken>>
      BY <1>2, <2>2 DEF JoinGuild
    <3>7. MembersHaveNoRequests'
      BY <3>4, <3>5, <3>6 DEF Records, MembersHaveNoRequests, NotInGuild
    <3>8. RequestsAreGenuine'
      BY <3>3 DEF Records, RequestsAreGenuine
    <3> QED
      BY <3>6, <3>7, <3>8 DEF Records, RecordHasSeat, PlayerAgreesWithRecord, GuildIDOf, NotInGuild
  <2>3. CASE ~needReq[g]
    BY <1>2, <2>1, <2>3, RecordsJoin DEF JoinGuild
  <2> QED
    BY <2>2, <2>3
<1>3. ASSUME NEW p \in Player, NEW q \in Player, NEW g \in Guild, AcceptJoin(p, q, g)
      PROVE  Records'
  <2>1. req[q][g] = "NORMAL"
    BY <1>3 DEF AcceptJoin, Records, RequestsAreGenuine
  <2>2. NotInGuild(q)
    <3>1. req[q] # NoReqs
      BY <2>1
    <3> QED
      BY <3>1 DEF Records, MembersHaveNoRequests, NotInGuild, TypeOK
  <2>3. DirectJoinGuild(q, g, Level3) /\ UNCHANGED <<cached, inCache, overtaken>> /\ g \in cached
    BY <1>3, <2>1, <2>2 DEF AcceptJoin, MayAct
  <2>4. ~AlreadyInGuild(q)
    BY <2>2 DEF NotInGuild, AlreadyInGuild, TypeOK
  <2> QED
    BY <2>3, <2>4, RecordsJoin
<1>4. ASSUME NEW p \in Player, NEW q \in Player, NEW g \in Guild, RefuseJoin(p, q, g)
      PROVE  Records'
  <2>1. req' = [req EXCEPT ![q] = [req[q] EXCEPT ![g] = "none"]]
    BY <1>4 DEF RefuseJoin
  <2>2. \A x \in Player, k \in ReqKey :
           req'[x][k] = IF x = q /\ k = g THEN "none" ELSE req[x][k]
    BY <2>1 DEF TypeOK
  <2>3. \A x \in Player : req[x] = NoReqs => req'[x] = req[x]
    BY <2>1, <1>4 DEF TypeOK, RefuseJoin
  <2>4. UNCHANGED <<memberGuild, pGuild, rights, cached, inCache, overtaken>>
    BY <1>4 DEF RefuseJoin, guildVars, playerVars
  <2>5. MembersHaveNoRequests' /\ RequestsAreGenuine'
    <3>1. MembersHaveNoRequests'
      BY <2>3, <2>4 DEF Records, MembersHaveNoRequests
    <3>2. RequestsAreGenuine'
      BY <2>2, GenuineShrinks DEF Records
    <3> QED
      BY <3>1, <3>2
  <2> QED
    BY <2>4, <2>5 DEF Records, RecordHasSeat, PlayerAgreesWithRecord, GuildIDOf, NotInGuild
<1>5. ASSUME NEW p \in Player, NEW g \in Guild, NotAllJoinReq(p, g)
      PROVE  Records'
  <2>1. \A x \in Player : \/ req'[x] = req[x]
                          \/ req[x][g] = "NORMAL" /\ req'[x] = [req[x] EXCEPT ![g] = "none"]
    BY <1>5 DEF NotAllJoinReq
  <2>2. \A x \in Player, k \in ReqKey : req'[x][k] \in {"none", req[x][k]}
    <3> SUFFICES ASSUME NEW x \in Player, NEW k \in ReqKey
                 PROVE  req'[x][k] \in {"none", req[x][k]}
      OBVIOUS
    <3>1. req[x] \in [ReqKey -> ReqStatus]
      BY DEF TypeOK
    <3> QED
      BY <2>1, <3>1
  <2>3. \A x \in Player : req[x] = NoReqs => req'[x] = req[x]
    BY <2>1
  <2>4. UNCHANGED <<memberGuild, pGuild, rights, cached, inCache, overtaken>>
    BY <1>5 DEF NotAllJoinReq, guildVars, playerVars
  <2>5. MembersHaveNoRequests' /\ RequestsAreGenuine'
    <3>1. MembersHaveNoRequests'
      BY <2>3, <2>4 DEF Records, MembersHaveNoRequests
    <3>2. RequestsAreGenuine'
      BY <2>2, GenuineShrinks DEF Records
    <3> QED
      BY <3>1, <3>2
  <2> QED
    BY <2>4, <2>5 DEF Records, RecordHasSeat, PlayerAgreesWithRecord, GuildIDOf, NotInGuild
<1>6. ASSUME UNCHANGED <<memberGuild, pGuild, req, cached, inCache, overtaken>>,
             \A g \in Guild, x \in Player : rights[g][x] # NotIn => rights'[g][x] # NotIn
      PROVE  Records'
  <2>1. RecordHasSeat'
    BY <1>6 DEF Records, RecordHasSeat
  <2>2. MembersHaveNoRequests' /\ RequestsAreGenuine'
    BY <1>6 DEF Records, MembersHaveNoRequests, RequestsAreGenuine
  <2>3. PlayerAgreesWithRecord'
    BY <1>6 DEF Records, PlayerAgreesWithRecord, GuildIDOf, NotInGuild
  <2> QED
    BY <2>1, <2>2, <2>3 DEF Records
<1>7. ASSUME NEW p \in Player, NEW q \in Player, NEW g \in Guild,
             NEW r \in {Level3, Level2, Level1}, ModifyRight(p, q, g, r)
      PROVE  Records'
  <2>1. \A h \in Guild, x \in Player :
           rights'[h][x] = IF h = g /\ x = q THEN r ELSE rights[h][x]
    BY <1>7, ModifyRightEffect
  <2> QED
    BY <1>6, <1>7, <2>1 DEF ModifyRight, memberVars, playerVars
<1>8. ASSUME NEW p \in Player, NEW q \in Player, NEW g \in Guild, OutGuild(p, q, g)
      PROVE  Records'
  <2>1. /\ \A h \in Guild, x \in Player :
              rights'[h][x] = IF h = g /\ x = q THEN NotIn ELSE rights[h][x]
        /\ \A x \in Player : memberGuild'[x] =
              IF x = q /\ memberGuild[q] # NoRecord THEN Out ELSE memberGuild[x]
        /\ \A x \in Player : pGuild'[x] =
              IF x = q /\ q \in inCache /\ memberGuild[q] # NoRecord THEN Out ELSE pGuild[x]
    BY <1>8, OutGuildEffect
  <2>2. UNCHANGED <<cached, req, inCache, overtaken>>
    BY <1>8 DEF OutGuild
  <2>3. RecordHasSeat'
    <3>1. memberGuild'[q] \notin Guild
      BY <2>1
    <3>2. ASSUME NEW x \in Player, memberGuild'[x] \in Guild
          PROVE  /\ memberGuild'[x] = memberGuild[x]
                 /\ rights'[memberGuild[x]][x] = rights[memberGuild[x]][x]
      BY <2>1, <3>1, <3>2
    <3> QED
      BY <2>2, <3>2 DEF Records, RecordHasSeat
  <2>4. MembersHaveNoRequests' /\ RequestsAreGenuine'
    BY <2>1, <2>2 DEF Records, MembersHaveNoRequests, RequestsAreGenuine
  <2>5. PlayerAgreesWithRecord'
    BY <2>1, <2>2, SMTT(30) DEF Records, PlayerAgreesWithRecord, GuildIDOf, NotInGuild, TypeOK
  <2> QED
    BY <2>3, <2>4, <2>5 DEF Records
<1>9. ASSUME NEW p \in Player, NEW q \in Player, NEW g \in Guild, ChgOwner(p, q, g)
      PROVE  Records'
  <2>1. \A h \in Guild, x \in Player : rights[h][x] # NotIn => rights'[h][x] # NotIn
    BY <1>9, ChgOwnerEffect
  <2> QED
    BY <1>6, <1>9, <2>1 DEF ChgOwner, memberVars, playerVars
<1>10. ASSUME NEW due \in SUBSET inDissolution, HalfHourJob(due)
       PROVE  Records'
  <2>1. /\ \A p \in Player : memberGuild'[p] =
              IF (\E g \in due : rights[g][p] # NotIn) /\ memberGuild[p] # NoRecord
              THEN Out ELSE memberGuild[p]
        /\ \A p \in Player : pGuild'[p] =
              IF (\E g \in due : rights[g][p] # NotIn) /\ p \in inCache
              THEN Out ELSE pGuild[p]
    BY <1>10, DissolveEffect, ZenonT(60) DEF HalfHourJob
  <2>2. cached' = cached \ due /\ UNCHANGED <<rights, inCache, overtaken>>
    BY <1>10 DEF HalfHourJob, CheckInDissolutionGuild
  <2>3. RecordHasSeat'
    BY <2>1, <2>2 DEF Records, RecordHasSeat
  <2>4. MembersHaveNoRequests' /\ RequestsAreGenuine'
    <3>1. \A x \in Player : req[x] = NoReqs => req'[x] = NoReqs
      BY <1>10 DEF HalfHourJob, ClearGuildReq, NoReqs
    <3>2. \A x \in Player, k \in ReqKey : req'[x][k] \in {"none", req[x][k]}
      BY <1>10 DEF HalfHourJob, ClearGuildReq
    <3>3. MembersHaveNoRequests'
      BY <2>1, <3>1 DEF Records, MembersHaveNoRequests
    <3> QED
      BY <3>2, <3>3, GenuineShrinks DEF Records
  <2>5. PlayerAgreesWithRecord'
    BY <2>1, <2>2 DEF Records, PlayerAgreesWithRecord, GuildIDOf, NotInGuild, TypeOK
  <2> QED
    BY <2>3, <2>4, <2>5 DEF Records
<1>11. ASSUME NEW active \in SUBSET Player, NEW newOwner \in [Guild -> Player \cup {NoRecord}],
              DayOffset4Job(active, newOwner)
       PROVE  Records'
  <2>1. \A h \in Guild, x \in Player : rights[h][x] # NotIn => rights'[h][x] # NotIn
    BY <1>11, ReplaceKeepsSeats DEF DayOffset4Job
  <2> QED
    BY <1>6, <1>11, <2>1 DEF DayOffset4Job, playerVars
<1>12. ASSUME NEW p \in Player, Evict(p)
       PROVE  Records'
  BY <1>12 DEF Evict, TypeOK, guildVars, memberVars, Records, RecordHasSeat,
               MembersHaveNoRequests, RequestsAreGenuine, PlayerAgreesWithRecord, GuildIDOf, NotInGuild
<1>13. ASSUME NEW p \in Player, Load(p) \/ QueryBuilds(p)
       PROVE  Records'
  <2>1. UNCHANGED <<cached, memberGuild, req, rights>>
    BY <1>13, BuildKeepsRecords
  <2>2. RecordHasSeat' /\ MembersHaveNoRequests' /\ RequestsAreGenuine'
    BY <2>1 DEF Records, RecordHasSeat, MembersHaveNoRequests, RequestsAreGenuine
  <2>3. AcceptedBy(p) = {}
    BY <1>13, NothingOwed
  <2>4. \A x \in Player : GuildIDOf(x)' = GuildIDOf(x)
    BY <2>1 DEF GuildIDOf, NotInGuild
  <2>5. PlayerAgreesWithRecord'
    <3>1. CASE Load(p)
      BY <2>3, <2>4, <3>1 DEF Load, TypeOK, Records, PlayerAgreesWithRecord
    <3>2. CASE QueryBuilds(p)
      BY <2>3, <2>4, <3>2 DEF QueryBuilds, TypeOK, Records, PlayerAgreesWithRecord
    <3> QED
      BY <1>13, <3>1, <3>2
  <2> QED
    BY <2>2, <2>5 DEF Records
<1>14. ASSUME NEW p \in Player, EnterGame(p)
       PROVE  Records'
  <2>1. memberGuild' = memberGuild
    BY <1>14 DEF EnterGame, Records, RecordHasSeat
  <2>2. \A x \in Player : GuildIDOf(x)' = GuildIDOf(x)
    BY <2>1 DEF GuildIDOf, NotInGuild
  <2>3. PlayerAgreesWithRecord'
    BY <1>14, <2>2 DEF EnterGame, TypeOK, Records, PlayerAgreesWithRecord
  <2> QED
    BY <1>14, <2>1, <2>3
    DEF EnterGame, guildVars, Records, RecordHasSeat, MembersHaveNoRequests, RequestsAreGenuine
<1>19. ASSUME NEW p \in Player, NEW g \in Guild \cup {Out}, QueryLoaded(p, g)
       PROVE  Records'
  <2>1. UNCHANGED <<cached, rights, memberGuild, req>>
    BY <1>19 DEF QueryLoaded, guildVars, memberVars
  <2>2. \A x \in Player : GuildIDOf(x)' = GuildIDOf(x)
    BY <2>1 DEF GuildIDOf, NotInGuild
  <2>3. PlayerAgreesWithRecord'
    BY <1>19, <2>2 DEF QueryLoaded, TypeOK, Records, PlayerAgreesWithRecord
  <2> QED
    BY <2>1, <2>3 DEF Records, RecordHasSeat, MembersHaveNoRequests, RequestsAreGenuine
<1>15. ASSUME NEW p \in Player, NEW g \in Guild, ClientRequest(p, g)
       PROVE  Records'
  BY <1>1, <1>2, <1>5, <1>6, <1>15
  DEF ClientRequest, ModifyNeedReqStatus, DissolutionGuild, CancelDissolutionGuild, Donate,
      memberVars, playerVars
<1>16. ASSUME NEW p \in Player, NEW q \in Player, NEW g \in Guild, ClientRequestOn(p, q, g)
       PROVE  Records'
  BY <1>3, <1>4, <1>7, <1>8, <1>9, <1>16 DEF ClientRequestOn
<1>17. ASSUME Timers PROVE Records'
  BY <1>10, <1>11, <1>17 DEF Timers
<1>18. ASSUME NEW p \in Player, PlayerLifecycle(p) PROVE Records'
  BY <1>6, <1>12, <1>13, <1>14, <1>18, <1>19 DEF PlayerLifecycle, CoolDown, guildVars, playerVars
<1> QED
  BY <1>6, <1>15, <1>16, <1>17, <1>18 DEF Next, vars, guildVars, memberVars, playerVars

----------------------------------------------------------------------------
(* Third layer: Level0 and the seats of players who are not members.       *)

OwnersAreRecorded == \A g \in cached : owner[g] \in everOwner

Leaders == SoleLeader /\ OwnersAreRecorded /\ OnlyExOwnersHaveStraySeats

LEMMA LeadersInit == Init => Leaders
  BY DEF Init, Leaders, SoleLeader, OwnersAreRecorded, OnlyExOwnersHaveStraySeats

LEMMA LevelsDiffer ==
    /\ NotIn \notin {Level0, Level1, Level2, Level3}
    /\ Level0 \notin {Level1, Level2, Level3}
  BY DEF NotIn, Level0, Level1, Level2, Level3

(* A player who joins at Level3 brings no new leader and no new stray seat. *)
LEMMA LeadersJoin ==
    ASSUME TypeOK, Records, Leaders, NEW p \in Player, NEW g \in Guild,
           DirectJoinGuild(p, g, Level3), ~AlreadyInGuild(p),
           UNCHANGED <<cached, owner, everOwner>>
    PROVE  Leaders'
<1>1. /\ \A h \in Guild, q \in Player :
            rights'[h][q] = IF h = g /\ q = p THEN Level3 ELSE rights[h][q]
      /\ \A q \in Player : memberGuild'[q] = IF q = p THEN g ELSE memberGuild[q]
  BY DirectJoinEffect, LevelTypes
<1>2. cached \subseteq Guild
  BY DEF TypeOK
<1>3. NotInGuild(p)
  BY JoinersAreOut
<1>4. SoleLeader'
  BY <1>1, <1>2, LevelsDiffer DEF Leaders, SoleLeader
<1>5. OwnersAreRecorded'
  BY DEF Leaders, OwnersAreRecorded
<1>6. OnlyExOwnersHaveStraySeats'
  <2> SUFFICES ASSUME NEW h \in cached, NEW q \in Player,
                      rights'[h][q] # NotIn, memberGuild'[q] # h
               PROVE  q \in everOwner
    BY DEF OnlyExOwnersHaveStraySeats
  <2>1. CASE q = p
    <3>1. h # g /\ rights[h][q] # NotIn
      BY <1>1, <1>2, <2>1
    <3>2. memberGuild[q] # h
      BY <1>2, <1>3, <2>1, GuildAssumption DEF NotInGuild
    <3> QED
      BY <3>1, <3>2 DEF Leaders, OnlyExOwnersHaveStraySeats
  <2>2. CASE q # p
    BY <1>1, <1>2, <2>2 DEF Leaders, OnlyExOwnersHaveStraySeats
  <2> QED
    BY <2>1, <2>2
<1> QED
  BY <1>4, <1>5, <1>6 DEF Leaders

LEMMA LeadersStep == TypeOK /\ Listed /\ Records /\ Leaders /\ [Next]_vars => Leaders'
<1> SUFFICES ASSUME TypeOK, Listed, Records, Leaders, [Next]_vars PROVE Leaders'
  OBVIOUS
<1>0. cached \subseteq Guild
  BY DEF TypeOK
<1>1. ASSUME NEW p \in Player, NEW g \in Guild, NEW need \in BOOLEAN, CreateGuild(p, g, need)
      PROVE  Leaders'
  <2>1. /\ \A h \in Guild, q \in Player :
              rights'[h][q] = IF h = g /\ q = p THEN Level0 ELSE rights[h][q]
        /\ \A q \in Player : memberGuild'[q] = IF q = p THEN g ELSE memberGuild[q]
    BY <1>1, DirectJoinEffect, LevelTypes DEF CreateGuild
  <2>2. \A h \in Guild : owner'[h] = IF h = g THEN p ELSE owner[h]
    BY <1>1 DEF CreateGuild, TypeOK
  <2>3. cached' = cached \cup {g} /\ everOwner' = everOwner \cup {p}
    BY <1>1 DEF CreateGuild
  <2>4. g \notin cached /\ \A x \in Player : rights[g][x] = NotIn
    BY <1>1 DEF CreateGuild, Listed, DissolutionListed, UnbornIsBlank
  <2>5. NotInGuild(p)
    BY <1>1, JoinersAreOut DEF CreateGuild
  <2>6. SoleLeader'
    BY <1>0, <2>1, <2>2, <2>3, <2>4, LevelsDiffer DEF Leaders, SoleLeader
  <2>7. OwnersAreRecorded'
    BY <1>0, <2>2, <2>3 DEF Leaders, OwnersAreRecorded
  <2>8. OnlyExOwnersHaveStraySeats'
    BY <1>0, <2>1, <2>3, <2>4 DEF Leaders, OnlyExOwnersHaveStraySeats
  <2> QED
    BY <2>6, <2>7, <2>8 DEF Leaders
<1>2. CASE UNCHANGED <<cached, rights, owner, memberGuild, everOwner>>
  BY <1>2 DEF Leaders, SoleLeader, OwnersAreRecorded, OnlyExOwnersHaveStraySeats
<1>3. ASSUME NEW p \in Player, NEW g \in Guild, NEW id \in {g, Zero}, JoinGuild(p, id, g)
      PROVE  Leaders'
  <2>1. CASE needReq[g]
    BY <1>2, <1>3, <2>1 DEF JoinGuild, history
  <2>2. CASE ~needReq[g]
    BY <1>3, <2>2, LeadersJoin DEF JoinGuild, history
  <2> QED
    BY <2>1, <2>2
<1>4. ASSUME NEW p \in Player, NEW q \in Player, NEW g \in Guild, AcceptJoin(p, q, g)
      PROVE  Leaders'
  <2>1. UNCHANGED <<cached, owner, everOwner>>
    BY <1>4 DEF AcceptJoin, history
  <2>2. CASE UNCHANGED <<rights, memberGuild>>
    BY <1>2, <2>1, <2>2
  <2>3. CASE DirectJoinGuild(q, g, Level3) /\ ~AlreadyInGuild(q)
    BY <2>1, <2>3, LeadersJoin
  <2> QED
    BY <1>4, <2>2, <2>3 DEF AcceptJoin, DirectJoinGuild
<1>5. ASSUME NEW p \in Player, NEW q \in Player, NEW g \in Guild,
             NEW r \in {Level3, Level2, Level1}, ModifyRight(p, q, g, r)
      PROVE  Leaders'
  <2>1. \A h \in Guild, x \in Player :
           rights'[h][x] = IF h = g /\ x = q THEN r ELSE rights[h][x]
    BY <1>5, ModifyRightEffect
  <2>2. UNCHANGED <<cached, owner, memberGuild, everOwner>> /\ rights[g][q] # NotIn
    BY <1>5 DEF ModifyRight, memberVars, history
  <2>3. SoleLeader'
    BY <1>0, <2>1, <2>2, LevelsDiffer DEF Leaders, SoleLeader
  <2>4. OwnersAreRecorded'
    BY <2>2 DEF Leaders, OwnersAreRecorded
  <2>5. OnlyExOwnersHaveStraySeats'
    BY <1>0, <2>1, <2>2 DEF Leaders, OnlyExOwnersHaveStraySeats
  <2> QED
    BY <2>3, <2>4, <2>5 DEF Leaders
<1>6. ASSUME NEW p \in Player, NEW q \in Player, NEW g \in Guild, OutGuild(p, q, g)
      PROVE  Leaders'
  <2>1. /\ \A h \in Guild, x \in Player :
              rights'[h][x] = IF h = g /\ x = q THEN NotIn ELSE rights[h][x]
        /\ \A x \in Player : x # q => memberGuild'[x] = memberGuild[x]
    BY <1>6, OutGuildEffect
  <2>2. UNCHANGED <<cached, owner, everOwner>> /\ g \in cached
    BY <1>6 DEF OutGuild, MayAct, history
  <2>3. memberGuild[q] = g \/ rights[g][q] # NotIn
    BY <1>6 DEF OutGuild, MayAct
  <2>4. SoleLeader'
    BY <1>0, <2>1, <2>2, LevelsDiffer DEF Leaders, SoleLeader
  <2>5. OwnersAreRecorded'
    BY <2>2 DEF Leaders, OwnersAreRecorded
  <2>6. OnlyExOwnersHaveStraySeats'
    <3> SUFFICES ASSUME NEW h \in cached, NEW x \in Player,
                        rights'[h][x] # NotIn, memberGuild'[x] # h
                 PROVE  x \in everOwner
      BY <2>2 DEF OnlyExOwnersHaveStraySeats
    <3>1. CASE x = q
      <4>1. h # g /\ rights[h][x] # NotIn
        BY <1>0, <2>1, <3>1
      <4>2. memberGuild[x] # h \/ (memberGuild[x] # g /\ rights[g][x] # NotIn)
        BY <2>3, <3>1, <4>1
      <4> QED
        BY <2>2, <4>1, <4>2 DEF Leaders, OnlyExOwnersHaveStraySeats
    <3>2. CASE x # q
      BY <1>0, <2>1, <3>2 DEF Leaders, OnlyExOwnersHaveStraySeats
    <3> QED
      BY <3>1, <3>2
  <2> QED
    BY <2>4, <2>5, <2>6 DEF Leaders
<1>7. ASSUME NEW p \in Player, NEW q \in Player, NEW g \in Guild, ChgOwner(p, q, g)
      PROVE  Leaders'
  <2>1. /\ \A h \in Guild, x \in Player :
              rights'[h][x] = IF h = g /\ x = p THEN Level1
                              ELSE IF h = g /\ x = q THEN Level0 ELSE rights[h][x]
        /\ \A h \in Guild : owner'[h] = IF h = g THEN q ELSE owner[h]
    BY <1>7, ChgOwnerEffect
  <2>2. /\ UNCHANGED <<cached, memberGuild>> /\ everOwner' = everOwner \cup {q}
        /\ g \in cached /\ rights[g][q] # NotIn
    BY <1>7 DEF ChgOwner, MayAct, memberVars
  <2>3. rights[g][p] = Level0
    BY <1>7 DEF ChgOwner, MayAct, HaveRight
  <2>4. SoleLeader'
    BY <1>0, <2>1, <2>2, <2>3, LevelsDiffer DEF Leaders, SoleLeader
  <2>5. OwnersAreRecorded'
    BY <1>0, <2>1, <2>2 DEF Leaders, OwnersAreRecorded
  <2>6. OnlyExOwnersHaveStraySeats'
    BY <1>0, <2>1, <2>2, <2>3, LevelsDiffer DEF Leaders, OnlyExOwnersHaveStraySeats
  <2> QED
    BY <2>4, <2>5, <2>6 DEF Leaders
<1>8. ASSUME NEW due \in SUBSET inDissolution, HalfHourJob(due)
      PROVE  Leaders'
  <2>1. \A x \in Player : memberGuild'[x] =
           IF (\E g \in due : rights[g][x] # NotIn) /\ memberGuild[x] # NoRecord
           THEN Out ELSE memberGuild[x]
    BY <1>8, DissolveEffect DEF HalfHourJob
  <2>2. cached' = cached \ due /\ UNCHANGED <<rights, owner, everOwner>>
    BY <1>8 DEF HalfHourJob, CheckInDissolutionGuild, history
  <2>3. due \subseteq cached
    BY <1>8 DEF Listed, DissolutionListed
  <2>4. SoleLeader' /\ OwnersAreRecorded'
    BY <2>2 DEF Leaders, SoleLeader, OwnersAreRecorded
  <2>5. OnlyExOwnersHaveStraySeats'
    <3> SUFFICES ASSUME NEW h \in cached \ due, NEW x \in Player,
                        rights[h][x] # NotIn, memberGuild'[x] # h
                 PROVE  x \in everOwner
      BY <2>2 DEF OnlyExOwnersHaveStraySeats
    <3>1. CASE memberGuild[x] # h
      BY <3>1 DEF Leaders, OnlyExOwnersHaveStraySeats
    <3>2. CASE memberGuild[x] = h
      <4>1. PICK g \in due : rights[g][x] # NotIn
        BY <2>1, <3>2
      <4>2. g \in cached /\ memberGuild[x] # g
        BY <2>3, <3>2
      <4> QED
        BY <4>1, <4>2 DEF Leaders, OnlyExOwnersHaveStraySeats
    <3> QED
      BY <3>1, <3>2
  <2> QED
    BY <2>4, <2>5 DEF Leaders
<1>9. ASSUME NEW active \in SUBSET Player, NEW newOwner \in [Guild -> Player \cup {NoRecord}],
             DayOffset4Job(active, newOwner)
      PROVE  Leaders'
  <2>0. ReplaceGuildLeader(active, newOwner)
    BY <1>9 DEF DayOffset4Job
  <2>1. UNCHANGED <<cached, memberGuild>>
    BY <1>9 DEF DayOffset4Job
  <2>2. /\ \A g \in Guild : Replaced(g, active) =>
              /\ rights[g][newOwner[g]] # NotIn
              /\ newOwner[g] \in everOwner'
        /\ everOwner \subseteq everOwner'
    BY <2>0, ReplaceGuildLeaderEffect
  <2>3. \A g \in Guild, x \in Player : rights'[g][x] =
           IF Replaced(g, active) /\ x = owner[g] THEN Level1
           ELSE IF Replaced(g, active) /\ x = newOwner[g] THEN Level0 ELSE rights[g][x]
    BY <2>0, ReplaceGuildLeaderEffect
  <2>4. \A g \in Guild : owner'[g] = IF Replaced(g, active) THEN newOwner[g] ELSE owner[g]
    BY <2>0, ReplaceGuildLeaderEffect
  <2>5. SoleLeader'
    <3> SUFFICES ASSUME NEW g \in cached, NEW x \in Player, rights'[g][x] = Level0
                 PROVE  owner'[g] = x
      BY <2>1 DEF SoleLeader
    <3> QED
      BY <1>0, <2>3, <2>4, LevelsDiffer DEF Leaders, SoleLeader
  <2>6. OwnersAreRecorded'
    BY <1>0, <2>1, <2>2, <2>4 DEF Leaders, OwnersAreRecorded
  <2>7. OnlyExOwnersHaveStraySeats'
    <3> SUFFICES ASSUME NEW g \in cached, NEW x \in Player,
                        rights'[g][x] # NotIn, memberGuild[x] # g
                 PROVE  x \in everOwner'
      BY <2>1 DEF OnlyExOwnersHaveStraySeats
    <3>1. CASE rights[g][x] # NotIn
      BY <2>2, <3>1 DEF Leaders, OnlyExOwnersHaveStraySeats
    <3>2. CASE rights[g][x] = NotIn
      <4>1. x = owner[g]
        BY <1>0, <2>2, <2>3, <3>2
      <4> QED
        BY <2>2, <4>1 DEF Leaders, OwnersAreRecorded
    <3> QED
      BY <3>1, <3>2
  <2> QED
    BY <2>5, <2>6, <2>7 DEF Leaders
<1>10. ASSUME NEW p \in Player, Load(p) \/ QueryBuilds(p)
       PROVE  Leaders'
  <2>1. UNCHANGED <<cached, owner, everOwner>>
    BY <1>10, BuildEffect DEF history
  <2>2. UNCHANGED <<rights, memberGuild>>
    BY <1>10, BuildKeepsRecords
  <2> QED
    BY <1>2, <2>1, <2>2
<1>11. ASSUME NEW p \in Player, EnterGame(p)
       PROVE  Leaders'
  <2>1. memberGuild' = memberGuild
    BY <1>11 DEF EnterGame, Records, RecordHasSeat
  <2> QED
    BY <1>2, <1>11, <2>1 DEF EnterGame, guildVars, history
<1>12. ASSUME NEW p \in Player, NEW g \in Guild, ClientRequest(p, g)
       PROVE  Leaders'
  BY <1>1, <1>2, <1>3, <1>12
  DEF ClientRequest, ModifyNeedReqStatus, NotAllJoinReq, DissolutionGuild,
      CancelDissolutionGuild, Donate, guildVars, memberVars, history
<1>13. ASSUME NEW p \in Player, NEW q \in Player, NEW g \in Guild, ClientRequestOn(p, q, g)
       PROVE  Leaders'
  BY <1>2, <1>4, <1>5, <1>6, <1>7, <1>13 DEF ClientRequestOn, RefuseJoin, guildVars, history
<1>14. ASSUME Timers PROVE Leaders'
  BY <1>8, <1>9, <1>14 DEF Timers
<1>15. ASSUME NEW p \in Player, PlayerLifecycle(p) PROVE Leaders'
  BY <1>2, <1>10, <1>11, <1>15
  DEF PlayerLifecycle, CoolDown, Evict, QueryLoaded, guildVars, memberVars, history
<1> QED
  BY <1>2, <1>12, <1>13, <1>14, <1>15 DEF Next, vars, guildVars, memberVars, history

----------------------------------------------------------------------------
(* The inductive invariant and what follows from it.                       *)

IInv == TypeOK /\ Listed /\ Records /\ Leaders

(* All three layers hold in every reachable state.                         *)
THEOREM Inductive == Spec => []IInv
<1>1. Init => IInv
  BY TypeInit, ListedInit, RecordsInit, LeadersInit DEF IInv
<1>2. IInv /\ [Next]_vars => IInv'
  BY TypeStep, ListedStep, RecordsStep, LeadersStep DEF IInv
<1> QED
  BY <1>1, <1>2, PTL DEF Spec

(* A GuildMemberVO always names a findable guild in which the player has a *)
(* seat, whatever createGuild, joinGuild, outGuild and the dissolution did. *)
THEOREM RecordsAreSeated == Spec => []RecordHasSeat
<1>1. IInv => RecordHasSeat
  BY DEF IInv, Records
<1> QED
  BY <1>1, Inductive, PTL

(* HalfHourJob finds every guild that is being dissolved, and only those.  *)
THEOREM ListsMatchStatus == Spec => []DissolutionListed
<1>1. IInv => DissolutionListed
  BY DEF IInv, Listed
<1> QED
  BY <1>1, Inductive, PTL

(* joinGuild(0) never picks a guild that admits on request only.           *)
THEOREM QuickJoinIsSound == Spec => []QuickJoinNeedsNoRequest
<1>1. IInv => QuickJoinNeedsNoRequest
  BY DEF IInv, Listed
<1> QED
  BY <1>1, Inductive, PTL

(* No request of a member survives in allReqsCache: no officer can accept  *)
(* a player who has joined another guild meanwhile.                        *)
THEOREM MembersAskNobody == Spec => []MembersHaveNoRequests
<1>1. IInv => MembersHaveNoRequests
  BY DEF IInv, Records
<1> QED
  BY <1>1, Inductive, PTL

(* The requests in allReqsCache are undecided and filed under a guild.     *)
THEOREM RequestsAreClean == Spec => []RequestsAreGenuine
<1>1. IInv => RequestsAreGenuine
  BY DEF IInv, Records
<1> QED
  BY <1>1, Inductive, PTL

(* PlayerVO.guildID and GuildMemberVO.guildID agree for players in memory, *)
(* except for one whose object was built for a query (queryPlayerByPID) and *)
(* reached the cache after the record had changed.                         *)
THEOREM PlayersAgree == Spec => []PlayerAgreesWithRecord
<1>1. IInv => PlayerAgreesWithRecord
  BY DEF IInv, Records
<1> QED
  BY <1>1, Inductive, PTL

(* Nobody but the owner holds Level0.                                      *)
THEOREM LeaderIsSole == Spec => []SoleLeader
<1>1. IInv => SoleLeader
  BY DEF IInv, Leaders
<1> QED
  BY <1>1, Inductive, PTL

(* Seats without a record are left only by replaceGuildLeader's owners.    *)
THEOREM StraySeatsAreExOwners == Spec => []OnlyExOwnersHaveStraySeats
<1>1. IInv => OnlyExOwnersHaveStraySeats
  BY DEF IInv, Leaders
<1> QED
  BY <1>1, Inductive, PTL

----------------------------------------------------------------------------
(* What a step may never do.                                               *)

(* A record changes to Out, or it belonged to a player who was in no guild. *)
LEMMA RecordMoves ==
    ASSUME IInv, [Next]_vars, NEW x \in Player
    PROVE  memberGuild'[x] \in {memberGuild[x], Out} \/ NotInGuild(x)
<1> DEFINE Goal == memberGuild'[x] \in {memberGuild[x], Out} \/ NotInGuild(x)
<1> USE DEF IInv
<1>1. ASSUME NEW p \in Player, NEW g \in Guild, NEW r \in RightLevels, DirectJoinGuild(p, g, r)
      PROVE  Goal
  <2>1. CASE AlreadyInGuild(p)
    BY <1>1, <2>1 DEF DirectJoinGuild
  <2>2. CASE ~AlreadyInGuild(p)
    <3>1. memberGuild'[x] = IF x = p THEN g ELSE memberGuild[x]
      BY <1>1, <2>2, DirectJoinEffect
    <3> QED
      BY <2>2, <3>1, JoinersAreOut
  <2> QED
    BY <2>1, <2>2
<1>2. CASE UNCHANGED memberGuild
  BY <1>2
<1>3. ASSUME NEW p \in Player, NEW q \in Player, NEW g \in Guild, OutGuild(p, q, g)
      PROVE  Goal
  BY <1>3, OutGuildEffect
<1>4. ASSUME NEW due \in SUBSET inDissolution, HalfHourJob(due)
      PROVE  Goal
  BY <1>4, DissolveEffect DEF HalfHourJob
<1>5. ASSUME NEW p \in Player, Load(p) \/ QueryBuilds(p) PROVE Goal
  BY <1>2, <1>5, BuildKeepsRecords
<1>6. ASSUME NEW p \in Player, EnterGame(p) PROVE Goal
  BY <1>6 DEF EnterGame, TypeOK
<1>7. ASSUME NEW p \in Player, NEW g \in Guild, ClientRequest(p, g)
      PROVE  Goal
  BY <1>1, <1>2, <1>7, LevelTypes
  DEF ClientRequest, CreateGuild, JoinGuild, ModifyNeedReqStatus, NotAllJoinReq,
      DissolutionGuild, CancelDissolutionGuild, Donate, memberVars
<1>8. ASSUME NEW p \in Player, NEW q \in Player, NEW g \in Guild, ClientRequestOn(p, q, g)
      PROVE  Goal
  BY <1>1, <1>2, <1>3, <1>8, LevelTypes
  DEF ClientRequestOn, AcceptJoin, RefuseJoin, ModifyRight, ChgOwner, memberVars
<1>9. ASSUME Timers PROVE Goal
  BY <1>2, <1>4, <1>9 DEF Timers, DayOffset4Job
<1>10. ASSUME NEW p \in Player, PlayerLifecycle(p) PROVE Goal
  BY <1>2, <1>5, <1>6, <1>10 DEF PlayerLifecycle, CoolDown, Evict, QueryLoaded, memberVars
<1> QED
  BY <1>2, <1>7, <1>8, <1>9, <1>10 DEF Next, vars, memberVars

(* No step moves a player from one guild straight into another one.        *)
THEOREM NoHopping == Spec => NoGuildHopping
<1>1. IInv /\ [Next]_vars =>
         [\A p \in Player : memberGuild[p] \in Guild /\ memberGuild'[p] \in Guild
                                => memberGuild'[p] = memberGuild[p]]_vars
  BY RecordMoves, GuildAssumption DEF NotInGuild
<1> QED
  BY <1>1, Inductive, PTL DEF Spec, NoGuildHopping

(* The seat of a holder of Level0 survives every step that keeps the guild. *)
LEMMA LeaderSeatStep ==
    ASSUME IInv, [Next]_vars, NEW h \in cached, NEW x \in Player, rights[h][x] = Level0
    PROVE  rights'[h][x] # NotIn
<1> DEFINE Goal == rights'[h][x] # NotIn
<1> USE LevelsDiffer DEF IInv
<1>0. h \in Guild
  BY DEF TypeOK
<1>1. CASE UNCHANGED rights
  BY <1>1
<1>2. ASSUME NEW p \in Player, NEW g \in Guild, NEW r \in RightLevels, DirectJoinGuild(p, g, r)
      PROVE  Goal
  <2>1. CASE AlreadyInGuild(p)
    BY <1>1, <1>2, <2>1 DEF DirectJoinGuild
  <2>2. CASE ~AlreadyInGuild(p)
    <3>1. rights'[h][x] = IF h = g /\ x = p THEN r ELSE rights[h][x]
      BY <1>0, <1>2, <2>2, DirectJoinEffect
    <3> QED
      BY <3>1, LevelTypes
  <2> QED
    BY <2>1, <2>2
<1>3. ASSUME NEW p \in Player, NEW q \in Player, NEW g \in Guild,
             NEW r \in {Level3, Level2, Level1}, ModifyRight(p, q, g, r)
      PROVE  Goal
  <2>1. rights'[h][x] = IF h = g /\ x = q THEN r ELSE rights[h][x]
    BY <1>0, <1>3, ModifyRightEffect
  <2> QED
    BY <2>1
<1>4. ASSUME NEW p \in Player, NEW q \in Player, NEW g \in Guild, OutGuild(p, q, g)
      PROVE  Goal
  <2>1. rights'[h][x] = IF h = g /\ x = q THEN NotIn ELSE rights[h][x]
    BY <1>0, <1>4, OutGuildEffect
  <2>2. rights[g][q] # Level0
    <3>1. CASE p = q
      BY <1>4, <3>1 DEF OutGuild, MayAct, HaveRight
    <3>2. CASE p # q
      <4>1. rights[g][q] < rights[g][p]
        BY <1>4, <3>2 DEF OutGuild
      <4>2. rights[g][p] \in {NotIn, Level3, Level2, Level1, Level0}
        BY LevelTypes DEF TypeOK
      <4> QED
        BY <4>1, <4>2 DEF NotIn, Level3, Level2, Level1, Level0
    <3> QED
      BY <3>1, <3>2
  <2> QED
    BY <2>1, <2>2
<1>5. ASSUME NEW p \in Player, NEW q \in Player, NEW g \in Guild, ChgOwner(p, q, g)
      PROVE  Goal
  <2>1. rights'[h][x] = IF h = g /\ x = p THEN Level1
                        ELSE IF h = g /\ x = q THEN Level0 ELSE rights[h][x]
    BY <1>0, <1>5, ChgOwnerEffect
  <2> QED
    BY <2>1
<1>6. ASSUME NEW active \in SUBSET Player, NEW newOwner \in [Guild -> Player \cup {NoRecord}],
             DayOffset4Job(active, newOwner)
      PROVE  Goal
  BY <1>0, <1>6, ReplaceKeepsSeats DEF DayOffset4Job
<1>7. ASSUME NEW p \in Player, Load(p) \/ QueryBuilds(p) PROVE Goal
  BY <1>1, <1>7, BuildKeepsRecords
<1>8. ASSUME NEW p \in Player, NEW g \in Guild, ClientRequest(p, g)
      PROVE  Goal
  BY <1>1, <1>2, <1>8, LevelTypes
  DEF ClientRequest, CreateGuild, JoinGuild, ModifyNeedReqStatus, NotAllJoinReq,
      DissolutionGuild, CancelDissolutionGuild, Donate, guildVars
<1>9. ASSUME NEW p \in Player, NEW q \in Player, NEW g \in Guild, ClientRequestOn(p, q, g)
      PROVE  Goal
  BY <1>1, <1>2, <1>3, <1>4, <1>5, <1>9, LevelTypes
  DEF ClientRequestOn, AcceptJoin, RefuseJoin, guildVars
<1>10. ASSUME Timers PROVE Goal
  BY <1>1, <1>6, <1>10 DEF Timers, HalfHourJob
<1>11. ASSUME NEW p \in Player, PlayerLifecycle(p) PROVE Goal
  BY <1>1, <1>7, <1>11 DEF PlayerLifecycle, CoolDown, Evict, EnterGame, QueryLoaded, guildVars
<1> QED
  BY <1>1, <1>8, <1>9, <1>10, <1>11 DEF Next, vars, guildVars

(* A holder of Level0 is neither dismissed nor able to leave.              *)
THEOREM LeaderStays == Spec => LeaderKeepsSeat
<1>1. IInv /\ [Next]_vars =>
         [\A g \in cached, p \in Player : rights[g][p] = Level0 => rights'[g][p] # NotIn]_vars
  BY LeaderSeatStep
<1> QED
  BY <1>1, Inductive, PTL DEF Spec, LeaderKeepsSeat
----------------------------------------------------------------------------
(* Third layer, by counting: the member limit.                             *)

Members(g) == {p \in Player : memberGuild[p] = g}
Seated(g)  == {p \in Player : rights[g][p] # NotIn}

(* Whoever is a member has a seat, so the size that joinGuild and          *)
(* acceptPlayerJoinGuild look at is never smaller than the membership.     *)
LEMMA SeatsBoundMembers ==
    ASSUME TypeOK, Records, NEW g \in Guild
    PROVE  /\ IsFiniteSet(Members(g))
           /\ Cardinality(Members(g)) \in Nat
           /\ MemberSize(rights[g]) \in Nat
           /\ Cardinality(Members(g)) <= MemberSize(rights[g])
<1>1. Members(g) \subseteq Seated(g) /\ Seated(g) \subseteq Player
  BY DEF Members, Seated, Records, RecordHasSeat
<1>2. IsFiniteSet(Seated(g))
  BY <1>1, GuildAssumption, FS_Subset
<1>3. IsFiniteSet(Members(g)) /\ Cardinality(Members(g)) <= Cardinality(Seated(g))
  BY <1>1, <1>2, FS_Subset
<1>4. Cardinality(Members(g)) \in Nat /\ Cardinality(Seated(g)) \in Nat
  BY <1>2, <1>3, FS_CardinalityType
<1> QED
  BY <1>3, <1>4 DEF MemberSize, Seated

(* One more member makes the membership at most one larger.                *)
LEMMA OneMoreMember ==
    ASSUME NEW S, NEW T, NEW x, IsFiniteSet(S), T \subseteq S \cup {x}
    PROVE  /\ IsFiniteSet(T)
           /\ Cardinality(T) \in Nat
           /\ Cardinality(T) <= Cardinality(S) + 1
<1>1. /\ IsFiniteSet(S \cup {x}) /\ Cardinality(S) \in Nat
      /\ Cardinality(S \cup {x}) <= Cardinality(S) + 1
  <2>1. /\ IsFiniteSet(S \cup {x})
        /\ Cardinality(S \cup {x}) = IF x \in S THEN Cardinality(S) ELSE Cardinality(S) + 1
    BY FS_AddElement
  <2>2. Cardinality(S) \in Nat
    BY FS_CardinalityType
  <2> QED
    BY <2>1, <2>2
<1>2. IsFiniteSet(T) /\ Cardinality(T) <= Cardinality(S \cup {x})
  BY <1>1, FS_Subset
<1>3. Cardinality(T) \in Nat /\ Cardinality(S \cup {x}) \in Nat
  BY <1>1, <1>2, FS_CardinalityType
<1> QED
  BY <1>1, <1>2, <1>3

(* A guild gains nobody, is new, or has room for the one player it gains.  *)
Admits(h) ==
    \/ Members(h)' \subseteq Members(h)
    \/ \E p \in Player :
          /\ Members(h)' \subseteq Members(h) \cup {p}
          /\ Members(h) = {} \/ ~IsMaxSize(rights[h], level[h])

(* Every caller of directJoinGuild has looked at the size.                 *)
LEMMA JoinAdmits ==
    ASSUME IInv, NEW p \in Player, NEW g \in Guild, NEW r \in RightLevels,
           DirectJoinGuild(p, g, r),
           Members(g) = {} \/ ~IsMaxSize(rights[g], level[g]),
           NEW h \in Guild
    PROVE  Admits(h)
<1>1. CASE AlreadyInGuild(p)
  BY <1>1 DEF DirectJoinGuild, Admits, Members
<1>2. CASE ~AlreadyInGuild(p)
  <2>1. \A x \in Player : memberGuild'[x] = IF x = p THEN g ELSE memberGuild[x]
    BY <1>2, DirectJoinEffect DEF IInv
  <2>2. CASE h = g
    <3>1. Members(h)' \subseteq Members(h) \cup {p}
      BY <2>1, <2>2 DEF Members
    <3> QED
      BY <2>2, <3>1 DEF Admits
  <2>3. CASE h # g
    BY <2>1, <2>3 DEF Members, Admits
  <2> QED
    BY <2>2, <2>3
<1> QED
  BY <1>1, <1>2

(* Records that stay or are reset give no guild a member.                  *)
LEMMA ReleaseAdmits ==
    ASSUME NEW h \in Guild, \A x \in Player : memberGuild'[x] \in {memberGuild[x], Out}
    PROVE  Admits(h)
<1>1. h # Out
  BY GuildAssumption
<1> QED
  BY <1>1 DEF Members, Admits

LEMMA StepAdmits ==
    ASSUME IInv, [Next]_vars, NEW h \in Guild
    PROVE  Admits(h)
<1> USE DEF IInv
<1>0. Level0 \in RightLevels /\ Level3 \in RightLevels
  BY LevelTypes
<1>1. CASE UNCHANGED memberGuild
  BY <1>1, ReleaseAdmits
<1>2. ASSUME NEW p \in Player, NEW g \in Guild, NEW need \in BOOLEAN, CreateGuild(p, g, need)
      PROVE  Admits(h)
  <2>1. g \notin cached
    BY <1>2 DEF CreateGuild, Listed, DissolutionListed
  <2>2. Members(g) = {}
    BY <2>1 DEF Members, Records, RecordHasSeat
  <2>3. DirectJoinGuild(p, g, Level0)
    BY <1>2 DEF CreateGuild
  <2> QED
    BY <1>0, <2>2, <2>3, JoinAdmits
<1>3. ASSUME NEW p \in Player, NEW g \in Guild, NEW id \in {g, Zero}, JoinGuild(p, id, g)
      PROVE  Admits(h)
  <2>1. CASE needReq[g]
    BY <1>1, <1>3, <2>1 DEF JoinGuild
  <2>2. CASE ~needReq[g]
    <3>1. DirectJoinGuild(p, g, Level3) /\ ~IsMaxSize(rights[g], level[g])
      BY <1>3, <2>2 DEF JoinGuild
    <3> QED
      BY <1>0, <3>1, JoinAdmits
  <2> QED
    BY <2>1, <2>2
<1>4. ASSUME NEW p \in Player, NEW q \in Player, NEW g \in Guild, AcceptJoin(p, q, g)
      PROVE  Admits(h)
  <2>1. DirectJoinGuild(q, g, Level3) \/ UNCHANGED memberGuild
    BY <1>4 DEF AcceptJoin
  <2>2. ~IsMaxSize(rights[g], level[g])
    BY <1>4 DEF AcceptJoin
  <2> QED
    BY <1>0, <1>1, <2>1, <2>2, JoinAdmits
<1>5. ASSUME NEW p \in Player, NEW q \in Player, NEW g \in Guild, OutGuild(p, q, g)
      PROVE  Admits(h)
  <2>1. \A x \in Player : memberGuild'[x] \in {memberGuild[x], Out}
    BY <1>5, OutGuildEffect
  <2> QED
    BY <2>1, ReleaseAdmits
<1>6. ASSUME NEW due \in SUBSET inDissolution, HalfHourJob(due)
      PROVE  Admits(h)
  <2>1. \A x \in Player : memberGuild'[x] \in {memberGuild[x], Out}
    BY <1>6, DissolveEffect DEF HalfHourJob
  <2> QED
    BY <2>1, ReleaseAdmits
<1>7. ASSUME NEW p \in Player, Load(p) \/ QueryBuilds(p)
      PROVE  Admits(h)
  BY <1>1, <1>7, BuildKeepsRecords
<1>8. ASSUME NEW p \in Player, EnterGame(p)
      PROVE  Admits(h)
  <2>1. \A x \in Player : memberGuild'[x] \in {memberGuild[x], Out}
    BY <1>8 DEF EnterGame, TypeOK
  <2> QED
    BY <2>1, ReleaseAdmits
<1>9. ASSUME NEW p \in Player, NEW g \in Guild, ClientRequest(p, g)
      PROVE  Admits(h)
  BY <1>1, <1>2, <1>3, <1>9
  DEF ClientRequest, ModifyNeedReqStatus, NotAllJoinReq, DissolutionGuild,
      CancelDissolutionGuild, Donate, memberVars
<1>10. ASSUME NEW p \in Player, NEW q \in Player, NEW g \in Guild, ClientRequestOn(p, q, g)
      PROVE  Admits(h)
  BY <1>1, <1>4, <1>5, <1>10 DEF ClientRequestOn, RefuseJoin, ModifyRight, ChgOwner, memberVars
<1>11. ASSUME Timers PROVE Admits(h)
  BY <1>1, <1>6, <1>11 DEF Timers, DayOffset4Job
<1>12. ASSUME NEW p \in Player, PlayerLifecycle(p) PROVE Admits(h)
  BY <1>1, <1>7, <1>8, <1>12 DEF PlayerLifecycle, CoolDown, Evict, QueryLoaded, memberVars
<1> QED
  BY <1>1, <1>9, <1>10, <1>11, <1>12 DEF Next, vars, memberVars

(* Donations raise the level of one guild by at most one; nothing else     *)
(* changes a level.                                                        *)
LEMMA LevelMoves ==
    ASSUME TypeOK, [Next]_vars
    PROVE  \/ UNCHANGED level
           \/ \E g \in Guild : level[g] # MaxLevel /\ level' = [level EXCEPT ![g] = level[g] + 1]
<1> DEFINE Goal == \/ UNCHANGED level
                   \/ \E g \in Guild : level[g] # MaxLevel /\ level' = [level EXCEPT ![g] = level[g] + 1]
<1>1. CASE UNCHANGED level
  BY <1>1
<1>2. ASSUME NEW p \in Player, NEW g \in Guild, Donate(p, g)
      PROVE  Goal
  <2>1. CASE level[g] = MaxLevel
    BY <1>2, <2>1 DEF Donate
  <2>2. CASE level[g] # MaxLevel
    <3>1. PICK l \in {level[g], level[g] + 1} : level' = [level EXCEPT ![g] = l]
      BY <1>2, <2>2 DEF Donate
    <3>2. CASE l = level[g]
      BY <3>1, <3>2 DEF TypeOK
    <3>3. CASE l = level[g] + 1
      BY <2>2, <3>1, <3>3
    <3> QED
      BY <3>1, <3>2, <3>3
  <2> QED
    BY <2>1, <2>2
<1>3. ASSUME NEW p \in Player, NEW g \in Guild, ClientRequest(p, g)
      PROVE  Goal
  BY <1>1, <1>2, <1>3
  DEF ClientRequest, CreateGuild, JoinGuild, ModifyNeedReqStatus, NotAllJoinReq, DissolutionGuild,
      CancelDissolutionGuild, guildVars
<1>4. ASSUME NEW p \in Player, NEW q \in Player, NEW g \in Guild, ClientRequestOn(p, q, g)
      PROVE  Goal
  BY <1>1, <1>4 DEF ClientRequestOn, AcceptJoin, RefuseJoin, ModifyRight, OutGuild, ChgOwner, guildVars
<1>5. ASSUME Timers PROVE Goal
  BY <1>1, <1>5 DEF Timers, HalfHourJob, DayOffset4Job
<1>6. ASSUME NEW p \in Player, PlayerLifecycle(p) PROVE Goal
  BY <1>1, <1>6 DEF PlayerLifecycle, CoolDown, Evict, Load, QueryBuilds, QueryLoaded, EnterGame, guildVars
<1> QED
  BY <1>1, <1>3, <1>4, <1>5, <1>6 DEF Next, vars, guildVars

(* Where a level rises the limit does not fall.                            *)
LEMMA LimitGrows ==
    ASSUME TypeOK, TypeOK', [Next]_vars, NEW g \in Guild
    PROVE  /\ MaxMemberSize[level[g]] \in Nat \ {0}
           /\ MaxMemberSize[level'[g]] \in Nat \ {0}
           /\ MaxMemberSize[level[g]] <= MaxMemberSize[level'[g]]
<1>1. level[g] \in 1..MaxLevel /\ level'[g] \in 1..MaxLevel
  BY DEF TypeOK
<1>2. level'[g] = level[g] \/ (level[g] < MaxLevel /\ level'[g] = level[g] + 1)
  <2>1. level \in [Guild -> 1..MaxLevel] /\ MaxLevel \in Nat
    BY GuildAssumption DEF TypeOK
  <2>2. CASE UNCHANGED level
    BY <2>2
  <2>3. ASSUME NEW h \in Guild, level[h] # MaxLevel, level' = [level EXCEPT ![h] = level[h] + 1]
        PROVE  level'[g] = level[g] \/ (level[g] < MaxLevel /\ level'[g] = level[g] + 1)
    BY <1>1, <2>1, <2>3
  <2> QED
    BY <2>2, <2>3, LevelMoves
<1> QED
  BY <1>1, <1>2, GuildAssumption

LimitAll == \A g \in Guild : Cardinality(Members(g)) <= MaxMemberSize[level[g]]

LEMMA LimitStep == IInv /\ IInv' /\ LimitAll /\ [Next]_vars => LimitAll'
<1> SUFFICES ASSUME IInv, IInv', LimitAll, [Next]_vars, NEW g \in Guild
             PROVE  Cardinality(Members(g)') <= MaxMemberSize[level'[g]]
  BY DEF LimitAll
<1> DEFINE old == Members(g)
           new == Members(g)'
<1>1. /\ IsFiniteSet(old) /\ Cardinality(old) \in Nat
      /\ MemberSize(rights[g]) \in Nat /\ Cardinality(old) <= MemberSize(rights[g])
      /\ Cardinality(old) <= MaxMemberSize[level[g]]
  BY SeatsBoundMembers DEF IInv, LimitAll
<1>2. /\ MaxMemberSize[level[g]] \in Nat \ {0} /\ MaxMemberSize[level'[g]] \in Nat \ {0}
      /\ MaxMemberSize[level[g]] <= MaxMemberSize[level'[g]]
  BY LimitGrows DEF IInv
<1>3. CASE new \subseteq old
  <2>1. IsFiniteSet(new) /\ Cardinality(new) <= Cardinality(old)
    BY <1>1, <1>3, FS_Subset
  <2>2. Cardinality(new) \in Nat
    BY <2>1, FS_CardinalityType
  <2> QED
    BY <1>1, <1>2, <2>1, <2>2
<1>4. ASSUME NEW p \in Player, new \subseteq old \cup {p},
             old = {} \/ ~IsMaxSize(rights[g], level[g])
      PROVE  Cardinality(new) <= MaxMemberSize[level'[g]]
  <2>1. Cardinality(new) \in Nat /\ Cardinality(new) <= Cardinality(old) + 1
    BY <1>1, <1>4, OneMoreMember
  <2>2. CASE old = {}
    <3>1. Cardinality(old) = 0
      BY <2>2, FS_EmptySet
    <3> QED
      BY <1>2, <2>1, <3>1
  <2>3. CASE ~IsMaxSize(rights[g], level[g])
    <3>1. MemberSize(rights[g]) < MaxMemberSize[level[g]]
      BY <1>1, <1>2, <2>3 DEF IsMaxSize
    <3> QED
      BY <1>1, <1>2, <2>1, <3>1
  <2> QED
    BY <1>4, <2>2, <2>3
<1> QED
  BY <1>3, <1>4, StepAdmits DEF Admits

(* No guild has more members than MaxMemberSize of its level allows,       *)
(* whichever of createGuild, joinGuild, acceptPlayerJoinGuild and          *)
(* buildAsLoad admitted them and whatever leaders the 4 am job replaced.   *)
THEOREM LimitIsKept == Spec => []MemberLimit
<1>1. Init => LimitAll
  <2> SUFFICES ASSUME Init, NEW g \in Guild
               PROVE  Cardinality(Members(g)) <= MaxMemberSize[level[g]]
    BY DEF LimitAll
  <2>1. Members(g) = {}
    BY GuildAssumption DEF Init, Members
  <2>2. MaxMemberSize[level[g]] \in Nat
    BY TypeInit, GuildAssumption DEF TypeOK
  <2>3. Cardinality(Members(g)) = 0
    BY <2>1, FS_EmptySet
  <2> QED
    BY <2>2, <2>3
<1>2. IInv /\ LimitAll => MemberLimit
  BY DEF IInv, TypeOK, LimitAll, MemberLimit, Members
<1> QED
  BY <1>1, <1>2, LimitStep, Inductive, PTL DEF Spec

----------------------------------------------------------------------------
(* Fourth layer: donations of a day.                                       *)

AtLastLevel == \E g \in Guild : level[g] = MaxLevel

(* Whoever has paid has its donation recorded, unless it paid in vain.     *)
PaidIsRecorded ==
    \A p \in Player : /\ charges[p] > 1 => AtLastLevel
                      /\ charges[p] > 0 /\ p \notin donated => AtLastLevel

LEMMA LastLevelStays ==
    ASSUME TypeOK, [Next]_vars, AtLastLevel
    PROVE  AtLastLevel'
  BY LevelMoves DEF AtLastLevel, TypeOK

(* Only donate charges a player and only the reset forgets donations.      *)
LEMMA DonationMoves ==
    ASSUME TypeOK, [Next]_vars
    PROVE  \/ UNCHANGED <<charges, donated>>
           \/ \A p \in Player : charges'[p] = 0
           \/ \E p \in Player, g \in Guild : Donate(p, g)
<1> DEFINE Goal == \/ UNCHANGED <<charges, donated>>
                   \/ \A p \in Player : charges'[p] = 0
                   \/ \E p \in Player, g \in Guild : Donate(p, g)
<1>1. ASSUME NEW p \in Player, NEW g \in Guild, ClientRequest(p, g)
      PROVE  Goal
  BY <1>1
  DEF ClientRequest, CreateGuild, JoinGuild, ModifyNeedReqStatus, NotAllJoinReq, DissolutionGuild,
      CancelDissolutionGuild, memberVars, history
<1>2. ASSUME NEW p \in Player, NEW q \in Player, NEW g \in Guild, ClientRequestOn(p, q, g)
      PROVE  Goal
  BY <1>2 DEF ClientRequestOn, AcceptJoin, RefuseJoin, ModifyRight, OutGuild, ChgOwner, memberVars, history
<1>3. ASSUME Timers PROVE Goal
  BY <1>3 DEF Timers, HalfHourJob, DayOffset4Job, SystemResetGuildData, history
<1>4. ASSUME NEW p \in Player, PlayerLifecycle(p) PROVE Goal
  BY <1>4 DEF PlayerLifecycle, CoolDown, Evict, Load, QueryBuilds, QueryLoaded, EnterGame,
              memberVars, history
<1> QED
  BY <1>1, <1>2, <1>3, <1>4 DEF Next, vars, memberVars, history

LEMMA PaidStep == TypeOK /\ PaidIsRecorded /\ [Next]_vars => PaidIsRecorded'
<1> SUFFICES ASSUME TypeOK, PaidIsRecorded, [Next]_vars
             PROVE  PaidIsRecorded'
  OBVIOUS
<1>1. CASE UNCHANGED <<charges, donated>>
  BY <1>1, LastLevelStays DEF PaidIsRecorded
<1>2. CASE \A p \in Player : charges'[p] = 0
  BY <1>2 DEF PaidIsRecorded
<1>3. ASSUME NEW p \in Player, NEW g \in Guild, Donate(p, g)
      PROVE  PaidIsRecorded'
  <2>1. /\ charges' = [charges EXCEPT ![p] = @ + 1] /\ charges \in [Player -> Nat]
        /\ p \notin donated
    BY <1>3 DEF Donate, TypeOK
  <2>2. CASE level[g] = MaxLevel
    <3>1. AtLastLevel'
      BY <2>2, LastLevelStays DEF AtLastLevel
    <3> QED
      BY <3>1 DEF PaidIsRecorded
  <2>3. CASE level[g] # MaxLevel
    <3>1. donated' = donated \cup {p}
      BY <1>3, <2>3 DEF Donate
    <3> SUFFICES ASSUME NEW q \in Player
                 PROVE  /\ charges'[q] > 1 => AtLastLevel'
                        /\ charges'[q] > 0 /\ q \notin donated' => AtLastLevel'
      BY DEF PaidIsRecorded
    <3>2. CASE q # p
      BY <2>1, <3>1, <3>2, LastLevelStays DEF PaidIsRecorded
    <3>3. CASE q = p
      BY <2>1, <3>1, <3>3, LastLevelStays DEF PaidIsRecorded
    <3> QED
      BY <3>2, <3>3
  <2> QED
    BY <2>2, <2>3
<1> QED
  BY <1>1, <1>2, <1>3, DonationMoves

(* Nobody pays twice a day as long as no guild is at the last level, where *)
(* donate fails between payment and record.                                *)
THEOREM PaysOnce == Spec => []DoubleChargeOnlyAtLastLevel
<1>1. Init => PaidIsRecorded
  BY DEF Init, PaidIsRecorded
<1>2. PaidIsRecorded => DoubleChargeOnlyAtLastLevel
  BY DEF PaidIsRecorded, DoubleChargeOnlyAtLastLevel, AtLastLevel
<1> QED
  BY <1>1, <1>2, PaidStep, TypeCorrect, PTL DEF Spec
=============================================================================
