------------------------------- MODULE Guild -------------------------------
(***************************************************************************)
(* Guild membership of the game server: GuildBOImpl with its caches        *)
(* (CacheGuild), its right levels (RightLevel) and the half-hour and daily *)
(* jobs that call it.  Every handler runs on the single GAME logic thread, *)
(* so each one is one action.  Only a player loaded to answer a query is   *)
(* built on a database thread and put into the cache in a later step.      *)
(*                                                                         *)
(* Three records speak about the same membership and are kept in step only *)
(* by the handlers: GuildVO.memberRights (rights), GuildMemberVO.guildID   *)
(* (memberGuild) and, for a player in memory, PlayerVO.guildID (pGuild).   *)
(* Names, notices, money, logs, mails and pushed messages are left out.    *)
(***************************************************************************)
EXTENDS Integers, FiniteSets

CONSTANTS
    Player,                  \* player ids
    Guild,                   \* guild ids the database may hand out, never reused
    NoRecord,                \* a player without a GuildMemberVO
    Out,                     \* guildID -1: the record exists, the player is in no guild
    Zero,                    \* guildID 0: "any guild" in joinGuild
    MaxLevel,                \* last level GuildLVCfg knows
    MaxMemberSize,           \* CacheDisGuild.MaxMemberSize, by guild level
    RightLevel2MemberSize,   \* CacheDisGuild.RightLevel2MemberSize, by guild level
    RightLevel1MemberSize,   \* CacheDisGuild.RightLevel1MemberSize, by guild level
    MaxCanReqSize,           \* GuildLVCfg.maxCanReqSize
    EnterGuildCD,            \* GuildConfig.enterGuildCD, hours before the next join
    MaxCharges,              \* bound on donations of one player counted in a day
    MaxQueries               \* bound on the objects queries have under way

ASSUME GuildAssumption ==
    /\ IsFiniteSet(Player)
    /\ {NoRecord, Out, Zero} \cap Guild = {}
    /\ NoRecord # Out
    /\ MaxLevel \in Nat \ {0}
    /\ MaxMemberSize \in [1..MaxLevel -> Nat \ {0}]
    /\ \A l \in 1..MaxLevel : l < MaxLevel => MaxMemberSize[l] <= MaxMemberSize[l + 1]
    /\ RightLevel2MemberSize \in [1..MaxLevel -> Int]
    /\ RightLevel1MemberSize \in [1..MaxLevel -> Int]
    /\ MaxCanReqSize \in Nat
    /\ EnterGuildCD \in Nat
    /\ MaxCharges \in Nat
    /\ MaxQueries \in Nat

VARIABLES
    cached,        \* CacheGuild.allGuildByID: the guilds that can be found by id
    status,        \* GuildVO.status, "UNBORN" before the guild is created
    owner,         \* GuildVO.owner
    rights,        \* GuildVO.memberRights, NotIn where the map has no entry
    needReq,       \* GuildVO.enterNeedReq
    level,         \* GuildVO.level
    noReq,         \* CacheGuild.NoReqGuild
    inDissolution, \* CacheGuild.inDissolutionGuild
    memberGuild,   \* CacheGuild.allGuildMemberByPID: GuildMemberVO.guildID
    cooling,       \* players whose nextEnterGuildTime lies in the future
    donated,       \* players whose GuildMemberVO.donateCid is positive
    req,           \* CacheGuild.allReqsCache: status of the request of a player
    inCache,       \* players CachePlayer.getPlayerByPid finds
    pGuild,        \* PlayerVO.guildID of the players in memory
    built,         \* players built for a query and not yet cached, with guildID
    overtaken,     \* history: players cached by a query whose guildID was old
    everOwner,     \* history: players that have been owner of some guild
    charges        \* history: donations charged to a player since the reset

guildVars  == <<cached, status, owner, rights, needReq, level, noReq, inDissolution>>
memberVars == <<memberGuild, cooling, donated, req>>
cacheVars  == <<inCache, built, overtaken>>
playerVars == <<cacheVars, pGuild>>
history    == <<everOwner, charges>>
vars       == <<guildVars, memberVars, playerVars, history>>

----------------------------------------------------------------------------
(* RightLevel: the ids are compared as numbers by the handlers.            *)

NotIn  == 0
Level3 == 101
Level2 == 102
Level1 == 103
Level0 == 104
RightLevels == {Level3, Level2, Level1, Level0}

\* Mutant: Level0 built without its exclude list.
HaveRight_Level0MayLeave(r, right) ==
    CASE right \in {"DONATE", "OUT_GUILD"}        -> r \in RightLevels
      [] right = "APPROVAL"                       -> r \in {Level2, Level1, Level0}
      [] right \in {"MODIFY_RIGHT", "DISMISS"}    -> r \in {Level1, Level0}
      [] right \in {"CHG_OWNER", "DISSOLUTION"}   -> r = Level0

\* RightLevel.haveRight for the rights the state-changing handlers ask for.
HaveRight(r, right) ==
    CASE right = "DONATE"       -> r \in RightLevels
      [] right = "OUT_GUILD"    -> r \in {Level3, Level2, Level1}
      [] right = "APPROVAL"     -> r \in {Level2, Level1, Level0}
      [] right = "MODIFY_RIGHT" -> r \in {Level1, Level0}
      [] right = "DISMISS"      -> r \in {Level1, Level0}
      [] right = "CHG_OWNER"    -> r = Level0
      [] right = "DISSOLUTION"  -> r = Level0

ReqStatus == {"none", "NORMAL", "ACCEPT", "REFUSE", "DONE"}
ReqKey    == Guild \cup {Zero}
NoReqs    == [k \in ReqKey |-> "none"]

MemberSize(seats)      == Cardinality({p \in Player : seats[p] # NotIn})

\* Mutant: off by one.
IsMaxSize_OneMore(seats, lv) == MemberSize(seats) > MaxMemberSize[lv]

IsMaxSize(seats, lv)   == MemberSize(seats) >= MaxMemberSize[lv]
GuildReqedSize(g)      == Cardinality({p \in Player : req[p][g] # "none"})
RightSize(g, r)        == Cardinality({p \in Player : rights[g][p] = r})
NotInGuild(p)          == memberGuild[p] \in {NoRecord, Out}

\* Mutant: the check of the guild the player is in is missing.
AlreadyInGuild_Unchecked(p) == FALSE

\* The guild the record of p names can still be found.
AlreadyInGuild(p) == memberGuild[p] \in cached

\* CacheGuild.NoReqGuild after refNoNeedReqGuilds(g) looked at these seats.
RefNoNeedReqGuilds(g, need, seats, lv) ==
    IF need THEN noReq
    ELSE IF IsMaxSize(seats, lv) THEN noReq \ {g} ELSE noReq \cup {g}

----------------------------------------------------------------------------
Init ==
    /\ cached = {} /\ noReq = {} /\ inDissolution = {}
    /\ status = [g \in Guild |-> "UNBORN"]
    /\ owner = [g \in Guild |-> NoRecord]
    /\ rights = [g \in Guild |-> [p \in Player |-> NotIn]]
    /\ needReq = [g \in Guild |-> FALSE]
    /\ level = [g \in Guild |-> 1]
    /\ memberGuild = [p \in Player |-> NoRecord]
    /\ cooling = {} /\ donated = {}
    /\ req = [p \in Player |-> NoReqs]
    /\ inCache = Player
    /\ pGuild = [p \in Player |-> Out]
    /\ built = {} /\ overtaken = {}
    /\ everOwner = {}
    /\ charges = [p \in Player |-> 0]

\* getGuildVOAndCheckRight: g is the guild the record of p names, it is
\* cached, and the level p has there includes the right.
MayAct(p, g, right) ==
    /\ p \in inCache
    /\ memberGuild[p] = g
    /\ g \in cached
    /\ HaveRight(rights[g][p], right)

\* Mutant: the requests of the player are not dropped.
DirectJoinGuild_KeepsRequests(p, g, r) ==
    IF AlreadyInGuild(p)
    THEN UNCHANGED <<memberGuild, pGuild, req, rights>>
    ELSE /\ memberGuild' = [memberGuild EXCEPT ![p] = g]
         /\ pGuild' = IF p \in inCache THEN [pGuild EXCEPT ![p] = g] ELSE pGuild
         /\ rights' = [rights EXCEPT ![g][p] = r]
         /\ UNCHANGED req

\* Mutant: PlayerVO.guildID is not set.
DirectJoinGuild_ForgetsPlayer(p, g, r) ==
    IF AlreadyInGuild(p)
    THEN UNCHANGED <<memberGuild, pGuild, req, rights>>
    ELSE /\ memberGuild' = [memberGuild EXCEPT ![p] = g]
         /\ req' = [req EXCEPT ![p] = NoReqs]
         /\ rights' = [rights EXCEPT ![g][p] = r]
         /\ UNCHANGED pGuild

\* directJoinGuild: nothing when the record names a cached guild, otherwise
\* seat p at level r and drop every request p has made anywhere.
DirectJoinGuild(p, g, r) ==
    IF AlreadyInGuild(p)
    THEN UNCHANGED <<memberGuild, pGuild, req, rights>>
    ELSE /\ memberGuild' = [memberGuild EXCEPT ![p] = g]
         /\ pGuild' = IF p \in inCache THEN [pGuild EXCEPT ![p] = g] ELSE pGuild
         /\ req' = [req EXCEPT ![p] = NoReqs]
         /\ rights' = [rights EXCEPT ![g][p] = r]

CreateGuild(p, g, need) ==
    /\ p \in inCache
    /\ ~AlreadyInGuild(p)
    /\ status[g] = "UNBORN"
    /\ status' = [status EXCEPT ![g] = "NORMAL"]
    /\ owner' = [owner EXCEPT ![g] = p]
    /\ needReq' = [needReq EXCEPT ![g] = need]
    /\ DirectJoinGuild(p, g, Level0)
    /\ cached' = cached \cup {g}
    /\ noReq' = RefNoNeedReqGuilds(g, need, rights'[g], level[g])
    /\ everOwner' = everOwner \cup {p}
    /\ UNCHANGED <<level, inDissolution, cooling, donated, cacheVars, charges>>

\* joinGuild(guildID): id is the parameter, g the guild it resolves to.  A
\* guild that admits on request files the request under the parameter.
JoinGuild(p, id, g) ==
    /\ p \in inCache
    /\ IF id = Zero THEN g \in noReq ELSE id = g /\ g \in cached
    /\ ~AlreadyInGuild(p)
    /\ p \notin cooling
    /\ status[g] = "NORMAL"
    /\ ~IsMaxSize(rights[g], level[g])
    /\ IF needReq[g]
       THEN /\ GuildReqedSize(g) < MaxCanReqSize
            /\ req' = [req EXCEPT ![p][id] = "NORMAL"]
            /\ UNCHANGED <<memberGuild, pGuild, rights, noReq>>
       ELSE /\ DirectJoinGuild(p, g, Level3)
            /\ noReq' = RefNoNeedReqGuilds(g, FALSE, rights'[g], level[g])
    /\ UNCHANGED <<cached, status, owner, needReq, level, inDissolution,
                   cooling, donated, cacheVars, history>>

\* acceptPlayerJoinGuild(pid, true).  The handler never re-evaluates
\* NoReqGuild, and fails after the state change when q is not in memory.
AcceptJoin(p, q, g) ==
    /\ MayAct(p, g, "APPROVAL")
    /\ req[q][g] # "none"
    /\ ~IsMaxSize(rights[g], level[g])
    /\ IF NotInGuild(q) /\ req[q][g] = "NORMAL"
       THEN DirectJoinGuild(q, g, Level3)
       ELSE /\ req' = [req EXCEPT ![q][g] = "none"]
            /\ UNCHANGED <<memberGuild, pGuild, rights>>
    /\ UNCHANGED <<cached, status, owner, needReq, level, noReq, inDissolution,
                   cooling, donated, cacheVars, history>>

\* acceptPlayerJoinGuild(pid, false) with dealGuildReqVO.
RefuseJoin(p, q, g) ==
    /\ MayAct(p, g, "APPROVAL")
    /\ req[q][g] = "NORMAL"
    /\ req' = [req EXCEPT ![q][g] = "none"]
    /\ UNCHANGED <<guildVars, memberGuild, cooling, donated, playerVars, history>>

NotAllJoinReq(p, g) ==
    /\ MayAct(p, g, "APPROVAL")
    /\ \E q \in Player : req[q][g] = "NORMAL"
    /\ req' = [q \in Player |-> IF req[q][g] = "NORMAL"
                                THEN [req[q] EXCEPT ![g] = "none"] ELSE req[q]]
    /\ UNCHANGED <<guildVars, memberGuild, cooling, donated, playerVars, history>>

\* Mutant: the guild stays in NoReqGuild.
ModifyNeedReqStatus_KeepsListed(p, g, need) ==
    /\ MayAct(p, g, "APPROVAL")
    /\ needReq' = [needReq EXCEPT ![g] = need]
    /\ UNCHANGED <<cached, status, owner, rights, level, noReq, inDissolution,
                   memberVars, playerVars, history>>

ModifyNeedReqStatus(p, g, need) ==
    /\ MayAct(p, g, "APPROVAL")
    /\ needReq' = [needReq EXCEPT ![g] = need]
    /\ noReq' = IF need THEN noReq \ {g} ELSE noReq
    /\ UNCHANGED <<cached, status, owner, rights, level, inDissolution,
                   memberVars, playerVars, history>>

\* The seats a level admits; a size of zero or less switches the limit off.
RightLevelHasRoom(g, r) ==
    LET size == CASE r = Level2 -> RightLevel2MemberSize[level[g]]
                  [] r = Level1 -> RightLevel1MemberSize[level[g]]
                  [] OTHER      -> -1
    IN  size > 0 => RightSize(g, r) < size

\* modifyRight(pid, right): the level asked for, not the level q has, is
\* compared with the level of p.
ModifyRight(p, q, g, r) ==
    /\ MayAct(p, g, "MODIFY_RIGHT")
    /\ rights[g][q] # NotIn
    /\ r < rights[g][p]
    /\ RightLevelHasRoom(g, r)
    /\ rights' = [rights EXCEPT ![g][q] = r]
    /\ UNCHANGED <<cached, status, owner, needReq, level, noReq, inDissolution,
                   memberVars, playerVars, history>>

\* Mutant: the seat in memberRights is not given up.
OutGuild_KeepsSeat(p, q, g) ==
    /\ IF p = q THEN MayAct(p, g, "OUT_GUILD")
       ELSE MayAct(p, g, "DISMISS") /\ rights[g][q] # NotIn /\ rights[g][q] < rights[g][p]
    /\ memberGuild' = [memberGuild EXCEPT ![q] = IF @ = NoRecord THEN @ ELSE Out]
    /\ cooling' = cooling \cup {q}
    /\ pGuild' = [pGuild EXCEPT ![q] = Out]
    /\ UNCHANGED <<guildVars, donated, req, cacheVars, history>>

\* outGuild(pid): p leaves (q = p) or dismisses q.  The record of q is reset
\* whatever guild it names.
OutGuild(p, q, g) ==
    /\ IF p = q THEN MayAct(p, g, "OUT_GUILD")
       ELSE /\ MayAct(p, g, "DISMISS")
            /\ rights[g][q] # NotIn
            /\ rights[g][q] < rights[g][p]
    /\ rights' = [rights EXCEPT ![g][q] = NotIn]
    /\ IF memberGuild[q] = NoRecord
       THEN UNCHANGED <<memberGuild, cooling, pGuild>>
       ELSE /\ memberGuild' = [memberGuild EXCEPT ![q] = Out]
            /\ cooling' = IF EnterGuildCD > 0 THEN cooling \cup {q} ELSE cooling
            /\ pGuild' = IF q \in inCache THEN [pGuild EXCEPT ![q] = Out] ELSE pGuild
    /\ noReq' = RefNoNeedReqGuilds(g, needReq[g], rights'[g], level[g])
    /\ UNCHANGED <<cached, status, owner, needReq, level, inDissolution,
                   donated, req, cacheVars, history>>

\* Mutant: the old owner keeps its level.
ChgOwner_NoDemotion(p, q, g) ==
    /\ MayAct(p, g, "CHG_OWNER")
    /\ rights[g][q] # NotIn
    /\ rights' = [rights EXCEPT ![g][q] = Level0]
    /\ owner' = [owner EXCEPT ![g] = q]
    /\ everOwner' = everOwner \cup {q}
    /\ UNCHANGED <<cached, status, needReq, level, noReq, inDissolution,
                   memberVars, playerVars, charges>>

\* chgOwner(pid): the new owner is promoted first, the old one demoted last.
ChgOwner(p, q, g) ==
    /\ MayAct(p, g, "CHG_OWNER")
    /\ rights[g][q] # NotIn
    /\ rights' = [rights EXCEPT ![g] = [@ EXCEPT ![q] = Level0, ![p] = Level1]]
    /\ owner' = [owner EXCEPT ![g] = q]
    /\ everOwner' = everOwner \cup {q}
    /\ UNCHANGED <<cached, status, needReq, level, noReq, inDissolution,
                   memberVars, playerVars, charges>>

\* Mutant: the guild is not put on the list HalfHourJob works from.
DissolutionGuild_NotListed(p, g) ==
    /\ MayAct(p, g, "DISSOLUTION")
    /\ status[g] = "NORMAL"
    /\ status' = [status EXCEPT ![g] = "IN_DISSOLUTION"]
    /\ UNCHANGED <<cached, owner, rights, needReq, level, noReq, inDissolution,
                   memberVars, playerVars, history>>

DissolutionGuild(p, g) ==
    /\ MayAct(p, g, "DISSOLUTION")
    /\ status[g] = "NORMAL"
    /\ status' = [status EXCEPT ![g] = "IN_DISSOLUTION"]
    /\ inDissolution' = inDissolution \cup {g}
    /\ UNCHANGED <<cached, owner, rights, needReq, level, noReq,
                   memberVars, playerVars, history>>

\* Mutant: the guild stays on the list.
CancelDissolutionGuild_KeepsListed(p, g) ==
    /\ MayAct(p, g, "DISSOLUTION")
    /\ status[g] = "IN_DISSOLUTION"
    /\ status' = [status EXCEPT ![g] = "NORMAL"]
    /\ UNCHANGED <<cached, owner, rights, needReq, level, noReq, inDissolution,
                   memberVars, playerVars, history>>

CancelDissolutionGuild(p, g) ==
    /\ MayAct(p, g, "DISSOLUTION")
    /\ status[g] = "IN_DISSOLUTION"
    /\ status' = [status EXCEPT ![g] = "NORMAL"]
    /\ inDissolution' = inDissolution \ {g}
    /\ UNCHANGED <<cached, owner, rights, needReq, level, noReq,
                   memberVars, playerVars, history>>

\* Mutant: only members in memory are released, the others at their next login.
RecordsAfterDissolution_LoadedOnly(seated) ==
    [p \in Player |-> IF p \in seated \cap inCache THEN Out ELSE memberGuild[p]]

\* GuildMemberVO.guildID after innerDissolutionGuild went through the seats.
RecordsAfterDissolution(seated) ==
    [p \in Player |-> IF p \in seated /\ memberGuild[p] # NoRecord THEN Out ELSE memberGuild[p]]

\* checkInDissolutionGuild and innerDissolutionGuild: due are the guilds whose
\* dissolutionTime has passed.  NoReqGuild keeps them.
CheckInDissolutionGuild(due) ==
    LET seated == {p \in Player : \E g \in due : rights[g][p] # NotIn}
    IN  /\ \A g \in due : status[g] = "IN_DISSOLUTION"
        /\ status' = [g \in Guild |-> IF g \in due THEN "DISSOLUTION_END" ELSE status[g]]
        /\ memberGuild' = RecordsAfterDissolution(seated)
        /\ pGuild' = [p \in Player |-> IF p \in seated \cap inCache THEN Out ELSE pGuild[p]]
        /\ inDissolution' = inDissolution \ due
        /\ cached' = cached \ due

\* clearGuildReq drops the requests whose createDate lies more than an hour
\* ahead.  The persistence library dates an object when it is made, so there
\* are none (nor any without a date).
CreatedInAnHour(p, k) == FALSE

\* allReqsCache after clearGuildReq.
ClearGuildReq ==
    [p \in Player |-> [k \in ReqKey |-> IF CreatedInAnHour(p, k) THEN "none" ELSE req[p][k]]]

HalfHourJob(due) ==
    /\ req' = ClearGuildReq
    /\ CheckInDissolutionGuild(due)
    /\ UNCHANGED <<owner, rights, needReq, level, noReq, cooling, donated, cacheVars, history>>

\* Mutant: no level limit.
Donate_NoLevelLimit(p, g) ==
    /\ MayAct(p, g, "DONATE")
    /\ p \notin donated
    /\ charges[p] < MaxCharges
    /\ charges' = [charges EXCEPT ![p] = @ + 1]
    /\ \E l \in {level[g], level[g] + 1} : level' = [level EXCEPT ![g] = l]
    /\ donated' = donated \cup {p}
    /\ UNCHANGED <<cached, status, owner, rights, needReq, noReq, inDissolution,
                   memberGuild, cooling, req, playerVars, everOwner>>

\* Mutant: donateCid is not recorded.
Donate_NotRecorded(p, g) ==
    /\ MayAct(p, g, "DONATE")
    /\ p \notin donated
    /\ charges[p] < MaxCharges
    /\ level[g] < MaxLevel
    /\ charges' = [charges EXCEPT ![p] = @ + 1]
    /\ \E l \in {level[g], level[g] + 1} : level' = [level EXCEPT ![g] = l]
    /\ UNCHANGED <<cached, status, owner, rights, needReq, noReq, inDissolution,
                   memberVars, playerVars, everOwner>>

\* donate with addGuildExp and checkGuildLevelUp: exp may or may not reach the
\* next level.  At the last level LevelLimit is thrown after the cost is paid.
Donate(p, g) ==
    /\ MayAct(p, g, "DONATE")
    /\ p \notin donated
    /\ charges[p] < MaxCharges
    /\ charges' = [charges EXCEPT ![p] = @ + 1]
    /\ IF level[g] = MaxLevel
       THEN UNCHANGED <<level, donated>>
       ELSE /\ \E l \in {level[g], level[g] + 1} : level' = [level EXCEPT ![g] = l]
            /\ donated' = donated \cup {p}
    /\ UNCHANGED <<cached, status, owner, rights, needReq, noReq, inDissolution,
                   memberGuild, cooling, req, playerVars, everOwner>>

\* systemResetGuildData with resetGuildMember: only members with a seat in a
\* cached guild are reset.  The history of charges starts a new day.
SystemResetGuildData ==
    /\ donated' = {p \in donated : \A g \in cached : rights[g][p] = NotIn}
    /\ charges' = [p \in Player |-> 0]

\* replaceGuildLeader over every cached guild.  active are the players whose
\* last login is recent enough; among the seated active players the one with
\* the largest contribution (any of them) becomes newOwner[g].
Heirs(g, active)    == {p \in active : rights[g][p] # NotIn /\ memberGuild[p] # NoRecord}
Replaced(g, active) == g \in cached /\ owner[g] \notin active /\ Heirs(g, active) # {}

ReplaceGuildLeader(active, newOwner) ==
    /\ \A g \in Guild : newOwner[g] \in IF Replaced(g, active) THEN Heirs(g, active) ELSE {owner[g]}
    /\ rights' = [g \in Guild |->
            IF Replaced(g, active)
            THEN [rights[g] EXCEPT ![newOwner[g]] = Level0, ![owner[g]] = Level1]
            ELSE rights[g]]
    /\ owner' = newOwner
    /\ everOwner' = everOwner \cup {newOwner[g] : g \in {h \in Guild : Replaced(h, active)}}

\* The reset comes first: it sees the seats from before the replacement.
DayOffset4Job(active, newOwner) ==
    /\ ReplaceGuildLeader(active, newOwner)
    /\ SystemResetGuildData
    /\ UNCHANGED <<cached, status, needReq, level, noReq, inDissolution,
                   memberGuild, cooling, req, playerVars>>

\* nextEnterGuildTime passes.
CoolDown(p) ==
    /\ p \in cooling
    /\ cooling' = cooling \ {p}
    /\ UNCHANGED <<guildVars, memberGuild, donated, req, playerVars, history>>

\* CachePlayer drops a player that was not used for two hours; its PlayerVO,
\* guildID included, is gone.
Evict(p) ==
    /\ p \in inCache
    /\ inCache' = inCache \ {p}
    /\ pGuild' = [pGuild EXCEPT ![p] = Out]
    /\ overtaken' = overtaken \ {p}
    /\ UNCHANGED <<guildVars, memberVars, built, history>>

\* The guild the record of p names, Out if it names none.
GuildIDOf(p) == IF NotInGuild(p) THEN Out ELSE memberGuild[p]

\* An accepted request of a player in no guild is honoured when the player is
\* built, but that join fails at its end, the player not being in memory yet.
AcceptedBy(p) ==
    IF NotInGuild(p)
    THEN {g \in cached : req[p][g] = "ACCEPT" /\ ~IsMaxSize(rights[g], level[g])} ELSE {}

\* buildAsLoad.  A request of an outsider to a guild that is gone dereferences
\* null and the load fails; a member drops its requests, and the seat it
\* believes to have is checked again.
BuildAsLoad(p) ==
    /\ IF NotInGuild(p)
       THEN /\ \A k \in ReqKey : req[p][k] # "none" => k \in cached
            /\ UNCHANGED <<memberGuild, req>>
       ELSE /\ req' = [req EXCEPT ![p] = NoReqs]
            /\ memberGuild' = IF memberGuild[p] \in cached /\ rights[memberGuild[p]][p] # NotIn
                              THEN memberGuild ELSE [memberGuild EXCEPT ![p] = Out]
    /\ UNCHANGED rights

\* The player is loaded on the GAME thread, to enter or for somebody else
\* (loadSuc, FriendsBOImpl.fight): built and cached in one task.
Load(p) ==
    /\ p \notin inCache
    /\ IF AcceptedBy(p) # {}
       THEN (\E g \in AcceptedBy(p) : DirectJoinGuild(p, g, Level3)) /\ UNCHANGED cacheVars
       ELSE /\ BuildAsLoad(p)
            /\ inCache' = inCache \cup {p}
            /\ pGuild' = [pGuild EXCEPT ![p] = GuildIDOf(p)']
            /\ overtaken' = overtaken \ {p}
            /\ UNCHANGED built
    /\ UNCHANGED <<cached, status, owner, needReq, level, noReq, inDissolution,
                   cooling, donated, history>>

\* queryPlayerByPID: the database thread finds the player not cached and
\* builds it ...
QueryBuilds(p) ==
    /\ p \notin inCache
    /\ Cardinality(built) < MaxQueries
    /\ IF AcceptedBy(p) # {}
       THEN (\E g \in AcceptedBy(p) : DirectJoinGuild(p, g, Level3)) /\ UNCHANGED cacheVars
       ELSE /\ BuildAsLoad(p)
            /\ built' = built \cup {<<p, GuildIDOf(p)'>>}
            /\ UNCHANGED <<inCache, overtaken, pGuild>>
    /\ UNCHANGED <<cached, status, owner, needReq, level, noReq, inDissolution,
                   cooling, donated, history>>

\* ... and puts it into the cache, whatever has happened to its record and
\* whoever is cached by now.
QueryLoaded(p, g) ==
    /\ <<p, g>> \in built
    /\ built' = built \ {<<p, g>>}
    /\ inCache' = inCache \cup {p}
    /\ pGuild' = [pGuild EXCEPT ![p] = g]
    /\ overtaken' = IF g = GuildIDOf(p) THEN overtaken \ {p} ELSE overtaken \cup {p}
    /\ UNCHANGED <<guildVars, memberVars, history>>

\* GuildEvtListener on EnterGame: record and player are put right.
EnterGame(p) ==
    /\ p \in inCache
    /\ memberGuild' = IF memberGuild[p] \in Guild /\ (memberGuild[p] \notin cached
                                                      \/ rights[memberGuild[p]][p] = NotIn)
                      THEN [memberGuild EXCEPT ![p] = Out] ELSE memberGuild
    /\ pGuild' = [pGuild EXCEPT ![p] = GuildIDOf(p)']
    /\ overtaken' = overtaken \ {p}
    /\ UNCHANGED <<guildVars, cooling, donated, req, inCache, built, history>>

----------------------------------------------------------------------------
ClientRequest(p, g) ==
    \/ \E need \in BOOLEAN : CreateGuild(p, g, need)
    \/ \E id \in {g, Zero} : JoinGuild(p, id, g)
    \/ \E need \in BOOLEAN : ModifyNeedReqStatus(p, g, need)
    \/ NotAllJoinReq(p, g)
    \/ DissolutionGuild(p, g)
    \/ CancelDissolutionGuild(p, g)
    \/ Donate(p, g)

ClientRequestOn(p, q, g) ==
    \/ AcceptJoin(p, q, g)
    \/ RefuseJoin(p, q, g)
    \/ \E r \in {Level3, Level2, Level1} : ModifyRight(p, q, g, r)
    \/ OutGuild(p, q, g)
    \/ ChgOwner(p, q, g)

Timers ==
    \/ \E due \in SUBSET inDissolution : HalfHourJob(due)
    \/ \E active \in SUBSET Player, newOwner \in [Guild -> Player \cup {NoRecord}] :
            DayOffset4Job(active, newOwner)

PlayerLifecycle(p) ==
    \/ CoolDown(p) \/ Evict(p) \/ Load(p) \/ EnterGame(p) \/ QueryBuilds(p)
    \/ \E g \in Guild \cup {Out} : QueryLoaded(p, g)

Next ==
    \/ \E p \in Player, g \in Guild : ClientRequest(p, g)
    \/ \E p, q \in Player, g \in Guild : ClientRequestOn(p, q, g)
    \/ Timers
    \/ \E p \in Player : PlayerLifecycle(p)

Spec == Init /\ [][Next]_vars

\* HalfHourJob keeps running, and a dissolution time set by dissolutionGuild
\* is eventually in the past.
FairSpec ==
    /\ Spec
    /\ \A g \in Guild : WF_vars(\E due \in SUBSET inDissolution : g \in due /\ HalfHourJob(due))

----------------------------------------------------------------------------
(* Properties                                                              *)

GuildStatus == {"UNBORN", "NORMAL", "IN_DISSOLUTION", "DISSOLUTION_END"}

\* Every cache, value object and history variable has the shape the code
\* gives it; in particular a guild never passes the last level of GuildLVCfg.
TypeOK ==
    /\ cached \subseteq Guild
    /\ status \in [Guild -> GuildStatus]
    /\ owner \in [Guild -> Player \cup {NoRecord}]
    /\ rights \in [Guild -> [Player -> RightLevels \cup {NotIn}]]
    /\ needReq \in [Guild -> BOOLEAN]
    /\ level \in [Guild -> 1..MaxLevel]
    /\ noReq \subseteq Guild
    /\ inDissolution \subseteq Guild
    /\ memberGuild \in [Player -> Guild \cup {NoRecord, Out}]
    /\ cooling \subseteq Player
    /\ donated \subseteq Player
    /\ req \in [Player -> [ReqKey -> ReqStatus]]
    /\ inCache \subseteq Player
    /\ pGuild \in [Player -> Guild \cup {Out}]
    /\ built \subseteq Player \X (Guild \cup {Out})
    /\ overtaken \subseteq Player
    /\ everOwner \subseteq Player
    /\ charges \in [Player -> Nat]

\* A GuildMemberVO never names a guild that was dissolved or that has no seat
\* for the player, whichever of createGuild, joinGuild, acceptPlayerJoinGuild,
\* outGuild and the half-hour dissolution ran before: the repairs in
\* buildAsLoad and GuildEvtListener are never needed while the server runs.
RecordHasSeat ==
    \A p \in Player : memberGuild[p] \in Guild =>
        memberGuild[p] \in cached /\ rights[memberGuild[p]][p] # NotIn

\* A seat in a guild that the record of the player does not name (it counts as
\* a member, its player may join elsewhere) can only belong to a player who
\* once was an owner: replaceGuildLeader re-seats an owner who left.
OnlyExOwnersHaveStraySeats ==
    \A g \in cached, p \in Player :
        rights[g][p] # NotIn /\ memberGuild[p] # g => p \in everOwner

\* The players whose record names a guild never exceed MaxMemberSize of its
\* level, although joinGuild and acceptPlayerJoinGuild check and join
\* separately and replaceGuildLeader seats an owner without any check.
MemberLimit ==
    \A g \in cached :
        Cardinality({p \in Player : memberGuild[p] = g}) <= MaxMemberSize[level[g]]

\* A player in a guild has no request left in allReqsCache, so an officer of
\* another guild can never accept a request of a player who has joined.
MembersHaveNoRequests ==
    \A p \in Player : memberGuild[p] \in Guild => req[p] = NoReqs

\* Every request in allReqsCache is undecided and filed under a real guild id:
\* acceptPlayerJoinGuild leaves no accepted request behind (the ACCEPT branch
\* of buildAsLoad is dead), and a quick join (guildID 0) never files one.
RequestsAreGenuine ==
    \A p \in Player : req[p][Zero] = "none" /\ \A g \in Guild : req[p][g] \in {"none", "NORMAL"}

\* NoReqGuild, from which joinGuild(0) picks at random, holds no guild that
\* admits on request only.
QuickJoinNeedsNoRequest == \A g \in noReq : ~needReq[g]

\* inDissolutionGuild, the only place HalfHourJob looks for guilds to dissolve,
\* holds exactly the guilds being dissolved, and allGuildByID holds exactly
\* the guilds that exist.
DissolutionListed ==
    /\ inDissolution = {g \in Guild : status[g] = "IN_DISSOLUTION"}
    /\ cached = {g \in Guild : status[g] \in {"NORMAL", "IN_DISSOLUTION"}}

\* PlayerVO.guildID of a player in memory agrees with GuildMemberVO.guildID,
\* also when the member was dismissed, accepted or dissolved by others, however
\* loads, queries and evictions of the player interleave with that.  The one
\* exception: an object built for a query (PlayerBOImpl.queryPlayerByPID) that
\* reaches the cache after the record has changed, until the player enters the
\* game or is loaded anew.
PlayerAgreesWithRecord ==
    \A p \in inCache \ overtaken : pGuild[p] = GuildIDOf(p)

\* Only the owner of a guild can hold Level0, the level that may dissolve and
\* hand over the guild: chgOwner and replaceGuildLeader never leave two.
SoleLeader ==
    \A g \in cached, p \in Player : rights[g][p] = Level0 => owner[g] = p

\* A player is charged twice for the daily donation only where donate fails
\* after the payment: in a guild at the last level.
DoubleChargeOnlyAtLastLevel ==
    \A p \in Player : charges[p] > 1 => \E g \in Guild : level[g] = MaxLevel

\* No step moves a record from one guild straight into another: a player
\* leaves, is dismissed or loses the guild before joining the next one.
NoGuildHopping ==
    [][\A p \in Player : memberGuild[p] \in Guild /\ memberGuild'[p] \in Guild
                             => memberGuild'[p] = memberGuild[p]]_vars

\* The holder of Level0 loses its seat only with the guild: it can neither
\* leave (RightLevel.Level0 excludes OUT_GUILD) nor be dismissed.
LeaderKeepsSeat ==
    [][\A g \in cached, p \in Player : rights[g][p] = Level0 => rights'[g][p] # NotIn]_vars

\* A guild whose dissolution was requested is dissolved by HalfHourJob unless
\* the dissolution is cancelled.
DissolutionCompletes ==
    \A g \in Guild : status[g] = "IN_DISSOLUTION" ~> status[g] # "IN_DISSOLUTION"

----------------------------------------------------------------------------
(* What comments of the code say and the code does not do.                 *)

\* modifyRight, "cannot operate on someone with a larger right than oneself":
\* the step never changes the level of a member above the acting player.
NoOperationOnSuperiors ==
    [][\A p, q \in Player, g \in Guild, r \in RightLevels :
            ModifyRight(p, q, g, r) => rights[g][q] <= rights[g][p]]_vars
=============================================================================
