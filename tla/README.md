# A verification project for the SRGP game server

This directory holds TLA+ models of parts of the SRGP server, the TLC configurations that check
them and TLAPS proofs about them. Paths below are relative to `src/`; `G/` stands for
`game_server/src/main/java/com/cellsgame/game/` and
`GW/` for `game_gateway/src/main/java/com/cellsgame/gateway/`.

Contents: 1 the system, 2 the plan, 3 the guild model, 4 the gateway model, 5 the message pool, 6 coming
online, 7 friends, 8 runs, 9 proofs, 10 what is only model-checked, 11 what is not modelled.

## 1. The system

The repository is a family of JVM programs (Java, a little Kotlin) and the web consoles around them
(vendored JavaScript, not part of the logic).

| Component | Where | State | Operations and interactions |
|---|---|---|---|
| Threads and dispatch | `G/core/dispatch`, `G/core/GameHandler.java`, `G/core/msgproc` | one disruptor each for GAME, HTTP, LOG, NOTIFY; GAME has a single consumer | a client message is validated on the netty thread of its gateway connection and published to GAME; timers, database callbacks and cache evictions publish Runnables to the same queue |
| Sessions | `G/context`, `G/core/socket`, `G/module/ConnectionListener.java` | SessionController per client channel, MessageController per session with a pool of unacknowledged server messages, dead sessions of a lost gateway connection | open, close, message, rebind, resend, destroy |
| Player life cycle | `G/module/player` | CachePlayer (two-hour cache, online set, token map), CachePlayerPI (30-minute heartbeat cache) | verify sign (HTTP), enter game, load (database thread), reconnect, replace login, heartbeat, offline, eviction |
| Guild | `G/module/guild` | CacheGuild: guilds, member records, requests, the quick-join list, the dissolution list | see section 3 |
| Timers | `G/quartz` | none | second, minute, half-hour and 4 a.m. jobs; they publish to GAME |
| Friends | `G/module/friend` | friend, request and black lists of two players, blessings | apply, accept, remove, black, bless, daily reset |
| Mail | `G/module/mail` | mails of a player, global mails | send, read, take attachments, expire |
| Payment | `G/module/pay`, `game_cells/cell/payment`, `game_cells/cell/deliver` | orders with a state and a prized flag | order, pay callback, deliver, reward on load |
| Goods, depot, functions | `G/module/goods`, `G/module/depot`, `G/module/func` | currencies and item stacks | FuncsExecutor checks and then executes a list of costs and prizes |
| Heroes, cards, skills, fight | `G/module/{hero,card,skill,fight}` | heroes, formations, battle state | level up, draw, equip; the battle is a pure turn computation with A* movement |
| Quests, activities, statistics | `G/module/{quest,activity,stats}` | progress records, activity periods | event listeners on GameEvent |
| Shops, stores | `G/module/{shop,store}` | goods with per-player and per-server limits | refresh, buy |
| Ranks | `G/module/rank` | sorted rank lists | update on event, daily prize |
| Chat, notices | `G/module/chat` | message lists per channel | send, notify thread |
| Gateway | `game_gateway` | client channels, connector groups to game servers | bind a client to a connection, forward, reconnect |
| Login | `game_cells/cell/login` | accounts, tokens | register, login, verify |
| GM service, manager, timer | `game_gm`, `game_manage` | gift codes, scheduled operations | HTTP back office |
| Shared buffers, designs, tools | `buffer_base`, `game_cells/cell/{design,message}`, `tool`, `doc` | none | byte buffers, helpers, SQL |

What is hard. Game logic is single threaded, so a handler is atomic against other handlers; the
difficulty lies in state that is kept in several places and repaired by hand (guild membership),
in requests decided later by somebody else, in exceptions thrown in the middle of a handler (there
is no rollback), in asynchronous loads and evictions between two handlers, in sessions that die and
come back on another connection, and in jobs that must eventually finish what a handler started.

What makes each component correct:

* *Guild*: a record, a seat and the player's own guild id agree; one leader; member and officer limits;
  no request of somebody who has joined; a dissolution ends; a donation is charged once.
* *Sessions and player life cycle*: one online player object per player; the token map names exactly
  the online players; a closed session eventually takes its player offline and never a newer one; an
  acknowledged client message is not executed twice; a server message is not lost over a reconnect.
* *Friends*: one request between two players, no friend on the black list, every accepted friend in both
  lists, nothing of a flushed list lost by a crash.
* *Payment*: an order paid once is prized once, also over restarts.
* *Depot and functions*: a failed check changes nothing; no negative balances.
* *Gateway*: a client stays on its connection and is rebound when the connection is lost; a session is in
  one place, is not lost or closed while another connection works, and reaches the game logic as one
  opening, messages in order and one closing.

## 2. The plan

1. `Guild` (done): membership, the core of the social system and the part with the most redundant
   state. `MCGuild` instantiates it, `GuildProofs` proves it.
2. `Gateway` (done): connector groups, binding, loss of connections, session tables and dead sessions,
   with the abstract specification `SessionLife` that it implements. `MCGateway`, `GatewayProofs`.
3. `MessagePool` (done): the pool of unacknowledged messages of a MessageController over lost connections
   and reconnections, with the abstract specification `Outbox` it implements. `MCMessagePool`,
   `MessagePoolProofs`.
4. `Login` (done): verification, entering, loading, reconnection, replacement, heartbeat and expiry of one
   player around the GAME queue. `MCLogin`, `LoginProofs`. Its sessions behave as `SessionLife` lets them; together with
   `MessagePool`, which takes the player to stay online, it covers what a MessageController does.
5. `Friends` (done): requests and lists of two players over loading, expiry and restart. `MCFriends`,
   `FriendsProofs`.
6. `Depot`: check-then-execute of FuncsExecutor, as an algorithm checked against a reference.
7. `Guild` extended by what reaches the database (asynchronous saves, restart with `init`).

Theorems: every invariant and action property that a run checks and both refinements are proved (section 9). Worth
proving next are facts about components that are still to be modelled, `Depot` first.

## 3. The guild model (`Guild.tla`)

Code: `G/module/guild/bo/impl/GuildBOImpl.java` with `CacheGuild`, `RightLevel`, the value objects,
`GuildEvtListener` and the jobs `HalfHourJob` and `DayOffset4Job`. Every handler and both jobs run on
the GAME thread, so each is one action, everything it calls included.

| Variable | Code |
|---|---|
| `cached` | keys of `CacheGuild.allGuildByID` |
| `status`, `owner`, `rights`, `needReq`, `level` | fields of `GuildVO`; `rights[g][p]` is `memberRights.get(p)`, `NotIn` when there is no entry |
| `noReq`, `inDissolution` | `CacheGuild.NoReqGuild`, `CacheGuild.inDissolutionGuild` |
| `memberGuild` | `GuildMemberVO.guildID` by player; `NoRecord` without a record, `Out` for -1 |
| `cooling` | `nextEnterGuildTime` in the future |
| `donated` | `donateCid > 0` |
| `req` | `CacheGuild.allReqsCache` (player, guild id) with the status of the request; the key `Zero` is guild id 0, the parameter of a quick join |
| `inCache`, `pGuild` | `CachePlayer.getPlayerByPid` and `PlayerVO.guildID` |
| `built` | objects `queryPlayerByPID` has built on the database thread and not yet put into the cache, with their guild id |
| `overtaken` | history only: players in memory by such an object whose record changed before it was cached |
| `everOwner`, `charges` | history only: who has been an owner, donations charged since the daily reset |

Actions and handlers: `CreateGuild`, `JoinGuild` (both branches), `AcceptJoin` and `RefuseJoin`
(`acceptPlayerJoinGuild`), `NotAllJoinReq`, `ModifyNeedReqStatus`, `ModifyRight`, `OutGuild` (leave and
dismiss), `ChgOwner`, `DissolutionGuild`, `CancelDissolutionGuild`, `Donate`; `HalfHourJob`
(`clearGuildReq`, then `checkInDissolutionGuild`), `DayOffset4Job` (`systemResetGuildData`, then
`replaceGuildLeader`); `Evict`, `Load` (`buildAsLoad` and `addPlayer` in one task of the GAME thread, from
`loadSuc` and `FriendsBOImpl.fight`), `QueryBuilds` and `QueryLoaded` (the same two on the database thread for
`queryPlayerByPID`, with any handler in between), `EnterGame` (`GuildEvtListener`) and `CoolDown` (time passes). A handler that throws before it changed anything is a disabled action. Three handlers
can fail *after* a change, and the model keeps the change: `donate` in a guild at the last level,
`acceptPlayerJoinGuild` for a player who is not in memory, and `buildAsLoad` for a player with an
accepted request. `BuildAsLoad` is disabled where `buildAsLoad` dereferences a missing guild. On the database
thread `buildAsLoad` is one step: races between its statements and a handler are not modelled.

A query that is overtaken leaves a wrong guild id in memory: a player dismissed, accepted or dissolved between
`GuildBOImpl:1124` and `PlayerBOImpl:521` shows the old guild until it enters the game (`GuildEvtListener`) or is
loaded anew. `PlayerAgreesWithRecord` says that this is the only way for the two to disagree.

Nondeterminism stands for data that is not modelled: whether a donation reaches the next level, which
dissolutions are due, and which players have logged in recently enough to keep or inherit a guild (the
heir with the largest contribution is any of them). The persistence library, shipped as a binary, dates
an object when it is made; `clearGuildReq` looks for requests dated more than an hour ahead, so
`CreatedInAnHour` is false and the call clears nothing.

Constants: the tables of `CacheDisGuild` and `GuildLVCfg` by guild level, and `EnterGuildCD`, the hours a
player who left waits before the next join. Assumed: finitely many players,
the marker values differ from guild ids, sizes are positive and do not shrink with the level.
There are two bounds: `MaxCharges` stops the history counter of donations in a day, `MaxQueries` limits the
objects built and not yet cached.

## 4. The gateway model (`Gateway.tla`, `SessionLife.tla`)

Code: on the gateway `GW/ConnectorGroup`, `GW/GameServerConnector`, `GW/message/client/ClientMessageHandler`
and `GW/message/processor/job/ClientMessageProcessorJob`; on the game server `G/core/socket/GameMessageHandler`
and `GameMessageProcessorJob`, with `validate` of `G/context/MessageController`.

| Variable | Code |
|---|---|
| `client`, `sent`, `jobs` | a client connection (not handshaken, open, closed), the number it gave its last message, the jobs `submitJob` put on its I/O thread |
| `bind`, `managed` | `ClientAttachment.bindGameServerConnector`, `ConnectorAttachment.managedSession` |
| `gw` | a connection to the server as the gateway sees it: `idle` (not made), `open` (handshake under way), `grouped`, `lost` (channel inactive, still in the group), `gone`; `refused` if it was lost before the answer |
| `wire` | packets written to a connection and not yet processed by the server |
| `srv` | the connection as the server sees it: `up`, then the closing job working on its `sessions`, then on the `dead` ones |
| `size` | `CONNECTION_SIZE_PER_GATEWAY` |
| `sessions`, `dead` | `ConnectionAttachment.sessions` by connection, the gateway's row of `DEAD_SESSIONS` |
| `pending`, `notifyClose` | local variables of the closing job: the copy it iterates over, its decision |
| `life`, `arrived` | what was handed to `Dispatch`: openings and closings, `lastClientMessageId` |
| `lastLost` | history only: a connection was lost when no other was up |

Granularity. No `MessageProcessor` is configured, so `submitJob` runs every job on the I/O thread of its
connection. What a thread does to its own attachment is invisible to the others, so a step reaches from
one access to shared data (`DEAD_SESSIONS`, the counter, the connector group) to the next. The closing job
is therefore four actions: `ConnectionClosed` (counter and copy), `CloseSession` for each session,
`ClearDeadSession` and `NotifyDeadSession` for each session it cleared. `RunClientJob` is one action: all
it shares is the group, and every retry in its loop reads it again. A connection lost between two retries
is covered by `Distributed`, which may give nothing whenever some connection of the group is not active.

Losses. The two ends learn of a lost connection independently: `ConnectorInactive` and `ConnectorClosed` on
the gateway, `ConnectionClosed` on the server, in any order and any distance; until then the gateway writes
to a connection the server has given up (the packet is lost), and the server reads what is still on the
wire of one the gateway has given up. A reconnect is the handshake of a connection with a new number.
Connections are numbered in the order in which they join the group, which is the order of the list that
`Collections.min` runs over.

Nondeterminism: whether `isActive` of a session holds when a message is processed (the channel may be
down before its closing job runs, and the game logic may have destroyed the session). Session ids come from a
counter and are not reused. One gateway and one game server are modelled: all tables are kept per gateway.

`SessionLife` is what the game logic relies on: per session one opening, then messages with growing
numbers, then one closing. `SeesSessionLives` says that `Gateway` implements it (the mapping is the
identity on `life` and `arrived`).

Bounds: `MaxConn`, connections made in all, and `MaxMsg`, messages of one client. When they are used up and
every client has left nothing is left to do, so these runs do not check deadlock.

## 5. The message pool (`MessagePool.tla`, `Outbox.tla`)

Code: `G/context/MessageController.java` with `SessionController`, `CacheMessageController.reconnection` and
`PlayerBOImpl.reconnection`.

| Variable | Code |
|---|---|
| `link`, `session`, `opened` | the controller's SessionController: its connection, whether that works (`broken`: lost and not yet noticed, `destroyed`: `connection = null`), how many sessions the client has opened |
| `tasks`, `stamp` | the tasks submitted with `Connection.execute`, by connection; the number a task has taken and not yet written back |
| `last`, `pool` | `lastReceivedMessageId` (which counts the messages *sent*), `messagePool` |
| `game` | whether the game thread is between the two halves of `reconnection` |
| `wire`, `received`, `got`, `client` | the client: what is under way, the last number, all numbers, whether it waits for an answer |
| `flaw` | history only, see below |

A send is three steps: `SendMessage` on the game thread submits a task to the I/O thread of the current
connection; `BeginSend` takes the number; `SendMessageImpl` writes it, pools the message and sends it. The
client's messages carry the number it received last (`Validate`), and a task discards the pool up to it
(`DiscardServerMessage`). The two ends lose a connection in `ConnectionLost` and `SessionDestroyed`; the
client goes on over another connection with the same session (`Rebind`) or with a new one (`Reconnection`,
`AnswerReconnection`). A client is taken to acknowledge the number received last and to send nothing on a
new session before its EnterGame is answered; the client is not in the repository.

Three orders of steps lose a numbered message, and `flaw` names the one that happened: `raced` (tasks of the
old and of the new connection are in the controller at once, which nothing prevents), `rebound` (what was on
the lost connection is not sent again, and the next acknowledgement covers it), `late` (the answer to an
earlier EnterGame is sent on a later session and raises the client's last number). Everything else keeps the
promise of `Outbox`: a number is given once, in order, and a message is held until the client has it.
`ImplementsOutbox` maps `sent` to `last`, `held` to the numbers in the pool, `known` to `got` and `excused` to
`flaw # {}`.

Bounds: `MaxId` messages, `MaxSession` sessions, `MaxTasks` tasks waiting on a thread.

## 6. Coming online and going offline (`Login.tla`)

Code: `G/module/player/bo/impl/PlayerBOImpl.java` (verifySign to offline), `CachePlayer`, `CachePlayerPI`,
`CacheMessageController`, `Dispatch`, `ConnectionListener`, and the operator's commands that take players
offline. One player is modelled; players do not share state here.

| Variable | Code |
|---|---|
| `session` | a client's session: `none`, `open`, `suspended` (a dead session of `Gateway`), `dead` (destroyed by a reconnection), `closed` |
| `cache`, `ctls`, `sess` | `CacheMessageController.cache`, controllers created, `MessageController.session` |
| `pid`, `tok`, `dying` | the attributes PLAYER_ID and TOKEN of a controller (SERVER_ID and ACCOUNT_ID are set with TOKEN); controllers whose `destroy` task is submitted |
| `queue`, `jobs` | tasks of the GAME thread; verifications and loads under way |
| `objs`, `cached`, `expired` | PlayerVO objects made, the one in `cacheAllPlayers`, whether its time is up (`getIfPresentNotClear` no longer finds it, the removal listener has not run) |
| `online`, `ctrl`, `otok` | fields of each object |
| `mapped`, `pi` | `tokenMappingPlayer`, the entry of `CachePlayerPI` |
| `querying` | a load of `queryPlayerByPID` has looked into the cache and not yet put its object there |
| `flaw` | history only |

What arrives on a connection (`Open`, `VerifySign`, `EnterGame`, `PI`, `Close`) runs on its thread; verification,
EnterGame, the end of a load, offline, the end of a heartbeat and the removal from the cache are tasks handled
in the order of the queue (`VerifySuc`, `HandleEnter`, `LoadSuc`, `HandleOffline`, `HandleHeartbeat`,
`HandleTimeout`). `QueryMisses` and `QueryLoaded` are the two accesses of a load that, unlike the others, puts
the player into the cache on its own thread. `Expire` and `CleanUp` are the external cache: an entry may expire
at any time, with or without a heartbeat timer, unless the player is just being looked up, loaded or queried, and is
removed by a later clean-up or by being replaced. A load may fail; a player may be FROZEN.

Five orders of steps break the picture, and `flaw` names them: `survived`, `self`, `revived`, `expired` and
`replaced` are explained at the head of the module. The properties say what holds without them, and which of
them a property survives: `TokensFollowPlayers` keeps one half under all of them, `OneClient` needs only
`survived` to be absent, `NoGhost` only `replaced`.

## 7. Friends (`Friends.tla`)

Code: `G/module/friend/bo/impl/FriendsBOImpl.java`, `CacheFriendReq`, `FriendListVO`, `FriendReqVO`,
`ChatBOImpl.privateMsg`.

| Variable | Code |
|---|---|
| `cached`, `online` | `CachePlayer`, and who of it is online |
| `list` | `PlayerVO.friendList`: `f` and `b` are `myFriends` and `blackList`, `row` the row it is saved as (0: not saved yet), `whole` history (it holds every accepted friend) |
| `rows`, `reqs` | what has been saved: the rows of the table of lists by player (a list saved for the first time becomes a new one), and `CacheFriendReq`, with status sent or accepted |
| `dbRows`, `dbReqs` | what the database has of both |
| `built` | lists `queryPlayerByPID` has built on the database thread and not yet put into the cache |
| `overtaken`, `restarts` | history: per player, queries that put a list into the cache when a load would have built another or would have deleted a request; restarts |

Every handler runs on the GAME thread and is one action; a refusal is a disabled one. Handlers that fail half
way keep what they did: `doDeleteFriend` fails when the other player is in memory without a list, which leaves
`AddFriend2BlackList` with a friend removed and nobody black-listed; `privateMsg` always fails, because
`nearCharPlayer.remove(tgtPid)` is the removal by index, and leaves a list that is not saved. An online player is
taken not to expire; what happens then is part of `Login`.

Loads. `Load` builds and caches a player in one task of the GAME thread (`loadSuc`, `fight`). For
`queryPlayerByPID` both happen on the database thread: `QueryBuilds` is `buildAsLoad` (`Built`, the list, and
`Gone`, the requests it deletes), `QueryLoaded` is `CachePlayer.addPlayer`, and any handler may run in between. A
request accepted then is missing from the list that is cached, and a list another load made meanwhile is replaced. The
statements of `buildAsLoad` itself are one step also there.

The database. `save` and `delete` of a DAO change what the server will see as its data and queue the object;
`DataQuartzJob`, every second, and `Bootstrap.stop` write the queue. `FlushList` and `FlushRequest` write the rows of
one player and the request of one pair, in any order, and `Restart` is a crash at any moment: memory, saves that
were not flushed and queries under way are gone, requests and players are read from the database
(`PlayerBOImpl.init`), and all players are in memory, unbuilt, without lists. A regular stop is the case in which
all was flushed before. A player expires two hours after its last use, when its saves have long been written;
that is the guard of `Expire`. One order is left out: the job runs the saves of a DAO before its deletes, and a request
that is deleted and sent again within that second, with a crash between the two, leaves two requests of one pair in
the database.

So a crash does lose what was saved in the last second. What it does not lose is `CrashLosesNoEntry`: nothing of a
list whose saves were flushed.

What does not hold, and why no property says so: friendship is not mutual. A player who is not in memory
when the other deletes the friendship keeps it in its row, and `buildAsLoad` only adds accepted friends to the
row's; the same happens to the friend of somebody whose black list is found at load, and to a removal that a
crash prevents from being saved. A player without a row gets no list when loaded, whatever was accepted. Lists
made after a restart become second rows, which no load reads. `Accept` does not check the limit of the own list.

## 8. Runs

| Run | Instance | Shows |
|---|---|---|
| `guild_pair` | 2 players, 2 guilds, 2 seats, no requests, `EnterGuildCD = 0` | records always have a seat; the guild cache and the dissolution list agree with the status; one Level0, the owner; nobody moves between guilds in one step; the leader keeps its seat |
| `guild_full` | 3 players, 1 guild of 2 seats, 2 requests | stray seats belong to former owners; the member limit; no request of a member; requests are undecided and filed under a real guild; the quick-join list holds open guilds |
| `guild_donate` | 2 players, 1 guild, 2 levels, 2 charges, 1 query, quick joins only, `EnterGuildCD = 0`, fairness | types, in particular the level; `PlayerVO.guildID` agrees with the record, unless a query was overtaken; a second charge in a day only with a guild at the last level; a requested dissolution completes or is cancelled |
| `guild_rights` | 2 players, 1 guild | violation: a deputy demotes the owner, against the comment in `modifyRight` |
| `gateway_pair` | 2 clients, 2 connections, 1 message | types and the counter; a session has one home; without a total loss it keeps one and is closed only by its client |
| `gateway_live` | 1 client, 2 connections, 2 messages, fairness | the game logic sees session lives (refinement of `SessionLife`); the close of a client arrives unless a connection is lost |
| `gateway_dead` | 2 connections | violation: dead sessions that are cleared are not reported closed |
| `pool` | 2 connections, 2 messages, 3 sessions, 2 tasks per thread | types; a numbered message is pooled or received unless one of three races happened; refinement of `Outbox` |
| `pool_answer` | 1 connection, 1 message, 2 sessions, fairness | violation: a client that reconnects while a message is pooled gets no answer |
| `login` | 2 sessions, 2 tokens, 2 controllers, 2 objects, 4 messages, 1 rare event | types; tokens lead to who is online; nobody plays on after being replaced; an online player is reachable; an online object is cached or about to go offline |
| `login_live` | 2 sessions, 1 token, 2 controllers, 3 messages, fairness | when all clients are gone, their messages handled and the heartbeat timer runs, the player goes offline or a client comes back |
| `friends` | 2 players, 1 fault (restart or query) | types and rows; one request between two; nobody is friend and black-listed; complete lists hold every accepted friend; a crash loses nothing of a list whose saves were flushed |

Why the bounds are enough. Each handler relates at most two players and one guild, so conflicts need an
actor, a target and, for competition over the last seat, a third player; movement between guilds needs a
second guild. Two seats make a guild full while it has a leader and one more member. The guild with one
level is already at its last one, and two levels give one level-up before it. Guild ids are not reused,
so a dissolved guild is not created again; two ids allow a dissolved and a living guild side by side.
A query is under way in `guild_donate` only, against quick joins, departures, dismissals and dissolutions; a request
accepted meanwhile is left to the proof of `PlayersAgree`, which takes any number of queries.
Symmetry is used over players, guilds and clients in safety runs (they are interchangeable in the
specifications) and not under fairness. Deadlock is checked in every guild run.

For the gateway, two connections give every race between two closing jobs and between a closing and a
receiving one, and a total loss; the second client is needed for two sessions in one copy and for one
session dead while another is alive. A message overtakes an earlier one only when its client was rebound
twice, which needs three connections and two messages; that case is left to the proof of the refinement,
which holds for any number of them.

For the pool, two connections make two threads that race in one controller, and three sessions let an answer
come late by one reconnection; with two messages one is acknowledged while another is not. For the login, two
sessions with a token each are a client that is replaced, the same token twice is a reconnection; a second
object is needed for every race about the cache. Two controllers are one for each session; a third, made after one of
them was destroyed, is left to the proofs, which hold for any number. `MaxRare` bounds suspensions, interventions and
queries together. For the friends, all handlers relate two players. `MaxFaults` bounds restarts, queries under way and,
per player, queries overtaken, taken together: one restart reaches second rows, lists that are not whole and the
loss of unflushed saves, one query reaches every race with it, and both in one behaviour are left to the proofs. `OwnId`
is a bound too: whether players name themselves in their requests, which the run leaves out and the proofs cover. The runs of the
gateway, the pool and the login do not check deadlock, because they stop when their bounds are used up;
`friends` never stops.

Fairness. `FairSpec` assumes, for each guild, that the half-hour job eventually runs with that guild due
as long as it stays listed: quartz fires the job every half hour, the job is queued on the single GAME
thread, and `dissolutionTime` is a fixed point in time, so it passes. Nothing else is assumed fair; in
particular players need not do anything. `FairSpec` of the gateway assumes that the event loop of a client
connection runs the jobs queued on it and that of a server connection processes what arrives, which netty
does; nobody has to connect, send or leave, and connections need not be lost or restored. `FairSpec` of the
pool assumes the same of the threads of its connections, that the game thread goes on and that the client reads.
`FairSpec` of the login assumes that the game, database and connection threads go on, that the half-hour and minute
jobs clean the caches (`clearCache` of `CachePlayer` and `CachePlayerPI`), and that the heartbeat timer runs out while no
client of the player is connected, since only its own clients reset it. Nothing is assumed of the two hours of
`CachePlayer`: other players who look this one up (a query, a friend request, a private message) reset them. So
`EventuallyOffline` speaks of a player whose heartbeat timer runs; one whose Close was handled before its
EnterGame has no such timer and may stay online for as long as somebody takes an interest in it.

The findings, each with a run: (1) `modifyRight` compares the level that is asked for with the caller's
level, never the level of the target, although the comment above the comparison forbids operations on
superiors. (2) When the last connection is lost, `connectionClosed` empties `DEAD_SESSIONS` and then processes
a close message for each session it took out, which looks for the session in the table just emptied; the game
logic never hears of it, and the player stays online until its heartbeat expires. (3) `getAllServerMessage`
reads what `sendMessage` pooled as JSON, but the command number precedes the JSON: a reconnection with a
message in the pool fails after the session was switched.

Seen while modelling, without a run. Guild: `replaceGuildLeader` demotes the previous owner by writing Level1
into `memberRights`; an owner who was demoted as in (1), left, and is still named by `GuildVO.owner` is thereby
seated again while its record says "in no guild" (`OnlyExOwnersHaveStraySeats` is what remains true). `donate`
executes the cost before `checkGuildLevelUp` throws `LevelLimit` at the last level, so the donation is charged
and not recorded (`DoubleChargeOnlyAtLastLevel`). `clearGuildReq` compares dates the wrong way round, so
requests never expire. Gateway: a closing job decrements the counter first and puts its sessions aside later,
so that the job that finds the counter at zero may clear `DEAD_SESSIONS` before another one has filled it;
`decrementSession` is called from nowhere, so the "dynamic least connections" of `getBinding` are the clients
ever bound. Pool: the comment in `validate` speaks of a check of the server's number, which is not made. Payment:
`buildAsLoad` of `OrderBOImpl` rewards an order that was confirmed while its player was away and never marks
it, so that it is rewarded at every load. Login and friends: sections 6 and 7.

## 9. Proofs

### `GuildProofs.tla`

For all constants that satisfy `GuildAssumption`:

* `TypeCorrect`: `Spec => []TypeOK`.
* `Inductive`: `Spec => []IInv` with `IInv == TypeOK /\ Listed /\ Records /\ Leaders`.
* from it the invariants `RecordHasSeat`, `DissolutionListed`, `QuickJoinNeedsNoRequest`,
  `MembersHaveNoRequests`, `RequestsAreGenuine`, `PlayerAgreesWithRecord`, `SoleLeader`,
  `OnlyExOwnersHaveStraySeats`, and the action properties `NoGuildHopping` and `LeaderKeepsSeat`;
* `LimitIsKept`: `Spec => []MemberLimit`, and `PaysOnce`: `Spec => []DoubleChargeOnlyAtLastLevel`.

The argument has layers, each using the ones before it. `Listed` relates the two lists, the quick-join
list and the cache to status and admission mode, and says that an unborn guild is blank, which
`CreateGuild` needs. `Records` is the agreement of record, seat, requests and player; none of its parts
is inductive alone: that a record has a seat survives an accepted request only because a player with a
request is in no guild, and that survives because requests are undecided (so the accepting branch of
`buildAsLoad` is dead) and filed under the guild that was joined (so `Zero` never holds one, which
needs the quick-join list of `Listed`). A player built for a query carries the guild id its record had; whether it
still has it is decided when the player is cached (`overtaken`), so nothing need be known of `built` but its type.
`Leaders` says that a Level0 seat belongs to the owner and that a
seat without a record belongs to a former owner. Lemmas named `...Effect` state once, per helper, what a
step does to `rights`, `memberGuild` and `req`; the preservation proofs have one step per action.

The member limit counts records, while the handlers count seats: since a record has a seat (`Records`), the
members are among the seated, a handler that admits has found a free seat, and one step adds at most one member
(`Admits`). The assumptions used are that there are finitely many players and that `MaxMemberSize` does not
shrink from a level to the next; the first is true of any running server, the second of its tables. `PaysOnce` needs
`PaidIsRecorded`: whoever has been charged today is recorded, unless a guild is at the last level, which no step
undoes (`LastLevelStays`).

### `GatewayProofs.tla`

For every set of clients and all natural numbers `MaxConn` and `MaxMsg` (`GatewayAssumption`):

* `TypeCorrect`, and `Inductive`: `Spec => []IInv` with
  `IInv == TypeOK /\ Counted /\ Opens /\ Homes /\ Losses`;
* the invariants `OneHome`, `SessionsSurvive` and `ClosedOnlyByClient`;
* `ImplementsSessionLife`: `Spec => SeesSessionLives`, the refinement.

`Counted` says that the counter is the number of working connections; without it `size - 1` need not be a
natural number, and `notifyClose` need not mean a total loss. `Opens` says that the opening of a session is
under way at most once (as the first job of its client, or as one packet) and only while the session is
unknown; it makes an opened session new to every table. `Homes` adds to `OneHome` that whatever a table
holds is open and that a closing job that notifies finds exactly what it copied, which makes every close the
close of an open session. `Losses` says that a job notifies only after a total loss and that closes are
under way only for clients that have left; from these follow the two promises guarded by `~lastLost`.
`LogicStep` maps each step to an opening, a message, a closing or a stuttering step of `SessionLife`; what
it needs is that a session that is found is open (`FoundIsOpen`) and that an opening meets an unknown
one. The validity of message numbers is `Validate` alone.

### `MessagePoolProofs.tla`

For every set of connections and all bounds that satisfy `PoolAssumption`:

* `TypeCorrect`: `Spec => []TypeOK`;
* `NothingLost`: `Spec => []NoneLost`;
* `Refinement`: `Spec => ImplementsOutbox`, with `Outbox` instantiated under the mapping of section 5.

`NoneLost` is not inductive. `Inv` strengthens it, for as long as `flaw` is empty, by three conjuncts.
`Numbered`: a number taken by a thread is the next one, no other thread holds one, and the thread has a message
to send; the pool is sorted; what is pooled or received was given out, and every number given out is received or
pooled. `Backed`: a waiting acknowledgement covers only numbers the client has, an answer names a session that
was opened, and a playing client has everything up to `received`. `Followed`: the wire is sorted (`InOrder`) and
empty while the session is not active; while it is active and the client acknowledges, every number the client
does not have is on the wire (`Covered`). The discarding of a prefix of the pool is then a release of received
numbers. Lemmas named `...Inv` prove that an action preserves `Inv`; `OutboxStep` maps each step to a posting, a
learning, a release or a stuttering step of `Outbox`, and `FlawStays` makes every later step an excused one.

### `LoginProofs.tla`

For all sets of sessions and tokens and all natural bounds (`LoginAssumption`): `TypeCorrect` (`TypeOK`),
`TokensAreCurrent` (`TokensFollowPlayers`), `NoGhostStays` (`NoGhost`), `OneClientPlays` (`OneClient`) and
`PlayerIsReachable` (`Reachable`).

Types need `Born`: objects that are online or cached and controllers that are named by objects, sessions, tasks
and jobs have been created, so that the next object or controller is new to everybody, and an object that is online has a
controller, which `Kick` puts into its task. Then `StepEffect` shows once that every step has one of
twelve effects (`Effect`): a session is heard or suspended, a controller ends, is reconnected or is dismissed, the player
enters with the cached or with a new object or leaves, the cached object expires, is removed or replaced, or only
tasks move. What the queue contributes is reduced to two sets, the controllers that waiting tasks will log out
(`LogsOut`) and the objects they will check (`Checked`). The layers survive each effect:

* `Current`: an object online after its expiry is the flaw `expired`, and without the flaws `expired` and `replaced`
  only the cached object is online. With it `TokensFollowPlayers` is inductive: a token removed with one object is
  not that of another.
* `Watched` is `NoGhost` in terms of `Checked`: only a removal from the cache makes an online object uncached, and it queues the check.
* `Retired` strengthens `OneClient`: a logged-in controller not about to be destroyed is that of an online object,
  or has no session, or its session leads elsewhere; and the controller an offline cached object still refers to
  is done with. The second half is what `Reconnection` needs, which makes that controller reachable again.
* `Served`, with `Reachable`: without flaws the player's controller is logged in, a dead session has no entry
  in the cache of controllers, and a waiting kick is for a controller that is logged in or has lost its session. The last part
  is why a late kick cannot take the entry of a client that came after it.

### `FriendsProofs.tla`

For any set of players, limits, restarts and queries (`FriendsAssumption`): `TypeCorrect` (`TypeOK`),
`RequestsAreShared` (`OneRequest`), `FriendsAreNotBanned` (`NeverBoth`), `NoFriendIsMissing` (`AcceptedAreFriends`)
and `CrashIsSafe` (`CrashLosesNoEntry`).

Types include that a player has at most one row more than there were restarts and overtaken queries. That needs
`Unsaved`: a list that will become a new row finds room for it; and `Waiting`: a list built for a query is the first
row. `Distinct` (nobody asks itself, two players share one request, in memory and in the database) makes it
clear which friendship a deletion ends. `StepMoves` classifies what a step does to the list and rows of one
player (`Moves`: nothing, a new list, a load, a list built or cached for a query, a friendship begun by either side, a
friend dropped, a ban, a friend forgotten, a list saved again, the player leaving memory, a restart); the layers `Apart`,
`Complete` and `Durable` are proved for one player from it. `Apart` needs `ApartLater`: the rows of the database and the
lists built for queries are disjoint too, since both come into memory later. `Durable` compares a list with what was
saved, and becomes `CrashLosesNoEntry` where that was flushed. It is not inductive alone: an accepted request is removed
when the other player is built with this one on its black list, and a friend known only by that request would be
lost. `Kept` excludes it: before the first restart and the first query overtaken, of two accepted friends one has the
other in its row and in its list, if it is in memory.

## 10. Only model-checked

The liveness properties `DissolutionCompletes`, `CloseArrives` and `EventuallyOffline`: fairness and `ENABLED`
are out of the prover's reach. The three violations are counterexamples of TLC. Everything else a run
checks is also proved.

## 11. Not modelled

Within the guild: names, texts and the name trie, money, invitations (written, never read), logs, fight
force, the recommendation list, pushed messages and mails, and what the asynchronous DAO has written when
the server stops (for the friends that is modelled, section 7). Around the gateway: the way of server messages back to clients, handshake contents and
server id mapping, a change of the server's address at run time, reconnect delays and byte codecs. Around the
login: creation of players, the login service itself (it answers or does not), the closed server (it only
refuses). Around the friends: blessings, search, recommendations, recent chats.

All JavaScript in the repository is vendored: the scripts of the web console `game_gm/Manager` are jQuery,
DataTables, DevExpress, Bootstrap plug-ins and page themes under `webapp/assets/js`, those of `game_manage` the
Matrix theme, and the two `ioc/dao.js` are data-source settings. None of it carries logic of
this program, whose state and behaviour are in Java; so no script is modelled, although scripts are most of the
repository's lines. The persistence library, the order handler and the cache implementation are shipped as
binaries and appear only as the code uses them. Other components: `PROJECT.json` lists every one with the
reason; those of the plan come next, the rest is presentation, configuration loading or plain request/response
I/O.
