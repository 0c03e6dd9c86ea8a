------------------------------- MODULE Login --------------------------------
(***************************************************************************)
(* How one player comes online and goes offline (PlayerBOImpl), with the   *)
(* message controllers of the sessions its clients use                     *)
(* (CacheMessageController, Dispatch), the cache of players (CachePlayer)  *)
(* and the heartbeat (CachePlayerPI).                                      *)
(*                                                                         *)
(* Messages arrive on the threads of the connections, logic runs as tasks  *)
(* of the game thread in the order of its queue, verification and loading  *)
(* run elsewhere and come back as tasks, and the destruction of a          *)
(* controller runs on the thread of its connection.  Caches expire on      *)
(* their own.  The same player may have several PlayerVO objects, one of   *)
(* which is cached.                                                        *)
(*                                                                         *)
(* flaw collects, when they happen, the orders of steps that leave the     *)
(* player with a controller nobody is behind, or behind its controller:    *)
(*   "survived"  a replaced client's session was suspended: its controller *)
(*               is neither closed nor destroyed;                          *)
(*   "self"      EnterGame is handled twice for one session, and the       *)
(*               second time puts an end to the session itself;            *)
(*   "revived"   EnterGame is handled for a controller that was destroyed, *)
(*               is about to be or no longer gets its session's messages;  *)
(*   "expired"   a player that is online expires in the cache, and may be  *)
(*               loaded again before it is taken offline;                  *)
(*   "replaced"  an object loaded by a query takes the place of the one    *)
(*               that is online.                                           *)
(***************************************************************************)
EXTENDS Integers, Sequences, FiniteSets

CONSTANTS
    Sessions,   \* sessions of clients of the player
    Tokens,     \* tokens the login service issues for the player
    NoToken,    \* no token
    NoSession,  \* null
    MaxCtl,     \* bound: controllers created
    MaxObj,     \* bound: PlayerVO objects created
    MaxSent,    \* bound: messages VerifySign and EnterGame
    MaxRare,    \* bound: suspensions, interventions of the operator, queries
    MaxQueue    \* bound: tasks waiting for the game thread or under way to it

ASSUME LoginAssumption ==
    /\ NoToken \notin Tokens
    /\ NoSession \notin Sessions
    /\ MaxCtl \in Nat /\ MaxObj \in Nat /\ MaxSent \in Nat /\ MaxRare \in Nat /\ MaxQueue \in Nat

VARIABLES
    session,    \* state of each session
    cache,      \* CacheMessageController.cache: session -> controller, 0: none
    ctls,       \* controllers created
    sess,       \* session of each controller
    pid,        \* controllers with the attribute PLAYER_ID
    tok,        \* attributes TOKEN (and ACCOUNT_ID) of each controller
    dying,      \* controllers whose destruction is submitted
    queue,      \* tasks of the game thread
    jobs,       \* verifications and loads under way
    objs,       \* objects created
    cached,     \* object in cacheAllPlayers, 0: none
    expired,    \* the entry has expired and is not yet removed
    online,     \* objects that are online
    ctrl,       \* messageController of each object, 0: null
    otok,       \* token of each object
    mapped,     \* tokens in tokenMappingPlayer
    pi,         \* CachePlayerPI has an entry for the player
    querying,   \* a query's load has found the player not cached
    sent,       \* messages VerifySign and EnterGame so far
    rare,       \* suspensions, interventions of the operator and queries so far
    flaw

sessionVars == <<session, cache, ctls, sess>>
ctlVars     == <<pid, tok, dying>>
playerVars  == <<online, ctrl, otok, mapped>>
cacheVars   == <<objs, cached, expired, querying>>
bounds      == <<sent, rare>>
vars == <<sessionVars, ctlVars, queue, jobs, playerVars, cacheVars, pi, bounds, flaw>>

Ctl == 1..MaxCtl
Obj == 1..MaxObj

Task ==
    [op : {"verify", "enter", "load"}, c : Ctl, t : Tokens]
        \cup [op : {"offline"}, c : Ctl]
        \cup [op : {"timeout"}, o : Obj]
        \cup [op : {"heartbeat"}]

Init ==
    /\ session = [s \in Sessions |-> "none"]
    /\ cache = [s \in Sessions |-> 0]
    /\ ctls = 0
    /\ sess = [c \in Ctl |-> NoSession]
    /\ pid = {}
    /\ tok = [c \in Ctl |-> NoToken]
    /\ dying = {}
    /\ queue = <<>>
    /\ jobs = <<>>
    /\ objs = 0
    /\ cached = 0
    /\ expired = FALSE
    /\ online = {}
    /\ ctrl = [o \in Obj |-> 0]
    /\ otok = [o \in Obj |-> NoToken]
    /\ mapped = {}
    /\ pi = FALSE
    /\ querying = FALSE
    /\ sent = 0
    /\ rare = 0
    /\ flaw = {}

-----------------------------------------------------------------------------
\* Messages on the threads of the connections

\* The controller of a session is created when it is first needed.
Reach(s, c) ==
    /\ c \in Ctl
    /\ c = IF cache[s] # 0 THEN cache[s] ELSE ctls + 1
    /\ cache' = [cache EXCEPT ![s] = c]
    /\ ctls' = IF cache[s] # 0 THEN ctls ELSE c
    /\ sess' = [sess EXCEPT ![c] = IF cache[s] # 0 THEN @ ELSE s]

\* A message arrives; one on another connection takes a suspended session over.
Arrive(s, c) ==
    /\ session[s] \in {"open", "suspended"}
    /\ session' = [session EXCEPT ![s] = "open"]
    /\ Reach(s, c)

Pending == Len(queue) + Len(jobs)

Sent == sent < MaxSent /\ sent' = sent + 1 /\ UNCHANGED rare
Rare == rare < MaxRare /\ rare' = rare + 1 /\ UNCHANGED sent

\* A controller that knows its token accepts no other.
CheckToken(c, t) == tok[c] \in {NoToken, t}

Open(s) ==
    /\ session[s] = "none"
    /\ session' = [session EXCEPT ![s] = "open"]
    /\ \E c \in Ctl : Reach(s, c)
    /\ UNCHANGED <<ctlVars, queue, jobs, playerVars, cacheVars, pi, bounds, flaw>>

\* The login service is asked.
VerifySign(s, t) ==
    /\ Pending < MaxQueue
    /\ Sent
    /\ \E c \in Ctl :
          /\ Arrive(s, c)
          /\ CheckToken(c, t)
          /\ jobs' = Append(jobs, [op |-> "verify", c |-> c, t |-> t])
    /\ UNCHANGED <<ctlVars, queue, playerVars, cacheVars, pi, flaw>>

EnterGame(s, t) ==
    /\ Pending < MaxQueue
    /\ Sent
    /\ \E c \in Ctl :
          /\ Arrive(s, c)
          /\ CheckToken(c, t)
          /\ queue' = Append(queue, [op |-> "enter", c |-> c, t |-> t])
    /\ UNCHANGED <<ctlVars, jobs, playerVars, cacheVars, pi, flaw>>

\* What getPlayerByPid finds.
InCache == cached # 0 /\ ~expired

\* The heartbeat (any other message, and one that is refused, does as much
\* to session and controller).
PI(s) ==
    /\ \E c \in Ctl :
          /\ Arrive(s, c)
          /\ pi' = (pi \/ (c \in pid /\ InCache))
    /\ UNCHANGED <<ctlVars, queue, jobs, playerVars, cacheVars, bounds, flaw>>

\* The connection of the session is lost, others of the gateway are left.
Suspend(s) ==
    /\ Rare
    /\ session[s] \in {"open", "dead"}
    /\ session' = [session EXCEPT ![s] = "suspended"]
    /\ UNCHANGED <<cache, ctls, sess, ctlVars, queue, jobs, playerVars, cacheVars, pi, flaw>>

\* The client is gone, or the last connection of the gateway.  A player's
\* time runs out if there is no heartbeat from now on.
Close(s) ==
    /\ session[s] \in {"open", "suspended", "dead"}
    /\ session' = [session EXCEPT ![s] = "closed"]
    /\ \E c \in Ctl :
          /\ Reach(s, c)
          /\ pi' = (pi \/ c \in pid)
    /\ UNCHANGED <<ctlVars, queue, jobs, playerVars, cacheVars, bounds, flaw>>

IsActive(c) == sess[c] # NoSession /\ session[sess[c]] = "open"

\* MessageController.destroy as seen by its caller: submitted if the
\* session is active.
Destroy(c) == IF IsActive(c) THEN dying \cup {c} ELSE dying

\* The destruction runs.
Destroyed(c) ==
    /\ c \in dying
    /\ dying' = dying \ {c}
    /\ sess' = [sess EXCEPT ![c] = NoSession]
    /\ pid' = pid \ {c}
    /\ tok' = [tok EXCEPT ![c] = NoToken]
    /\ UNCHANGED <<session, cache, ctls, queue, jobs, playerVars, cacheVars, pi, bounds, flaw>>

-----------------------------------------------------------------------------
\* The game thread

Handle(op) == queue # <<>> /\ Head(queue).op = op

\* The login service has confirmed the token.
VerifySuc ==
    /\ Handle("verify")
    /\ tok' = [tok EXCEPT ![Head(queue).c] = Head(queue).t]
    /\ queue' = Tail(queue)
    /\ UNCHANGED <<sessionVars, pid, dying, jobs, playerVars, cacheVars, pi, bounds, flaw>>

\* The controller c no longer serves the session its message came on.
Gone(c) == c \in dying \/ sess[c] = NoSession \/ cache[sess[c]] # c

\* The player enters with controller c; if it is online the old client is
\* replaced.  After that a player that is FROZEN is turned away.
EnterWith(c, t, o) ==
    LET replace == o \in online
        old     == ctrl[o]
        left    == IF replace THEN mapped \ {otok[o]} ELSE mapped
    IN  /\ dying' = IF replace THEN Destroy(old) ELSE dying
        /\ \/ /\ online' = online \ {o}
              /\ mapped' = left
              /\ UNCHANGED <<ctrl, otok, pid>>
           \/ /\ online' = online \cup {o}
              /\ mapped' = left \cup {t}
              /\ ctrl' = [ctrl EXCEPT ![o] = c]
              /\ otok' = [otok EXCEPT ![o] = t]
              /\ pid' = pid \cup {c}
        /\ flaw' = flaw
             \cup (IF replace /\ ~IsActive(old) /\ old \in pid THEN {"survived"} ELSE {})
             \cup (IF replace /\ old = c THEN {"self"} ELSE {})
             \cup (IF Gone(c) THEN {"revived"} ELSE {})
        /\ UNCHANGED <<session, cache, ctls, sess>>

\* Mutant: the new session is not entered for the old controller.
Reconnection_NotRouted(c, o) ==
    LET old == ctrl[o]
        s   == sess[old]
        new == sess[c]
    IN  \/ /\ ~(old # 0 /\ s # NoSession)
           /\ UNCHANGED <<sessionVars, flaw>>
        \/ /\ old # 0 /\ s # NoSession
           /\ session' = IF session[s] = "open" THEN [session EXCEPT ![s] = "dead"] ELSE session
           /\ sess' = [sess EXCEPT ![old] = new]
           /\ cache' = [x \in Sessions |-> IF x = s THEN 0 ELSE cache[x]]
           /\ flaw' = flaw \cup (IF s = new THEN {"self"} ELSE {})
                           \cup (IF Gone(c) THEN {"revived"} ELSE {})
           /\ UNCHANGED ctls

\* CacheMessageController.reconnection: the player's controller goes on with
\* the session of c, and its own is destroyed.  Without a session of its own
\* the handler fails; without one of c it fails half way.
Reconnection(c, o) ==
    LET old == ctrl[o]
        s   == sess[old]
        new == sess[c]
    IN  \/ /\ ~(old # 0 /\ s # NoSession)
           /\ UNCHANGED <<sessionVars, flaw>>
        \/ /\ old # 0 /\ s # NoSession
           /\ session' = IF session[s] = "open" THEN [session EXCEPT ![s] = "dead"] ELSE session
           /\ sess' = [sess EXCEPT ![old] = new]
           /\ cache' = [x \in Sessions |->
                          IF x = new THEN old ELSE IF x = s THEN 0 ELSE cache[x]]
           /\ flaw' = flaw \cup (IF s = new THEN {"self"} ELSE {})
                           \cup (IF Gone(c) THEN {"revived"} ELSE {})
           /\ UNCHANGED ctls

\* A token of a player in the cache means reconnection; otherwise the account
\* must be verified, and the player is loaded unless it is in the cache.
HandleEnter ==
    /\ Handle("enter")
    /\ queue' = Tail(queue)
    /\ LET c == Head(queue).c
           t == Head(queue).t
       IN  \/ /\ t \in mapped /\ InCache
              /\ Reconnection(c, cached)
              /\ UNCHANGED <<pid, dying, jobs, playerVars>>
           \/ /\ ~(t \in mapped /\ InCache)
              /\ tok[c] = NoToken
              /\ UNCHANGED <<sessionVars, pid, dying, jobs, playerVars, flaw>>
           \/ /\ ~(t \in mapped /\ InCache)
              /\ tok[c] # NoToken
              /\ InCache
              /\ EnterWith(c, t, cached)
              /\ UNCHANGED jobs
           \/ /\ t \notin mapped \/ ~InCache
              /\ tok[c] # NoToken
              /\ ~InCache
              /\ jobs' = Append(jobs, [op |-> "load", c |-> c, t |-> t])
              /\ UNCHANGED <<sessionVars, pid, dying, playerVars, flaw>>
    /\ UNCHANGED <<tok, cacheVars, pi, bounds>>

\* Mutant: no task checks an object that has left the cache.
Removed_Unchecked == <<>>

\* Taking a player out of the cache has its object checked later.
Removed == IF cached # 0 /\ expired THEN <<[op |-> "timeout", o |-> cached]>> ELSE <<>>

\* The player is loaded, unless another load was faster.  Putting it into
\* the cache removes an entry that has expired.  Loading may fail.
LoadSuc ==
    /\ Handle("load")
    /\ LET c == Head(queue).c
           t == Head(queue).t
       IN  \/ /\ InCache
              /\ EnterWith(c, t, cached)
              /\ queue' = Tail(queue)
              /\ UNCHANGED cacheVars
           \/ /\ ~InCache
              /\ objs < MaxObj
              /\ objs' = objs + 1
              /\ cached' = objs + 1
              /\ expired' = FALSE
              /\ queue' = Tail(queue) \o Removed
              /\ EnterWith(c, t, objs + 1)
              /\ UNCHANGED querying
           \/ /\ ~InCache
              /\ queue' = Tail(queue)
              /\ UNCHANGED <<sessionVars, pid, dying, playerVars, cacheVars, flaw>>
    /\ UNCHANGED <<tok, jobs, pi, bounds>>

\* Mutant: the session's entry is not removed.
DestroyController_KeepsEntry(c) ==
    /\ dying' = Destroy(c)
    /\ UNCHANGED cache

\* CacheMessageController.destroy: the session's entry is removed, unless
\* the destruction has already run when the session is looked up.
DestroyController(c) ==
    /\ dying' = Destroy(c)
    /\ \/ cache' = [s \in Sessions |-> IF s = sess[c] THEN 0 ELSE cache[s]]
       \/ IsActive(c) /\ UNCHANGED cache

\* Mutant: the token stays in tokenMappingPlayer.
Offline_KeepsToken(o) ==
    /\ online' = online \ {o}
    /\ ctrl' = [ctrl EXCEPT ![o] = 0]
    /\ \/ ctrl[o] # 0 /\ DestroyController(ctrl[o])
       \/ ctrl[o] = 0 /\ UNCHANGED <<dying, cache>>
    /\ UNCHANGED <<otok, mapped>>

Offline(o) ==
    /\ online' = online \ {o}
    /\ mapped' = mapped \ {otok[o]}
    /\ ctrl' = [ctrl EXCEPT ![o] = 0]
    /\ \/ ctrl[o] # 0 /\ DestroyController(ctrl[o])
       \/ ctrl[o] = 0 /\ UNCHANGED <<dying, cache>>
    /\ UNCHANGED otok

\* Mutant: the player need not be online.
Kick_NotOnline(o) ==
    /\ o \in 1..objs
    /\ Pending < MaxQueue
    /\ Rare
    /\ queue' = Append(queue, [op |-> "offline", c |-> ctrl[o]])
    /\ UNCHANGED <<sessionVars, ctlVars, jobs, playerVars, cacheVars, pi, flaw>>

\* The operator takes a player offline (to freeze it, to close the server, or
\* all players).
Kick(o) ==
    /\ o \in online
    /\ Pending < MaxQueue
    /\ Rare
    /\ queue' = Append(queue, [op |-> "offline", c |-> ctrl[o]])
    /\ UNCHANGED <<sessionVars, ctlVars, jobs, playerVars, cacheVars, pi, flaw>>

HandleOffline ==
    /\ Handle("offline")
    /\ queue' = Tail(queue)
    /\ \/ /\ Head(queue).c \in pid /\ InCache
          /\ Offline(cached)
       \/ /\ ~(Head(queue).c \in pid /\ InCache)
          /\ DestroyController(Head(queue).c)
          /\ UNCHANGED playerVars
    /\ UNCHANGED <<session, ctls, sess, pid, tok, jobs, cacheVars, pi, bounds, flaw>>

\* The heartbeat has run out: the player goes offline, whatever has happened
\* since.
HandleHeartbeat ==
    /\ Handle("heartbeat")
    /\ queue' = Tail(queue)
    /\ \/ InCache /\ Offline(cached)
       \/ ~InCache /\ UNCHANGED <<playerVars, dying, cache>>
    /\ UNCHANGED <<session, ctls, sess, pid, tok, jobs, cacheVars, pi, bounds, flaw>>

\* Mutant: the test of isOnline is the wrong way round.
HandleTimeout_Inverted ==
    /\ Handle("timeout")
    /\ queue' = Tail(queue)
    /\ LET o == Head(queue).o
       IN  \/ o \notin online /\ Offline(o)
           \/ o \in online /\ UNCHANGED <<playerVars, dying, cache>>
    /\ UNCHANGED <<session, ctls, sess, pid, tok, jobs, cacheVars, pi, bounds, flaw>>

\* An object that has left the cache goes offline if it is online.
HandleTimeout ==
    /\ Handle("timeout")
    /\ queue' = Tail(queue)
    /\ LET o == Head(queue).o
       IN  \/ o \in online /\ Offline(o)
           \/ o \notin online /\ UNCHANGED <<playerVars, dying, cache>>
    /\ UNCHANGED <<session, ctls, sess, pid, tok, jobs, cacheVars, pi, bounds, flaw>>

GameThread ==
    \/ VerifySuc
    \/ HandleEnter
    \/ LoadSuc
    \/ HandleOffline
    \/ HandleHeartbeat
    \/ HandleTimeout

-----------------------------------------------------------------------------
\* Other threads and time

\* A verification or a load is finished.
JobDone(i) ==
    /\ i \in 1..Len(jobs)
    /\ queue' = Append(queue, jobs[i])
    /\ jobs' = SubSeq(jobs, 1, i - 1) \o SubSeq(jobs, i + 1, Len(jobs))
    /\ UNCHANGED <<sessionVars, ctlVars, playerVars, cacheVars, pi, bounds, flaw>>

\* Half an hour without a heartbeat.
HeartbeatExpires ==
    /\ pi
    /\ Pending < MaxQueue
    /\ pi' = FALSE
    /\ queue' = Append(queue, [op |-> "heartbeat"])
    /\ UNCHANGED <<sessionVars, ctlVars, jobs, playerVars, cacheVars, bounds, flaw>>

\* Two hours without access: loads that were under way are finished by then.
\* The heartbeat may still run: Close records it without access to the cache.
Expire ==
    /\ InCache
    /\ ~querying /\ jobs = <<>>
    /\ \A i \in 1..Len(queue) : queue[i].op # "load"
    /\ expired' = TRUE
    /\ flaw' = flaw \cup (IF cached \in online THEN {"expired"} ELSE {})
    /\ UNCHANGED <<sessionVars, ctlVars, queue, jobs, playerVars, objs, cached, querying, pi, bounds>>

CleanUp ==
    /\ expired
    /\ Pending < MaxQueue
    /\ cached' = 0
    /\ expired' = FALSE
    /\ queue' = queue \o Removed
    /\ UNCHANGED <<sessionVars, ctlVars, jobs, playerVars, objs, querying, pi, bounds, flaw>>

\* queryPlayerByPID by another player: the load looks into the cache, builds
\* the object and puts it there, all on a thread of its own, unless it fails.
QueryMisses ==
    /\ ~InCache
    /\ ~querying
    /\ Rare
    /\ querying' = TRUE
    /\ UNCHANGED <<sessionVars, ctlVars, queue, jobs, playerVars, objs, cached, expired, pi, flaw>>

QueryLoaded ==
    /\ querying
    /\ querying' = FALSE
    /\ \/ /\ objs < MaxObj
          /\ objs' = objs + 1
          /\ cached' = objs + 1
          /\ expired' = FALSE
          /\ queue' = queue \o Removed
          /\ flaw' = flaw \cup (IF InCache /\ cached \in online THEN {"replaced"} ELSE {})
       \/ UNCHANGED <<objs, cached, expired, queue, flaw>>
    /\ UNCHANGED <<sessionVars, ctlVars, jobs, playerVars, pi, bounds>>

Next ==
    \/ \E s \in Sessions :
          \/ Open(s) \/ PI(s) \/ Suspend(s) \/ Close(s)
          \/ \E t \in Tokens : VerifySign(s, t) \/ EnterGame(s, t)
    \/ \E c \in Ctl : Destroyed(c)
    \/ \E o \in Obj : Kick(o)
    \/ GameThread
    \/ \E i \in 1..Len(jobs) : JobDone(i)
    \/ HeartbeatExpires
    \/ Expire
    \/ CleanUp
    \/ QueryMisses
    \/ QueryLoaded

Spec == Init /\ [][Next]_vars

\* None of the player's clients is connected, so none sends heartbeats.
Deserted == \A s \in Sessions : session[s] # "open"

\* WF: the threads do not stop, and time goes on: a heartbeat nobody sends
\* any more runs out and the jobs that clean the caches are executed.  Nothing
\* is assumed of Expire: whoever looks the player up (a query, a friend, a
\* private message) resets the two hours.
FairSpec ==
    /\ Spec
    /\ WF_vars(GameThread)
    /\ WF_vars(\E i \in 1..Len(jobs) : JobDone(i))
    /\ WF_vars(\E c \in Ctl : Destroyed(c))
    /\ WF_vars(Deserted /\ HeartbeatExpires)
    /\ WF_vars(CleanUp)
    /\ WF_vars(QueryLoaded)


-----------------------------------------------------------------------------
\* The variables of PlayerBOImpl, the caches and the controllers keep their types.
TypeOK ==
    /\ session \in [Sessions -> {"none", "open", "suspended", "dead", "closed"}]
    /\ cache \in [Sessions -> 0..MaxCtl]
    /\ ctls \in 0..MaxCtl
    /\ sess \in [Ctl -> Sessions \cup {NoSession}]
    /\ pid \subseteq Ctl
    /\ tok \in [Ctl -> Tokens \cup {NoToken}]
    /\ dying \subseteq Ctl
    /\ queue \in Seq(Task)
    /\ jobs \in Seq(Task)
    /\ objs \in 0..MaxObj
    /\ cached \in 0..MaxObj
    /\ sent \in 0..MaxSent
    /\ rare \in 0..MaxRare
    /\ online \subseteq Obj
    /\ ctrl \in [Obj -> 0..MaxCtl]
    /\ otok \in [Obj -> Tokens \cup {NoToken}]
    /\ mapped \subseteq Tokens
    /\ {expired, pi, querying} \subseteq BOOLEAN
    /\ flaw \subseteq {"survived", "self", "revived", "expired", "replaced"}

\* tokenMappingPlayer leads to nobody who is not online, and to everybody who
\* is unless an object that left the cache takes its token along
\* (CachePlayer.online, offline; enterGame changes the token in between).
TokensFollowPlayers ==
    /\ mapped \subseteq {otok[o] : o \in online}
    /\ flaw \cap {"expired", "replaced"} = {} => mapped = {otok[o] : o \in online}

\* A controller that is logged in and reached by a client's messages is the
\* one of the player that is online: nobody plays on after enterGame has
\* replaced it or offline has ended it.
OneClient ==
    "survived" \notin flaw =>
        \A c \in pid \ dying :
            IsActive(c) /\ cache[sess[c]] = c => \E o \in online : ctrl[o] = c

\* The player that is online has a controller that can send, as soon as its
\* session has a connection, and that hears what the session receives.
Reachable ==
    flaw = {} =>
        \A o \in online :
            /\ ctrl[o] # 0
            /\ ctrl[o] \notin dying
            /\ sess[ctrl[o]] # NoSession
            /\ session[sess[ctrl[o]]] # "dead"
            /\ session[sess[ctrl[o]]] # "closed" => cache[sess[ctrl[o]]] = ctrl[o]

\* An object that is online and not cached is about to be taken offline
\* (the removal listener of CachePlayer).
NoGhost ==
    "replaced" \notin flaw =>
        \A o \in online :
            o = cached \/ \E i \in 1..Len(queue) : queue[i] = [op |-> "timeout", o |-> o]

\* No EnterGame is under way.
Settled ==
    /\ \A i \in 1..Len(queue) : queue[i].op \notin {"enter", "load"}
    /\ \A i \in 1..Len(jobs) : jobs[i].op # "load"

\* When all clients are gone, nothing they sent is left to handle and the
\* heartbeat of the player runs, as it does once a Close has been handled for
\* it, the player goes offline (CachePlayerPI), or a client comes back.
EventuallyOffline ==
    (Deserted /\ Settled /\ pi) ~> (online = {} \/ ~Deserted \/ "replaced" \in flaw)
=============================================================================
