------------------------------ MODULE Friends -------------------------------
(***************************************************************************)
(* Friend lists, black lists and friend requests (FriendsBOImpl,           *)
(* CacheFriendReq, ChatBOImpl.privateMsg), over what the cache of players  *)
(* does to them: players are loaded, expire two hours after they were last *)
(* used, and after a start of the server are all in memory without their   *)
(* lists (PlayerBOImpl.init).                                              *)
(*                                                                         *)
(* All handlers run on the game thread, one after the other; only a player *)
(* loaded to answer a query is built on a database thread and cached in a  *)
(* later step.  A friendship is stored three times: in the request both    *)
(* players share and in the list of each.  A list that is first saved      *)
(* becomes a new row, whatever rows the player has already; a load takes   *)
(* the first.  A save is a change in memory, which a job writes to the     *)
(* database within a second.  nearCharPlayer, blessings, mails and pushed  *)
(* messages are left out.                                                  *)
(***************************************************************************)
EXTENDS Naturals, Sequences, FiniteSets

CONSTANTS
    Player,
    FriendListSize, \* CacheDisDataFriend.FRIEND_LIST_SIZE
    BlackListSize,  \* CacheDisDataFriend.BLACK_LIST_SIZE
    NoList,         \* null
    OwnId,          \* bound: whether players name themselves in their requests
    MaxFaults       \* bound: restarts, queries under way and queries overtaken

ASSUME FriendsAssumption ==
    /\ FriendListSize \in Nat /\ BlackListSize \in Nat
    /\ OwnId \in BOOLEAN /\ MaxFaults \in Nat
    /\ NoList \notin [row : Nat, f : SUBSET Player, b : SUBSET Player, whole : BOOLEAN]

VARIABLES
    cached,     \* players in CachePlayer
    online,     \* those of them that are online
    list,       \* FriendListVO of each player in memory
    rows,       \* rows of friend lists as saved, by player, oldest first
    reqs,       \* requests in CacheFriendReq, and as saved
    dbRows,     \* the rows the database has
    dbReqs,     \* the requests the database has
    built,      \* players built for a query and not yet cached, with the list
    overtaken,  \* history: how often a query put an old list into the cache
    restarts

tables == <<dbRows, dbReqs>>
memory == <<cached, online, list, rows, reqs>>
past   == <<built, overtaken, restarts>>
vars   == <<memory, tables, past>>

Row     == [f : SUBSET Player, b : SUBSET Player]
List    == [row : Nat, f : SUBSET Player, b : SUBSET Player, whole : BOOLEAN]
Request == [src : Player, tgt : Player, st : {"sent", "accepted"}]

Init ==
    /\ cached = {} /\ online = {}
    /\ list = [p \in Player |-> NoList]
    /\ rows = [p \in Player |-> <<>>]
    /\ reqs = {}
    /\ dbRows = rows /\ dbReqs = reqs
    /\ built = {} /\ overtaken = [p \in Player |-> 0]
    /\ restarts = 0

-----------------------------------------------------------------------------
\* Requests and lists

\* CacheFriendReq.getSrcOrTgt
Between(p, q) == {r \in reqs : {r.src, r.tgt} = {p, q}}

\* CacheFriendReq.getFriendByStatusSrcOrTgt for STATUS_ACCEPT
Accepted(p) == {q \in Player : \E r \in Between(p, q) : r.st = "accepted"}

\* CacheFriendReq.getSrcOrTgt and getFriendByStatusSrcOrTgt after a crash
DbBetween(p, q) == {r \in dbReqs : {r.src, r.tgt} = {p, q}}
DbAccepted(p)   == {q \in Player : \E r \in DbBetween(p, q) : r.st = "accepted"}

HasList(p) == list[p] # NoList

\* The player's list, created if there is none: row 0 is a list not saved
\* yet.  whole records that it holds every accepted friend (no state of
\* the code).
ListOf(p) ==
    IF HasList(p) THEN list[p]
    ELSE [row |-> 0, f |-> {}, b |-> {}, whole |-> Accepted(p) = {}]

\* friendListDAO.save: the rows of p with its list l, and the list saved.
\* Nothing is written yet: see FlushList.
RowsWith(p, l) ==
    LET row == [f |-> l.f, b |-> l.b]
    IN  IF l.row = 0 THEN Append(rows[p], row) ELSE [rows[p] EXCEPT ![l.row] = row]
Saved(p, l) == IF l.row = 0 THEN [l EXCEPT !.row = Len(rows[p]) + 1] ELSE l

Without(p, q) == IF HasList(p) THEN [list[p] EXCEPT !.f = @ \ {q}] ELSE NoList

-----------------------------------------------------------------------------
\* Operations of a player p that is online

\* Mutant: no look for a request between the two.
AddNewFriend_OneWay(p, q) ==
    /\ p \in online /\ q # p
    /\ HasList(p) => q \notin list[p].f \cup list[p].b /\ Cardinality(list[p].f) < FriendListSize
    /\ HasList(q) => p \notin list[q].b
    /\ reqs' = reqs \cup {[src |-> p, tgt |-> q, st |-> "sent"]}
    /\ UNCHANGED <<cached, online, list, rows, tables, past>>

\* A request to q, unless there is one between the two, in either direction.
AddNewFriend(p, q) ==
    /\ p \in online /\ q # p
    /\ HasList(p) => q \notin list[p].f \cup list[p].b /\ Cardinality(list[p].f) < FriendListSize
    /\ Between(p, q) = {}
    /\ HasList(q) => p \notin list[q].b
    /\ reqs' = reqs \cup {[src |-> p, tgt |-> q, st |-> "sent"]}
    /\ UNCHANGED <<cached, online, list, rows, tables, past>>

\* What is known of the number of friends of q, who may not be in memory.
FriendSize(q) ==
    IF q \notin cached THEN Cardinality(Accepted(q))
    ELSE Cardinality(ListOf(q).f)

\* p accepts the request of q.  Lists are changed and saved where they are
\* in memory; the limit is checked for q only.
Accept(p, q) ==
    LET req     == [src |-> q, tgt |-> p, st |-> "sent"]
        with(x) == [ListOf(x) EXCEPT !.f = @ \cup ({p, q} \ {x})]
        who     == {p} \cup ({q} \cap cached)
    IN  /\ p \in online
        /\ req \in reqs
        /\ q \notin ListOf(p).b /\ p \notin ListOf(q).b
        /\ FriendSize(q) < FriendListSize
        /\ reqs' = (reqs \ {req}) \cup {[req EXCEPT !.st = "accepted"]}
        /\ list' = [x \in Player |-> IF x \in who THEN Saved(x, with(x)) ELSE list[x]]
        /\ rows' = [x \in Player |-> IF x \in who THEN RowsWith(x, with(x)) ELSE rows[x]]
        /\ UNCHANGED <<cached, online, tables, past>>

\* p rejects the request of q.
Reject(p, q) ==
    /\ p \in online
    /\ [src |-> q, tgt |-> p, st |-> "sent"] \in reqs
    /\ q \notin ListOf(p).b
    /\ reqs' = reqs \ Between(p, q)
    /\ UNCHANGED <<cached, online, list, rows, tables, past>>

\* The request goes, and with it the friend in both lists as far as they
\* are in memory.  Nothing is saved.  Without a list of its own p fails at
\* once; if q is in memory without a list the handler fails at the end.
DeleteFriend(p, q) ==
    /\ p \in online /\ HasList(p)
    /\ Between(p, q) # {}
    /\ reqs' = reqs \ Between(p, q)
    /\ list' = [list EXCEPT ![p] = Without(p, q), ![q] = Without(q, p)]
    /\ UNCHANGED <<cached, online, rows, tables, past>>

\* A friend is deleted first, which fails if it is in memory without a
\* list: then q is neither a friend nor on the black list.
AddFriend2BlackList(p, q) ==
    LET req   == IF q \in ListOf(p).f THEN Between(p, q) ELSE {}
        mine  == [ListOf(p) EXCEPT !.f = @ \ {q}]
        black == [mine EXCEPT !.b = @ \cup {q}]
        fails == req # {} /\ q \in cached /\ ~HasList(q)
        left  == IF req # {} THEN [list EXCEPT ![q] = Without(q, p)] ELSE list
    IN  /\ p \in online
        /\ HasList(p) => Cardinality(list[p].b) < BlackListSize
        /\ reqs' = reqs \ req
        /\ list' = [left EXCEPT ![p] = IF fails THEN mine ELSE Saved(p, black)]
        /\ rows' = IF fails THEN rows ELSE [rows EXCEPT ![p] = RowsWith(p, black)]
        /\ UNCHANGED <<cached, online, tables, past>>

\* Mutant: the list is not saved.
AddRemoveFromBlackList_NotSaved(p, q) ==
    /\ p \in online /\ HasList(p)
    /\ list' = [list EXCEPT ![p].b = @ \ {q}]
    /\ UNCHANGED <<cached, online, rows, reqs, tables, past>>

AddRemoveFromBlackList(p, q) ==
    LET mine == [list[p] EXCEPT !.b = @ \ {q}]
    IN  /\ p \in online /\ HasList(p)
        /\ list' = [list EXCEPT ![p] = Saved(p, mine)]
        /\ rows' = [rows EXCEPT ![p] = RowsWith(p, mine)]
        /\ UNCHANGED <<cached, online, reqs, tables, past>>

\* A private message to q.  addNearChat creates the list of q or, if q is
\* not in memory, of p, and fails before it is saved: nearCharPlayer.remove
\* takes the player id for an index.
PrivateMsg(p, q) ==
    LET who == IF q \in cached THEN q ELSE p
    IN  /\ p \in online
        /\ p \notin ListOf(q).b
        /\ list' = [list EXCEPT ![who] = ListOf(who)]
        /\ UNCHANGED <<cached, online, rows, reqs, tables, past>>

-----------------------------------------------------------------------------
\* Players in memory

\* Mutant: the player need not be loaded.
Enter_NotLoaded(p) ==
    /\ p \notin online
    /\ online' = online \cup {p}
    /\ UNCHANGED <<cached, list, rows, reqs, tables, past>>

\* A player in memory enters; one who is not is loaded first.
Enter(p) ==
    /\ p \in cached \ online
    /\ online' = online \cup {p}
    /\ UNCHANGED <<cached, list, rows, reqs, tables, past>>

\* The list is saved with the player.
Offline(p) ==
    /\ p \in online
    /\ online' = online \ {p}
    /\ list' = IF HasList(p) THEN [list EXCEPT ![p] = Saved(p, @)] ELSE list
    /\ rows' = IF HasList(p) THEN [rows EXCEPT ![p] = RowsWith(p, list[p])] ELSE rows
    /\ UNCHANGED <<cached, reqs, tables, past>>

\* A player who is offline expires, two hours after its last use: what it
\* has saved is in the database by then.
Expire(p) ==
    /\ p \in cached \ online
    /\ dbRows[p] = rows[p]
    /\ cached' = cached \ {p}
    /\ list' = [list EXCEPT ![p] = NoList]
    /\ UNCHANGED <<online, rows, reqs, tables, past>>

\* Mutant: accepted friends are not checked against the black list.
Built_Unchecked(p) ==
    IF rows[p] = <<>> THEN NoList
    ELSE LET row == rows[p][1]
         IN  [row |-> 1, f |-> row.f \cup Accepted(p), b |-> row.b, whole |-> TRUE]

\* Mutant: accepted friends are not added.
Built_RowOnly(p) ==
    IF rows[p] = <<>> THEN NoList
    ELSE LET row == rows[p][1] IN [row |-> 1, f |-> row.f, b |-> row.b, whole |-> TRUE]

\* The list buildAsLoad makes: the first row, with the friends accepted
\* meanwhile.  Without a row there is no list, whatever was accepted.
Built(p) ==
    IF rows[p] = <<>> THEN NoList
    ELSE LET row == rows[p][1]
         IN  [row |-> 1, f |-> row.f \cup (Accepted(p) \ row.b), b |-> row.b, whole |-> TRUE]

\* The requests buildAsLoad deletes (checkAndRemoveReq): those from and to
\* players on the black list.
Gone(p) == IF rows[p] = <<>> THEN {} ELSE UNION {Between(p, q) : q \in rows[p][1].b}

\* A player is loaded on the game thread, to enter or for somebody else
\* (loadSuc, FriendsBOImpl.fight): built and cached in one task.
Load(p) ==
    /\ p \notin cached
    /\ cached' = cached \cup {p}
    /\ reqs' = reqs \ Gone(p)
    /\ list' = [list EXCEPT ![p] = Built(p)]
    /\ UNCHANGED <<online, rows, tables, past>>

\* The bound on restarts and queries, which spoil what they meet.
MoreFaults ==
    /\ restarts < MaxFaults
    /\ \A p \in Player : restarts + Cardinality(built) + overtaken[p] < MaxFaults

\* queryPlayerByPID: the database thread finds the player not cached and
\* builds it ...
QueryBuilds(p) ==
    /\ p \notin cached
    /\ MoreFaults
    /\ reqs' = reqs \ Gone(p)
    /\ built' = built \cup {<<p, Built(p)>>}
    /\ UNCHANGED <<cached, online, list, rows, tables, overtaken, restarts>>

\* A load would not build this list now, or would delete a request.
Overtaken(p, l) == l # Built(p) \/ Gone(p) # {}

\* ... and puts it into the cache, whatever has been saved or accepted and
\* whoever is cached by now.
QueryLoaded(p, l) ==
    /\ <<p, l>> \in built
    /\ built' = built \ {<<p, l>>}
    /\ cached' = cached \cup {p}
    /\ list' = [list EXCEPT ![p] = IF l = NoList THEN l ELSE [l EXCEPT !.whole = ~Overtaken(p, l)]]
    /\ overtaken' = IF Overtaken(p, l) THEN [overtaken EXCEPT ![p] = @ + 1] ELSE overtaken
    /\ UNCHANGED <<online, rows, reqs, tables, restarts>>

-----------------------------------------------------------------------------
\* The database

\* DataQuartzJob, every second, writes what the DAOs have saved and deletes
\* what they have deleted: the rows of a player ...
FlushList(p) ==
    /\ dbRows[p] # rows[p]
    /\ dbRows' = [dbRows EXCEPT ![p] = rows[p]]
    /\ UNCHANGED <<memory, dbReqs, past>>

\* ... and the request between two.
FlushRequest(p, q) ==
    /\ DbBetween(p, q) # Between(p, q)
    /\ dbReqs' = (dbReqs \ DbBetween(p, q)) \cup Between(p, q)
    /\ UNCHANGED <<memory, dbRows, past>>

\* The server breaks down, or stops (then everything has been flushed), and
\* starts: requests and players are read from the database, all players are
\* in memory, without lists.
Restart ==
    /\ MoreFaults
    /\ restarts' = restarts + 1
    /\ cached' = Player /\ online' = {}
    /\ list' = [p \in Player |-> NoList]
    /\ rows' = dbRows /\ reqs' = dbReqs
    /\ built' = {}
    /\ UNCHANGED <<tables, overtaken>>

\* The players a request of p may name.
Named(p) == IF OwnId THEN Player ELSE Player \ {p}

Next ==
    \/ \E p \in Player : \E q \in Named(p) :
          \/ AddNewFriend(p, q) \/ Accept(p, q) \/ Reject(p, q)
          \/ DeleteFriend(p, q)
          \/ AddFriend2BlackList(p, q) \/ AddRemoveFromBlackList(p, q)
          \/ PrivateMsg(p, q)
          \/ FlushRequest(p, q)
    \/ \E p \in Player :
          \/ Enter(p) \/ Offline(p) \/ Expire(p) \/ Load(p)
          \/ QueryBuilds(p) \/ \E l \in {e[2] : e \in built} : QueryLoaded(p, l)
          \/ FlushList(p)
    \/ Restart

Spec == Init /\ [][Next]_vars

-----------------------------------------------------------------------------
\* Properties

\* State space of the lists, their rows and the requests: every restart and
\* every query overtaken costs a player at most one more row (the row a list
\* is first saved as).
TypeOK ==
    /\ cached \subseteq Player /\ online \subseteq cached
    /\ restarts \in 0..MaxFaults
    /\ overtaken \in [Player -> Nat]
    /\ reqs \subseteq Request /\ dbReqs \subseteq Request
    /\ list \in [Player -> List \cup {NoList}]
    /\ built \subseteq Player \X (List \cup {NoList})
    /\ rows \in [Player -> Seq(Row)] /\ dbRows \in [Player -> Seq(Row)]
    /\ \A p \in Player :
          /\ Len(rows[p]) <= 1 + restarts + overtaken[p]
          /\ Len(dbRows[p]) <= 1 + restarts + overtaken[p]
          /\ HasList(p) => p \in cached /\ list[p].row <= Len(rows[p])

\* Two players share at most one request, in one direction and status,
\* however requests, answers and deletions of both interleave
\* (addNewFriend, CacheFriendReq.statusChg).
OneRequest == \A p, q \in Player : Cardinality(Between(p, q)) <= 1

\* Nobody is on the friend list and on the black list of a player, neither
\* in memory nor in a row: also not when a request was accepted while the
\* player who black-listed the other was not in memory (the removal at
\* FriendsBOImpl.buildAsLoad).
NeverBoth ==
    \A p \in Player :
        /\ HasList(p) => list[p].f \cap list[p].b = {}
        /\ \A i \in DOMAIN rows[p] : rows[p][i].f \cap rows[p][i].b = {}

\* A list that was read from its row, or created when nothing had been
\* accepted, holds the partner of every accepted request, also of those
\* accepted while the player was away (buildAsLoad, addNewFriendFeedback)
\* and after a crash.  The one exception is a list built for a query that
\* reaches the cache when a load would build another one.
AcceptedAreFriends ==
    \A p \in Player : HasList(p) /\ list[p].whole => Accepted(p) \subseteq list[p].f

\* What p has saved is in the database.
Flushed(p) == dbRows[p] = rows[p] /\ \A q \in Player : DbBetween(p, q) = Between(p, q)

\* No restart and no query has put two lists of a player at odds.
Quiet == restarts = 0 /\ \A p \in Player : overtaken[p] = 0

\* The friends a load after a crash would find.
Reloaded(p) == LET row == dbRows[p][1] IN row.f \cup (DbAccepted(p) \ row.b)

\* What a crash leaves of a list once its saves have been flushed: the black
\* list in memory is the one in its row of the database, and before the first
\* restart and the first query overtaken the next load finds every friend, in
\* the row or in an accepted request (removals of friends are saved late,
\* additions when they are made).  A list never saved is empty.
CrashLosesNoEntry ==
    \A p \in Player :
        HasList(p) /\ overtaken[p] = 0 /\ Flushed(p) =>
            IF list[p].row = 0 THEN list[p].f = {} /\ list[p].b = {}
            ELSE /\ list[p].b = dbRows[p][list[p].row].b
                 /\ Quiet => list[p].row = 1 /\ list[p].f \subseteq Reloaded(p)
=============================================================================
