--------------------------- MODULE FriendsProofs ----------------------------
(***************************************************************************)
(* Proofs about Friends for any set of players, list sizes and number of   *)
(* restarts and queries: types, one request between two players, disjoint  *)
(* lists, complete lists, and what a crash leaves of a list.               *)
(*                                                                         *)
(* The invariant has four layers, each resting on those before it.  Types  *)
(* need Unsaved (a list that will become a new row finds room for it) and  *)
(* Waiting (a list built for a query is in the first row); the crash       *)
(* property needs Kept (before the first restart and the first query       *)
(* overtaken one of two accepted friends has the other in its row and in   *)
(* its list, so that a request removed by the load of the other takes      *)
(* nothing away).                                                          *)
(***************************************************************************)
EXTENDS Friends, FiniteSetTheorems, SequenceTheorems, TLAPS

USE DEF tables, memory, past

\* A list that is not in a row, or not made yet, will be the next row.
Unsaved ==
    \A p \in cached : ~HasList(p) \/ list[p].row = 0 => Len(rows[p]) <= restarts + overtaken[p]

\* A list built for a query, and not in the cache yet, is in the first row.
Waiting == \A e \in built : e[2] # NoList => e[2].row = 1 /\ rows[e[1]] # <<>>

\* Two players share one request, and nobody sends one to itself.
Paired(rs) ==
    /\ \A r \in rs : r.src # r.tgt
    /\ \A r, s \in rs : {r.src, r.tgt} = {s.src, s.tgt} => r = s

\* Neither in memory nor in the database.
Distinct == Paired(reqs) /\ Paired(dbReqs)

\* p has q as a friend in its row and, if it is in memory, in its list.
Holds(p, q) ==
    /\ rows[p] # <<>> /\ q \in rows[p][1].f
    /\ HasList(p) => q \in list[p].f

Kept == Quiet => \A p \in Player : \A q \in Accepted(p) : Holds(p, q) \/ Holds(q, p)

-----------------------------------------------------------------------------
\* Lists and rows

\* The list of a player, made if need be, is a list and fits its rows.
LEMMA ListOfType ==
    ASSUME TypeOK, NEW p \in Player
    PROVE  /\ ListOf(p) \in List
           /\ ListOf(p).row <= Len(rows[p])
           /\ HasList(p) => ListOf(p) = list[p]
           /\ ~HasList(p) => /\ ListOf(p).row = 0 /\ ListOf(p).f = {} /\ ListOf(p).b = {}
                             /\ ListOf(p).whole = (Accepted(p) = {})
<1>1. CASE HasList(p)
  BY <1>1 DEF TypeOK, ListOf, HasList
<1>2. CASE ~HasList(p)
  <2>1. ListOf(p) = [row |-> 0, f |-> {}, b |-> {}, whole |-> Accepted(p) = {}]
    BY <1>2 DEF ListOf
  <2>2. Len(rows[p]) \in Nat
    BY DEF TypeOK
  <2>3. (Accepted(p) = {}) \in BOOLEAN
    OBVIOUS
  <2>4. ListOf(p) \in List
    BY <2>1, <2>3 DEF List
  <2> QED
    BY <1>2, <2>1, <2>2, <2>4
<1> QED
  BY <1>1, <1>2

\* A save puts the list into its row, or into a new one, and touches no other.
LEMMA SaveEffect ==
    ASSUME NEW p \in Player, rows[p] \in Seq(Row), NEW l \in List, l.row <= Len(rows[p])
    PROVE  /\ Saved(p, l) \in List
           /\ Saved(p, l).f = l.f /\ Saved(p, l).b = l.b /\ Saved(p, l).whole = l.whole
           /\ RowsWith(p, l) \in Seq(Row)
           /\ Saved(p, l).row \in 1..Len(RowsWith(p, l))
           /\ RowsWith(p, l)[Saved(p, l).row] = [f |-> l.f, b |-> l.b]
           /\ l.row = 0 => Len(RowsWith(p, l)) = Len(rows[p]) + 1
           /\ l.row # 0 => Len(RowsWith(p, l)) = Len(rows[p])
           /\ \A i \in 1..Len(rows[p]) : i # Saved(p, l).row => RowsWith(p, l)[i] = rows[p][i]
<1> DEFINE e == [f |-> l.f, b |-> l.b]
<1>1. e \in Row /\ l.row \in Nat
  BY DEF List, Row
<1>2. CASE l.row = 0
  <2>1. RowsWith(p, l) = Append(rows[p], e) /\ Saved(p, l) = [l EXCEPT !.row = Len(rows[p]) + 1]
    BY <1>2 DEF RowsWith, Saved
  <2>2. /\ Append(rows[p], e) \in Seq(Row)
        /\ Len(Append(rows[p], e)) = Len(rows[p]) + 1
        /\ \A i \in 1..Len(rows[p]) : Append(rows[p], e)[i] = rows[p][i]
        /\ Append(rows[p], e)[Len(rows[p]) + 1] = e
    BY <1>1
  <2>3. Len(rows[p]) + 1 \in Nat /\ Len(rows[p]) + 1 \in 1..(Len(rows[p]) + 1)
    OBVIOUS
  <2>4. /\ Saved(p, l) \in List /\ Saved(p, l).row = Len(rows[p]) + 1
        /\ Saved(p, l).f = l.f /\ Saved(p, l).b = l.b /\ Saved(p, l).whole = l.whole
    BY <2>1, <2>3 DEF List
  <2> QED
    BY <1>2, <2>1, <2>2, <2>3, <2>4
<1>3. CASE l.row # 0
  <2>1. RowsWith(p, l) = [rows[p] EXCEPT ![l.row] = e] /\ Saved(p, l) = l
    BY <1>3 DEF RowsWith, Saved
  <2>2. l.row \in 1..Len(rows[p])
    BY <1>1, <1>3
  <2>3. /\ RowsWith(p, l) \in Seq(Row)
        /\ Len(RowsWith(p, l)) = Len(rows[p])
        /\ RowsWith(p, l)[l.row] = e
        /\ \A i \in 1..Len(rows[p]) : i # l.row => RowsWith(p, l)[i] = rows[p][i]
    BY <1>1, <2>1, <2>2
  <2> QED
    BY <1>3, <2>1, <2>2, <2>3
<1> QED
  BY <1>2, <1>3

LEMMA WithoutType ==
    ASSUME TypeOK, NEW p \in Player, NEW q \in Player
    PROVE  /\ Without(p, q) \in List \cup {NoList}
           /\ HasList(p) <=> Without(p, q) # NoList
           /\ HasList(p) => /\ Without(p, q).row = list[p].row /\ Without(p, q).b = list[p].b
                            /\ Without(p, q).f = list[p].f \ {q}
                            /\ Without(p, q).whole = list[p].whole
<1>1. CASE HasList(p)
  <2>1. list[p] \in List
    BY <1>1 DEF TypeOK, HasList
  <2>2. Without(p, q) = [list[p] EXCEPT !.f = @ \ {q}]
    BY <1>1 DEF Without
  <2>3. Without(p, q) \in List
    BY <2>1, <2>2 DEF List
  <2> QED
    BY <1>1, <2>1, <2>2, <2>3, FriendsAssumption DEF List
<1>2. CASE ~HasList(p)
  BY <1>2 DEF Without
<1> QED
  BY <1>1, <1>2

-----------------------------------------------------------------------------
\* Requests

\* Two sets of two are equal one way round or the other.
LEMMA SamePair ==
    ASSUME NEW a, NEW b, NEW c, NEW d
    PROVE  {a, b} = {c, d} <=> (a = c /\ b = d) \/ (a = d /\ b = c)
  OBVIOUS

LEMMA BetweenElements ==
    ASSUME NEW p, NEW q, NEW r
    PROVE  r \in Between(p, q) <=>
              /\ r \in reqs
              /\ (r.src = p /\ r.tgt = q) \/ (r.src = q /\ r.tgt = p)
  BY SamePair DEF Between

\* y is an accepted friend of x.
LEMMA AcceptedElements ==
    ASSUME NEW x, NEW y
    PROVE  y \in Accepted(x) <=>
              /\ y \in Player
              /\ \E r \in reqs : /\ r.st = "accepted"
                                 /\ (r.src = x /\ r.tgt = y) \/ (r.src = y /\ r.tgt = x)
  BY BetweenElements DEF Accepted

\* The same in the next state.
LEMMA AcceptedNext ==
    ASSUME NEW x, NEW y
    PROVE  y \in Accepted(x)' <=>
              /\ y \in Player
              /\ \E r \in reqs' : /\ r.st = "accepted"
                                  /\ (r.src = x /\ r.tgt = y) \/ (r.src = y /\ r.tgt = x)
<1>1. \A r : r \in Between(x, y)' <=>
              /\ r \in reqs'
              /\ (r.src = x /\ r.tgt = y) \/ (r.src = y /\ r.tgt = x)
  BY SamePair DEF Between
<1> QED
  BY <1>1 DEF Accepted

\* Requests that are not accepted do not matter.
LEMMA AcceptedSame ==
    ASSUME \A r : r.st = "accepted" => (r \in reqs' <=> r \in reqs)
    PROVE  \A x : Accepted(x)' = Accepted(x)
<1> SUFFICES ASSUME NEW x, NEW y PROVE y \in Accepted(x)' <=> y \in Accepted(x)
  OBVIOUS
<1> QED
  BY AcceptedElements, AcceptedNext

\* What the removal of the request between p and q takes away.
LEMMA AcceptedRemoved ==
    ASSUME NEW p, NEW q, reqs' = reqs \ Between(p, q)
    PROVE  /\ Accepted(p)' = Accepted(p) \ {q}
           /\ Accepted(q)' = Accepted(q) \ {p}
           /\ \A x : x \notin {p, q} => Accepted(x)' = Accepted(x)
<1>1. ASSUME NEW x, NEW y
      PROVE  y \in Accepted(x)' <=> y \in Accepted(x) /\ ~((x = p /\ y = q) \/ (x = q /\ y = p))
  BY AcceptedElements, AcceptedNext, BetweenElements
<1>2. Accepted(p)' = Accepted(p) \ {q}
  BY <1>1
<1>3. Accepted(q)' = Accepted(q) \ {p}
  BY <1>1
<1>4. ASSUME NEW x, x \notin {p, q} PROVE Accepted(x)' = Accepted(x)
  BY <1>1, <1>4
<1> QED
  BY <1>2, <1>3, <1>4

\* What accepting the request of q to p adds.
LEMMA AcceptedAdded ==
    ASSUME NEW p \in Player, NEW q \in Player, Accept(p, q)
    PROVE  /\ Accepted(p)' = Accepted(p) \cup {q}
           /\ Accepted(q)' = Accepted(q) \cup {p}
           /\ \A x : x \notin {p, q} => Accepted(x)' = Accepted(x)
<1> DEFINE req == [src |-> q, tgt |-> p, st |-> "sent"]
           new == [src |-> q, tgt |-> p, st |-> "accepted"]
<1>1. reqs' = (reqs \ {req}) \cup {new}
  BY DEF Accept
<1>2. ASSUME NEW x, NEW y
      PROVE  y \in Accepted(x)' <=> y \in Accepted(x) \/ (x = p /\ y = q) \/ (x = q /\ y = p)
  <2>1. \A r : r \in reqs' <=> (r \in reqs /\ r # req) \/ r = new
    BY <1>1
  <2>2. req.st = "sent" /\ new.st = "accepted" /\ new.src = q /\ new.tgt = p
    OBVIOUS
  <2> HIDE DEF req, new
  <2> QED
    BY <2>1, <2>2, AcceptedElements, AcceptedNext
<1> HIDE DEF req, new
<1>3. Accepted(p)' = Accepted(p) \cup {q}
  BY <1>2
<1>4. Accepted(q)' = Accepted(q) \cup {p}
  BY <1>2
<1>5. ASSUME NEW x, x \notin {p, q} PROVE Accepted(x)' = Accepted(x)
  BY <1>2, <1>5
<1> QED
  BY <1>3, <1>4, <1>5

\* The load of p removes the requests between p and its black list.
LEMMA AcceptedLoaded ==
    ASSUME TypeOK, NEW p \in Player, rows[p] # <<>>, reqs' = reqs \ Gone(p)
    PROVE  /\ Accepted(p)' = Accepted(p) \ rows[p][1].b
           /\ \A x : x # p =>
                 Accepted(x)' = IF x \in rows[p][1].b THEN Accepted(x) \ {p} ELSE Accepted(x)
<1> DEFINE b == rows[p][1].b
<1>1. \A r : r \in reqs' <=>
               r \in reqs /\ ~ \E q \in b : (r.src = p /\ r.tgt = q) \/ (r.src = q /\ r.tgt = p)
  <2>1. reqs' = reqs \ UNION {Between(p, q) : q \in b}
    BY DEF Gone
  <2> QED
    BY <2>1, BetweenElements
<1>2. ASSUME NEW x, NEW y
      PROVE  y \in Accepted(x)' <=> y \in Accepted(x) /\ ~((x = p /\ y \in b) \/ (y = p /\ x \in b))
  BY <1>1, AcceptedElements, AcceptedNext
<1> HIDE DEF b
<1>3. ASSUME NEW x, x # p
      PROVE  Accepted(x)' = IF x \in b THEN Accepted(x) \ {p} ELSE Accepted(x)
  <2>1. CASE x \in b
    <3>1. Accepted(x)' = Accepted(x) \ {p}
      BY <1>2, <1>3, <2>1
    <3> QED
      BY <2>1, <3>1
  <2>2. CASE x \notin b
    <3>1. \A y : y \in Accepted(x)' <=> y \in Accepted(x)
      BY <1>2, <1>3, <2>2
    <3>2. Accepted(x)' = Accepted(x)
      BY <3>1
    <3> QED
      BY <2>2, <3>2
  <2> QED
    BY <2>1, <2>2
<1>4. Accepted(p)' = Accepted(p) \ b
  BY <1>2
<1> QED
  BY <1>3, <1>4 DEF b

LEMMA AcceptedSymmetric ==
    ASSUME TypeOK, NEW x \in Player, NEW y \in Accepted(x)
    PROVE  x \in Accepted(y)
  BY AcceptedElements

\* Requests come with addNewFriend, change with their acceptance, go, and
\* after a crash are those of the database, where they come from memory.
LEMMA RequestMoves ==
    ASSUME TypeOK, [Next]_vars
    PROVE  \/ reqs' \subseteq reqs /\ dbReqs' = dbReqs
           \/ reqs' = dbReqs /\ dbReqs' = dbReqs
           \/ \E p, q \in Player : AddNewFriend(p, q) \/ Accept(p, q) \/ FlushRequest(p, q)
<1> DEFINE Goal == \/ reqs' \subseteq reqs /\ dbReqs' = dbReqs
                   \/ reqs' = dbReqs /\ dbReqs' = dbReqs
                   \/ \E p, q \in Player : AddNewFriend(p, q) \/ Accept(p, q) \/ FlushRequest(p, q)
<1>1. ASSUME NEW p \in Player, NEW q \in Player,
             \/ Reject(p, q) \/ DeleteFriend(p, q) \/ AddFriend2BlackList(p, q)
             \/ AddRemoveFromBlackList(p, q) \/ PrivateMsg(p, q)
      PROVE  Goal
  BY <1>1 DEF Reject, DeleteFriend, AddFriend2BlackList, AddRemoveFromBlackList, PrivateMsg
<1>2. ASSUME NEW p \in Player, Enter(p) \/ Offline(p) \/ Expire(p) \/ Load(p) \/ FlushList(p)
      PROVE  Goal
  BY <1>2 DEF Enter, Offline, Expire, Load, FlushList
<1>3. ASSUME NEW p \in Player, QueryBuilds(p) \/ \E l \in {e[2] : e \in built} : QueryLoaded(p, l)
      PROVE  Goal
  BY <1>3 DEF QueryBuilds, QueryLoaded
<1>4. CASE Restart \/ UNCHANGED vars
  BY <1>4 DEF Restart, vars
<1> QED
  BY <1>1, <1>2, <1>3, <1>4 DEF Next, Named

LEMMA RequestTypes == TypeOK /\ [Next]_vars => reqs' \subseteq Request /\ dbReqs' \subseteq Request
<1> SUFFICES ASSUME TypeOK, [Next]_vars PROVE reqs' \subseteq Request /\ dbReqs' \subseteq Request
  OBVIOUS
<1>1. ASSUME NEW p \in Player, NEW q \in Player, AddNewFriend(p, q) \/ Accept(p, q)
      PROVE  reqs' \subseteq Request /\ dbReqs' \subseteq Request
  <2>1. \A st \in {"sent", "accepted"} :
           [src |-> p, tgt |-> q, st |-> st] \in Request /\ [src |-> q, tgt |-> p, st |-> st] \in Request
    BY DEF Request
  <2>2. \E r \in Request : reqs' \subseteq reqs \cup {r}
    BY <1>1, <2>1 DEF AddNewFriend, Accept
  <2>3. dbReqs' = dbReqs
    BY <1>1 DEF AddNewFriend, Accept
  <2> QED
    BY <2>2, <2>3 DEF TypeOK
<1>2. ASSUME NEW p \in Player, NEW q \in Player, FlushRequest(p, q)
      PROVE  reqs' \subseteq Request /\ dbReqs' \subseteq Request
  BY <1>2 DEF FlushRequest, Between, TypeOK
<1> QED
  BY <1>1, <1>2, RequestMoves DEF TypeOK

LEMMA DistinctStep == TypeOK /\ Distinct /\ [Next]_vars => Distinct'
<1> SUFFICES ASSUME TypeOK, Distinct, [Next]_vars PROVE Paired(reqs') /\ Paired(dbReqs')
  BY DEF Distinct
<1>1. CASE reqs' \subseteq reqs /\ dbReqs' = dbReqs
  BY <1>1 DEF Distinct, Paired
<1>2. CASE reqs' = dbReqs /\ dbReqs' = dbReqs
  BY <1>2 DEF Distinct
<1>3. ASSUME NEW p \in Player, NEW q \in Player, AddNewFriend(p, q)
      PROVE  Paired(reqs') /\ Paired(dbReqs')
  <2> DEFINE new == [src |-> p, tgt |-> q, st |-> "sent"]
  <2>1. reqs' = reqs \cup {new} /\ p # q /\ dbReqs' = dbReqs
    BY <1>3 DEF AddNewFriend
  <2>2. \A r \in reqs : {r.src, r.tgt} # {p, q}
    BY <1>3 DEF AddNewFriend, Between
  <2>3. new.src = p /\ new.tgt = q
    OBVIOUS
  <2> HIDE DEF new
  <2>4. Paired(reqs')
    BY <2>1, <2>2, <2>3 DEF Distinct, Paired
  <2> QED
    BY <2>1, <2>4 DEF Distinct
<1>4. ASSUME NEW p \in Player, NEW q \in Player, Accept(p, q)
      PROVE  Paired(reqs') /\ Paired(dbReqs')
  <2> DEFINE req == [src |-> q, tgt |-> p, st |-> "sent"]
             new == [src |-> q, tgt |-> p, st |-> "accepted"]
  <2>1. reqs' = (reqs \ {req}) \cup {new} /\ req \in reqs /\ dbReqs' = dbReqs
    BY <1>4 DEF Accept
  <2>2. req.src = q /\ req.tgt = p /\ new.src = q /\ new.tgt = p
    OBVIOUS
  <2> HIDE DEF req, new
  <2>3. q # p /\ \A r \in reqs \ {req} : {r.src, r.tgt} # {q, p}
    BY <2>1, <2>2 DEF Distinct, Paired
  <2>4. Paired(reqs')
    BY <2>1, <2>2, <2>3 DEF Distinct, Paired
  <2> QED
    BY <2>1, <2>4 DEF Distinct
<1>5. ASSUME NEW p \in Player, NEW q \in Player, FlushRequest(p, q)
      PROVE  Paired(reqs') /\ Paired(dbReqs')
  <2>1. reqs' = reqs /\ dbReqs' = (dbReqs \ DbBetween(p, q)) \cup Between(p, q)
    BY <1>5 DEF FlushRequest
  <2>2. \A r \in dbReqs' : \/ r \in dbReqs /\ {r.src, r.tgt} # {p, q}
                           \/ r \in reqs /\ {r.src, r.tgt} = {p, q}
    BY <2>1 DEF Between, DbBetween
  <2>3. \A r \in dbReqs' : r.src # r.tgt
    BY <2>2 DEF Distinct, Paired
  <2>4. \A r, z \in dbReqs' : {r.src, r.tgt} = {z.src, z.tgt} => r = z
    BY <2>2 DEF Distinct, Paired
  <2> QED
    BY <2>1, <2>3, <2>4 DEF Distinct, Paired
<1> QED
  BY <1>1, <1>2, <1>3, <1>4, <1>5, RequestMoves

-----------------------------------------------------------------------------
\* What a step does to the list, the rows and the accepted friends of x

Same(x)      == list'[x] = list[x] /\ rows'[x] = rows[x]
Stores(x, l) == list'[x] = Saved(x, l) /\ rows'[x] = RowsWith(x, l)

\* Nothing, or x is loaded without a row.
Rests(x) ==
    /\ Same(x)
    /\ Accepted(x)' = Accepted(x)
    /\ x \in cached' => x \in cached \/ rows[x] = <<>>

\* x gets the friend y, accepting or being accepted in memory.
Befriends(x, y) ==
    /\ x \in cached /\ y \notin ListOf(x).b
    /\ Stores(x, [ListOf(x) EXCEPT !.f = @ \cup {y}])
    /\ Accepted(x)' = Accepted(x) \cup {y}

\* x, who is not in memory, is accepted by y.
Befriended(x, y) ==
    /\ x \notin cached' /\ Same(x)
    /\ Accepted(x)' = Accepted(x) \cup {y}
    /\ Befriends(y, x)

\* The friendship of x and y ends in memory.
Parts(x, y) ==
    /\ list'[x] = Without(x, y) /\ rows'[x] = rows[x]
    /\ Accepted(x)' = Accepted(x) \ {y}
    /\ x \in cached' => x \in cached

\* x puts y on its black list.
Bans(x, y) ==
    /\ x \in cached
    /\ Stores(x, [ListOf(x) EXCEPT !.f = @ \ {y}, !.b = @ \cup {y}])
    /\ Accepted(x)' = IF y \in ListOf(x).f THEN Accepted(x) \ {y} ELSE Accepted(x)

\* The list of x is saved, with the same friends.
Resaves(x, l) ==
    /\ x \in cached /\ HasList(x)
    /\ l \in List /\ l.row = list[x].row /\ l.whole = list[x].whole
    /\ l.f = list[x].f /\ l.b \subseteq list[x].b
    /\ Stores(x, l)
    /\ Accepted(x)' = Accepted(x)

\* A list is made and not saved.
Makes(x) ==
    /\ x \in cached /\ ~HasList(x)
    /\ list'[x] = ListOf(x) /\ rows'[x] = rows[x]
    /\ Accepted(x)' = Accepted(x)

\* x leaves the memory.
Drops(x) ==
    /\ list'[x] = NoList /\ rows'[x] = rows[x]
    /\ Accepted(x)' = Accepted(x)
    /\ x \notin cached'

\* The server restarts: the rows of x are those of the database.
Returns(x) ==
    /\ list'[x] = NoList /\ rows'[x] = dbRows[x]
    /\ restarts' = restarts + 1 /\ overtaken' = overtaken

\* x is loaded with its first row.
Loads(x) ==
    /\ x \in cached' /\ rows[x] # <<>>
    /\ LET row == rows[x][1]
       IN  /\ list'[x] = [row |-> 1, f |-> row.f \cup (Accepted(x) \ row.b), b |-> row.b, whole |-> TRUE]
           /\ Accepted(x)' = Accepted(x) \ row.b
    /\ rows'[x] = rows[x]

\* x, who is not in memory, is built for a query.
Waits(x) ==
    /\ x \notin cached' /\ Same(x)
    /\ Accepted(x)' \subseteq Accepted(x)

\* The list l built for a query gets x into the cache.
Arrives(x, l) ==
    /\ x \in cached' /\ <<x, l>> \in built
    /\ list'[x] = IF l = NoList THEN l ELSE [l EXCEPT !.whole = ~Overtaken(x, l)]
    /\ rows'[x] = rows[x]
    /\ Accepted(x)' = Accepted(x)
    /\ restarts' = restarts
    /\ overtaken'[x] = IF Overtaken(x, l) THEN overtaken[x] + 1 ELSE overtaken[x]

\* z is loaded, or built for a query, and has x on its black list.
Forgotten(x, z) ==
    /\ Same(x)
    /\ x \in cached' => x \in cached
    /\ rows[z] # <<>> /\ x \in rows[z][1].b
    /\ Accepted(x)' = Accepted(x) \ {z}

Moves(x) ==
    \/ Rests(x) \/ Makes(x) \/ Drops(x) \/ Returns(x) \/ Loads(x) \/ Waits(x)
    \/ \E y \in Player : Befriends(x, y) \/ Befriended(x, y) \/ Parts(x, y) \/ Bans(x, y) \/ Forgotten(x, y)
    \/ \E l \in List : Resaves(x, l)
    \/ \E l \in List \cup {NoList} : Arrives(x, l)

LEMMA AcceptMoves ==
    ASSUME TypeOK, Distinct, NEW p \in Player, NEW q \in Player, Accept(p, q), NEW x \in Player
    PROVE  Moves(x)
<1> DEFINE with(z) == [ListOf(z) EXCEPT !.f = @ \cup ({p, q} \ {z})]
           who     == {p} \cup ({q} \cap cached)
<1>1. /\ list' = [z \in Player |-> IF z \in who THEN Saved(z, with(z)) ELSE list[z]]
      /\ rows' = [z \in Player |-> IF z \in who THEN RowsWith(z, with(z)) ELSE rows[z]]
      /\ q \notin ListOf(p).b /\ p \notin ListOf(q).b
      /\ p \in cached /\ cached' = cached
      /\ [src |-> q, tgt |-> p, st |-> "sent"] \in reqs
  BY DEF Accept, TypeOK
<1>2. p # q
  BY <1>1 DEF Distinct, Paired
<1>3. {p, q} \ {p} = {q} /\ {p, q} \ {q} = {p}
  BY <1>2
<1>4. Befriends(p, q)
  BY <1>1, <1>3, AcceptedAdded DEF Befriends, Stores
<1>5. CASE x = p
  BY <1>4, <1>5 DEF Moves
<1>6. CASE x = q /\ q \in cached
  <2>1. Befriends(q, p)
    BY <1>1, <1>3, <1>6, AcceptedAdded DEF Befriends, Stores
  <2> QED
    BY <1>6, <2>1 DEF Moves
<1>7. CASE x = q /\ q \notin cached
  <2>1. q \notin who
    BY <1>2, <1>7
  <2>2. Same(q)
    BY <1>1, <2>1 DEF Same
  <2>3. Befriended(q, p)
    BY <1>1, <1>4, <1>7, <2>2, AcceptedAdded DEF Befriended
  <2> QED
    BY <1>7, <2>3 DEF Moves
<1>8. CASE x \notin {p, q}
  <2>1. Same(x)
    BY <1>1, <1>8 DEF Same
  <2> QED
    BY <1>1, <1>8, <2>1, AcceptedAdded DEF Rests, Moves
<1> QED
  BY <1>5, <1>6, <1>7, <1>8

LEMMA DeleteMoves ==
    ASSUME TypeOK, NEW p \in Player, NEW q \in Player, DeleteFriend(p, q), NEW x \in Player
    PROVE  Moves(x)
<1>1. /\ list' = [list EXCEPT ![p] = Without(p, q), ![q] = Without(q, p)]
      /\ list \in [Player -> List \cup {NoList}]
      /\ rows' = rows /\ cached' = cached
      /\ reqs' = reqs \ Between(p, q)
  BY DEF DeleteFriend, TypeOK
<1>2. CASE x = q
  BY <1>1, <1>2, AcceptedRemoved DEF Parts, Moves
<1>3. CASE x = p /\ p # q
  BY <1>1, <1>3, AcceptedRemoved DEF Parts, Moves
<1>4. CASE x \notin {p, q}
  BY <1>1, <1>4, AcceptedRemoved DEF Same, Rests, Moves
<1> QED
  BY <1>2, <1>3, <1>4

LEMMA BanMoves ==
    ASSUME TypeOK, NEW p \in Player, NEW q \in Player, AddFriend2BlackList(p, q), NEW x \in Player
    PROVE  Moves(x)
<1> DEFINE req   == IF q \in ListOf(p).f THEN Between(p, q) ELSE {}
           mine  == [ListOf(p) EXCEPT !.f = @ \ {q}]
           black == [mine EXCEPT !.b = @ \cup {q}]
           fails == req # {} /\ q \in cached /\ ~HasList(q)
           left  == IF req # {} THEN [list EXCEPT ![q] = Without(q, p)] ELSE list
<1>1. /\ p \in cached /\ cached' = cached
      /\ reqs' = reqs \ req
      /\ list' = [left EXCEPT ![p] = IF fails THEN mine ELSE Saved(p, black)]
      /\ rows' = IF fails THEN rows ELSE [rows EXCEPT ![p] = RowsWith(p, black)]
      /\ list \in [Player -> List \cup {NoList}] /\ rows \in [Player -> Seq(Row)]
  BY DEF AddFriend2BlackList, TypeOK
<1>2. black = [ListOf(p) EXCEPT !.f = @ \ {q}, !.b = @ \cup {q}]
  BY ListOfType DEF List
<1>3. left \in [Player -> List \cup {NoList}] /\ \A z \in Player \ {q} : left[z] = list[z]
  BY <1>1, WithoutType
<1>4. CASE q \in ListOf(p).f /\ req # {}
  <2>1. req = Between(p, q) /\ HasList(p) /\ mine = Without(p, q)
    BY <1>4, ListOfType DEF Without
  <2>2. Accepted(p)' = Accepted(p) \ {q} /\ Accepted(q)' = Accepted(q) \ {p}
        /\ \A z : z \notin {p, q} => Accepted(z)' = Accepted(z)
    BY <1>1, <2>1, AcceptedRemoved
  <2>3. CASE x = p
    <3>1. CASE fails
      <4>1. Parts(p, q)
        BY <1>1, <1>3, <2>1, <2>2, <3>1 DEF Parts
      <4> QED
        BY <2>3, <4>1 DEF Moves
    <3>2. CASE ~fails
      <4>1. Bans(p, q)
        BY <1>1, <1>2, <1>3, <1>4, <2>2, <3>2 DEF Bans, Stores
      <4> QED
        BY <2>3, <4>1 DEF Moves
    <3> QED
      BY <3>1, <3>2
  <2>4. CASE x = q /\ q # p
    <3>1. list'[q] = Without(q, p) /\ rows'[q] = rows[q]
      BY <1>1, <1>3, <1>4, <2>4
    <3> QED
      BY <1>1, <2>2, <2>4, <3>1 DEF Parts, Moves
  <2>5. CASE x \notin {p, q}
    <3>1. list'[x] = list[x] /\ rows'[x] = rows[x]
      BY <1>1, <1>3, <2>5
    <3> QED
      BY <1>1, <2>2, <2>5, <3>1 DEF Same, Rests, Moves
  <2> QED
    BY <2>3, <2>4, <2>5
<1>5. CASE ~(q \in ListOf(p).f /\ req # {})
  <2>1. req = {} /\ ~fails /\ left = list
    BY <1>5
  <2>2. reqs' = reqs
    BY <1>1, <2>1
  <2>3. \A z : Accepted(z)' = Accepted(z)
    BY <2>2, AcceptedSame
  <2>4. CASE x = p
    <3>1. q \in ListOf(p).f => Accepted(p) \ {q} = Accepted(p)
      BY <1>5 DEF Accepted
    <3>2. Bans(p, q)
      BY <1>1, <1>2, <2>1, <2>3, <3>1 DEF Bans, Stores
    <3> QED
      BY <2>4, <3>2 DEF Moves
  <2>5. CASE x # p
    <3>1. list'[x] = list[x] /\ rows'[x] = rows[x]
      BY <1>1, <2>1, <2>5
    <3> QED
      BY <1>1, <2>3, <3>1 DEF Same, Rests, Moves
  <2> QED
    BY <2>4, <2>5
<1> QED
  BY <1>4, <1>5

\* Who is on the black list of p loses the request, nobody else does.
LEMMA OthersForgotten ==
    ASSUME TypeOK, NEW p \in Player, reqs' = reqs \ Gone(p), NEW x \in Player, x # p,
           Same(x), x \in cached' => x \in cached
    PROVE  Moves(x)
<1>1. CASE rows[p] = <<>>
  <2>1. Accepted(x)' = Accepted(x)
    BY <1>1, AcceptedSame DEF Gone
  <2> QED
    BY <2>1 DEF Rests, Moves
<1>2. CASE rows[p] # <<>> /\ x \in rows[p][1].b
  <2>1. Accepted(x)' = Accepted(x) \ {p}
    BY <1>2, AcceptedLoaded
  <2>2. Forgotten(x, p)
    BY <1>2, <2>1 DEF Forgotten
  <2> QED
    BY <2>2 DEF Moves
<1>3. CASE rows[p] # <<>> /\ x \notin rows[p][1].b
  <2>1. Accepted(x)' = Accepted(x)
    BY <1>3, AcceptedLoaded
  <2> QED
    BY <2>1 DEF Rests, Moves
<1> QED
  BY <1>1, <1>2, <1>3

LEMMA LoadMoves ==
    ASSUME TypeOK, NEW p \in Player, Load(p), NEW x \in Player
    PROVE  Moves(x)
<1>1. /\ cached' = cached \cup {p} /\ rows' = rows /\ reqs' = reqs \ Gone(p)
      /\ list' = [list EXCEPT ![p] = Built(p)] /\ list \in [Player -> List \cup {NoList}]
      /\ list[p] = NoList
  BY DEF Load, TypeOK, HasList
<1>2. CASE x # p
  BY <1>1, <1>2, OthersForgotten DEF Same
<1>3. CASE x = p /\ rows[p] = <<>>
  <2>1. Accepted(x)' = Accepted(x)
    BY <1>1, <1>3, AcceptedSame DEF Gone
  <2> QED
    BY <1>1, <1>3, <2>1 DEF Built, Same, Rests, Moves
<1>4. CASE x = p /\ rows[p] # <<>>
  <2>1. Accepted(p)' = Accepted(p) \ rows[p][1].b
    BY <1>1, <1>4, AcceptedLoaded
  <2>2. list'[p] = [row |-> 1, f |-> rows[p][1].f \cup (Accepted(p) \ rows[p][1].b),
                    b |-> rows[p][1].b, whole |-> TRUE]
    BY <1>1, <1>4 DEF Built
  <2>3. Loads(p)
    BY <1>1, <1>4, <2>1, <2>2 DEF Loads
  <2> QED
    BY <1>4, <2>3 DEF Moves
<1> QED
  BY <1>2, <1>3, <1>4

LEMMA QueryMoves ==
    ASSUME TypeOK, NEW p \in Player, NEW x \in Player,
           QueryBuilds(p) \/ \E l \in {e[2] : e \in built} : QueryLoaded(p, l)
    PROVE  Moves(x)
<1>0. list \in [Player -> List \cup {NoList}] /\ overtaken \in [Player -> Nat]
  BY DEF TypeOK
<1>1. CASE QueryBuilds(p)
  <2>1. UNCHANGED <<cached, list, rows>> /\ p \notin cached /\ reqs' = reqs \ Gone(p)
    BY <1>1 DEF QueryBuilds
  <2>2. CASE x # p
    BY <2>1, <2>2, OthersForgotten DEF Same
  <2>3. CASE x = p
    <3>1. \A y : y \in Accepted(x)' => y \in Accepted(x)
      BY <2>1, AcceptedElements, AcceptedNext
    <3> QED
      BY <2>1, <2>3, <3>1 DEF Waits, Same, Moves
  <2> QED
    BY <2>2, <2>3
<1>2. ASSUME NEW l, QueryLoaded(p, l) PROVE Moves(x)
  <2>1. /\ <<p, l>> \in built /\ cached' = cached \cup {p} /\ rows' = rows /\ reqs' = reqs
        /\ list' = [list EXCEPT ![p] = IF l = NoList THEN l ELSE [l EXCEPT !.whole = ~Overtaken(p, l)]]
        /\ overtaken' = IF Overtaken(p, l) THEN [overtaken EXCEPT ![p] = @ + 1] ELSE overtaken
        /\ restarts' = restarts
    BY <1>2 DEF QueryLoaded
  <2>2. Accepted(x)' = Accepted(x)
    BY <2>1, AcceptedSame
  <2>3. l \in List \cup {NoList}
    BY <2>1 DEF TypeOK
  <2>4. CASE x = p
    <3>1. overtaken'[p] = IF Overtaken(p, l) THEN overtaken[p] + 1 ELSE overtaken[p]
      BY <1>0, <2>1
    <3>2. list'[p] = IF l = NoList THEN l ELSE [l EXCEPT !.whole = ~Overtaken(p, l)]
      BY <1>0, <2>1
    <3>3. Arrives(p, l)
      BY <2>1, <2>2, <2>4, <3>1, <3>2 DEF Arrives
    <3> QED
      BY <2>3, <2>4, <3>3 DEF Moves
  <2>5. CASE x # p
    BY <1>0, <2>1, <2>2, <2>5 DEF Same, Rests, Moves
  <2> QED
    BY <2>4, <2>5
<1> QED
  BY <1>1, <1>2

\* A rejected request is the only one between the two, so no friend is lost.
LEMMA RejectMoves ==
    ASSUME TypeOK, Distinct, NEW p \in Player, NEW q \in Player, Reject(p, q), NEW x \in Player
    PROVE  Moves(x)
<1> DEFINE req == [src |-> q, tgt |-> p, st |-> "sent"]
<1>1. req \in reqs /\ reqs' = reqs \ Between(p, q) /\ UNCHANGED <<cached, list, rows>>
  BY DEF Reject
<1>2. req.src = q /\ req.tgt = p /\ req.st = "sent"
  OBVIOUS
<1> HIDE DEF req
<1>3. \A r \in Between(p, q) : r.st = "sent"
  <2> SUFFICES ASSUME NEW r \in Between(p, q) PROVE r = req
    BY <1>2
  <2>1. r \in reqs /\ {r.src, r.tgt} = {req.src, req.tgt}
    BY <1>2, BetweenElements
  <2> QED
    BY <1>1, <2>1 DEF Distinct, Paired
<1>4. Accepted(x)' = Accepted(x)
  BY <1>1, <1>3, AcceptedSame
<1> QED
  BY <1>1, <1>4 DEF Same, Rests, Moves

LEMMA StepMoves ==
    ASSUME TypeOK, Distinct, [Next]_vars, NEW x \in Player
    PROVE  Moves(x)
<1>0. list \in [Player -> List \cup {NoList}] /\ rows \in [Player -> Seq(Row)] /\ online \subseteq cached
  BY DEF TypeOK
<1>1. ASSUME UNCHANGED <<list, rows, reqs>>, cached' = cached
      PROVE  Moves(x)
  BY <1>1, AcceptedSame DEF Same, Rests, Moves
<1>2. ASSUME NEW p \in Player, NEW q \in Player, AddNewFriend(p, q)
      PROVE  Moves(x)
  <2>1. reqs' = reqs \cup {[src |-> p, tgt |-> q, st |-> "sent"]} /\ UNCHANGED <<cached, list, rows>>
    BY <1>2 DEF AddNewFriend
  <2>2. Accepted(x)' = Accepted(x)
    BY <2>1, AcceptedSame
  <2> QED
    BY <2>1, <2>2 DEF Same, Rests, Moves
<1>3. ASSUME NEW p \in Player, NEW q \in Player, AddRemoveFromBlackList(p, q)
      PROVE  Moves(x)
  <2> DEFINE mine == [list[p] EXCEPT !.b = @ \ {q}]
  <2>1. /\ p \in cached /\ HasList(p) /\ reqs' = reqs /\ cached' = cached
        /\ list' = [list EXCEPT ![p] = Saved(p, mine)]
        /\ rows' = [rows EXCEPT ![p] = RowsWith(p, mine)]
    BY <1>0, <1>3 DEF AddRemoveFromBlackList
  <2>2. list[p] \in List
    BY <1>0, <2>1 DEF HasList
  <2>3. /\ mine \in List /\ mine.row = list[p].row /\ mine.whole = list[p].whole
        /\ mine.f = list[p].f /\ mine.b \subseteq list[p].b
    BY <2>2 DEF List
  <2>4. Accepted(x)' = Accepted(x)
    BY <2>1, AcceptedSame
  <2> HIDE DEF mine
  <2>5. CASE x = p
    <3>1. Resaves(x, mine)
      BY <1>0, <2>1, <2>3, <2>4, <2>5 DEF Resaves, Stores
    <3> QED
      BY <2>3, <3>1 DEF Moves
  <2>6. CASE x # p
    BY <1>0, <2>1, <2>4, <2>6 DEF Same, Rests, Moves
  <2> QED
    BY <2>5, <2>6
<1>4. ASSUME NEW p \in Player, NEW q \in Player, PrivateMsg(p, q)
      PROVE  Moves(x)
  <2>1. PICK z \in cached : /\ list' = [list EXCEPT ![z] = ListOf(z)]
                            /\ UNCHANGED <<cached, rows, reqs>>
    BY <1>0, <1>4 DEF PrivateMsg
  <2>2. Accepted(x)' = Accepted(x)
    BY <2>1, AcceptedSame
  <2>3. CASE x = z /\ ~HasList(z)
    BY <1>0, <2>1, <2>2, <2>3 DEF Makes, Moves
  <2>4. CASE x = z /\ HasList(z)
    BY <1>0, <2>1, <2>2, <2>4 DEF ListOf, Same, Rests, Moves
  <2>5. CASE x # z
    BY <1>0, <2>1, <2>2, <2>5 DEF Same, Rests, Moves
  <2> QED
    BY <2>3, <2>4, <2>5
<1>5. ASSUME NEW p \in Player, Offline(p)
      PROVE  Moves(x)
  <2>1. p \in cached /\ reqs' = reqs /\ cached' = cached
    BY <1>0, <1>5 DEF Offline
  <2>2. CASE HasList(p)
    <3>1. /\ list' = [list EXCEPT ![p] = Saved(p, list[p])]
          /\ rows' = [rows EXCEPT ![p] = RowsWith(p, list[p])]
      BY <1>5, <2>2 DEF Offline
    <3>2. list[p] \in List
      BY <1>0, <2>2 DEF HasList
    <3>3. Accepted(x)' = Accepted(x)
      BY <2>1, AcceptedSame
    <3>4. CASE x = p
      <4>1. Resaves(x, list[p])
        BY <1>0, <2>1, <2>2, <3>1, <3>2, <3>3, <3>4 DEF Resaves, Stores
      <4> QED
        BY <3>2, <4>1 DEF Moves
    <3>5. CASE x # p
      BY <1>0, <2>1, <3>1, <3>3, <3>5 DEF Same, Rests, Moves
    <3> QED
      BY <3>4, <3>5
  <2>3. CASE ~HasList(p)
    BY <1>1, <1>5, <2>1, <2>3 DEF Offline
  <2> QED
    BY <2>2, <2>3
<1>6. ASSUME NEW p \in Player, Expire(p)
      PROVE  Moves(x)
  <2>1. reqs' = reqs /\ cached' = cached \ {p} /\ list' = [list EXCEPT ![p] = NoList] /\ rows' = rows
    BY <1>6 DEF Expire
  <2>2. Accepted(x)' = Accepted(x)
    BY <2>1, AcceptedSame
  <2>3. CASE x = p
    BY <1>0, <2>1, <2>2, <2>3 DEF Drops, Moves
  <2>4. CASE x # p
    BY <1>0, <2>1, <2>2, <2>4 DEF Same, Rests, Moves
  <2> QED
    BY <2>3, <2>4
<1>7. ASSUME Restart
      PROVE  Moves(x)
  BY <1>7 DEF Restart, Returns, Moves
<1>8. ASSUME NEW p \in Player, NEW q \in Player, Enter(p) \/ FlushList(p) \/ FlushRequest(p, q)
      PROVE  Moves(x)
  BY <1>1, <1>8 DEF Enter, FlushList, FlushRequest
<1>9. CASE UNCHANGED vars
  BY <1>1, <1>9 DEF vars
<1> QED
  BY <1>2, <1>3, <1>4, <1>5, <1>6, <1>7, <1>8, <1>9,
     AcceptMoves, DeleteMoves, BanMoves, LoadMoves, QueryMoves, RejectMoves DEF Next, Named

\* What a step does to the cache, the restarts and the queries overtaken.
LEMMA CacheMoves ==
    ASSUME TypeOK, [Next]_vars
    PROVE  /\ cached' \subseteq Player /\ online' \subseteq cached'
           /\ restarts' \in 0..MaxFaults
           /\ restarts' \in {restarts, restarts + 1}
           /\ overtaken' \in [Player -> Nat]
           /\ \A x \in Player : overtaken'[x] \in {overtaken[x], overtaken[x] + 1}
           /\ list' \in [Player -> {list'[x] : x \in Player}]
           /\ rows' \in [Player -> {rows'[x] : x \in Player}]
           /\ \A x \in cached \ cached' : list'[x] = NoList
<1> DEFINE Fun(f) == f \in [Player -> {f[x] : x \in Player}]
           Goal == /\ cached' \subseteq Player /\ online' \subseteq cached'
                   /\ restarts' \in 0..MaxFaults
                   /\ restarts' \in {restarts, restarts + 1}
                   /\ overtaken' \in [Player -> Nat]
                   /\ \A x \in Player : overtaken'[x] \in {overtaken[x], overtaken[x] + 1}
                   /\ Fun(list') /\ Fun(rows')
                   /\ \A x \in cached \ cached' : list'[x] = NoList
<1>0. /\ Fun(list) /\ Fun(rows) /\ cached \subseteq Player /\ online \subseteq cached
      /\ restarts \in 0..MaxFaults /\ restarts \in Nat /\ MaxFaults \in Nat
      /\ overtaken \in [Player -> Nat]
  BY FriendsAssumption DEF TypeOK
<1>1. ASSUME NEW p \in Player, NEW q \in Player,
             \/ AddNewFriend(p, q) \/ Reject(p, q) \/ PrivateMsg(p, q) \/ DeleteFriend(p, q)
      PROVE  Goal
  BY <1>0, <1>1 DEF AddNewFriend, Reject, PrivateMsg, DeleteFriend
<1>2. ASSUME NEW p \in Player, NEW q \in Player, AddRemoveFromBlackList(p, q)
      PROVE  Goal
  BY <1>0, <1>2 DEF AddRemoveFromBlackList
<1>3. ASSUME NEW p \in Player, NEW q \in Player, AddFriend2BlackList(p, q)
      PROVE  Goal
  BY <1>0, <1>3 DEF AddFriend2BlackList
<1>4. ASSUME NEW p \in Player, NEW q \in Player, Accept(p, q)
      PROVE  Goal
  BY <1>0, <1>4 DEF Accept
<1>5. ASSUME NEW p \in Player, Enter(p) \/ Expire(p) \/ Load(p) \/ QueryBuilds(p)
      PROVE  Goal
  BY <1>0, <1>5 DEF Enter, Expire, Load, QueryBuilds
<1>6. ASSUME NEW p \in Player, Offline(p)
      PROVE  Goal
  BY <1>0, <1>6 DEF Offline
<1>7. CASE Restart
  <2>1. restarts < MaxFaults
    BY <1>7 DEF Restart, MoreFaults
  <2>2. /\ cached' = Player /\ online' = {} /\ restarts' = restarts + 1 /\ overtaken' = overtaken
        /\ Fun(list') /\ rows' = dbRows
    BY <1>7 DEF Restart
  <2> QED
    BY <1>0, <2>1, <2>2 DEF TypeOK
<1>8. CASE UNCHANGED vars
  BY <1>0, <1>8 DEF vars
<1>9. ASSUME NEW p \in Player, NEW l, QueryLoaded(p, l)
      PROVE  Goal
  BY <1>0, <1>9 DEF QueryLoaded
<1>10. ASSUME NEW p \in Player, NEW q \in Player, FlushList(p) \/ FlushRequest(p, q)
       PROVE  Goal
  BY <1>0, <1>10 DEF FlushList, FlushRequest
<1>11. Goal
  BY <1>1, <1>2, <1>3, <1>4, <1>5, <1>6, <1>7, <1>8, <1>9, <1>10 DEF Next, Named
<1> QED
  BY <1>11

-----------------------------------------------------------------------------
\* First layer: types and rows

Base == TypeOK /\ Unsaved /\ Waiting /\ Distinct

\* What was within the bound on rows stays within it.
LEMMA BoundGrows ==
    ASSUME NEW n \in Nat, NEW a \in Nat, NEW b \in Nat,
           NEW c \in {a, a + 1}, NEW d \in {b, b + 1}
    PROVE  /\ n <= 1 + a + b => n <= 1 + c + d
           /\ n <= a + b => n <= c + d
           /\ 0 <= c + d
  OBVIOUS

LEMMA StoreEffect ==
    ASSUME Base, NEW x \in Player, x \in cached, NEW l \in List, l.row = ListOf(x).row, Stores(x, l)
    PROVE  /\ list'[x] \in List /\ list'[x] # NoList
           /\ list'[x].f = l.f /\ list'[x].b = l.b /\ list'[x].whole = l.whole
           /\ rows'[x] \in Seq(Row)
           /\ list'[x].row \in 1..Len(rows'[x])
           /\ rows'[x][list'[x].row] = [f |-> l.f, b |-> l.b]
           /\ Len(rows'[x]) <= 1 + restarts + overtaken[x]
           /\ \A i \in 1..Len(rows'[x]) : i # list'[x].row => i \in 1..Len(rows[x]) /\ rows'[x][i] = rows[x][i]
<1>1. /\ rows[x] \in Seq(Row) /\ l.row <= Len(rows[x]) /\ Len(rows[x]) <= 1 + restarts + overtaken[x]
      /\ restarts \in Nat /\ overtaken[x] \in Nat
  BY ListOfType, FriendsAssumption DEF Base, TypeOK
<1>2. list'[x] = Saved(x, l) /\ rows'[x] = RowsWith(x, l)
  BY DEF Stores
<1>3. /\ list'[x] \in List
      /\ list'[x].f = l.f /\ list'[x].b = l.b /\ list'[x].whole = l.whole
      /\ rows'[x] \in Seq(Row)
      /\ list'[x].row \in 1..Len(rows'[x])
      /\ rows'[x][list'[x].row] = [f |-> l.f, b |-> l.b]
      /\ l.row = 0 => Len(rows'[x]) = Len(rows[x]) + 1
      /\ l.row # 0 => Len(rows'[x]) = Len(rows[x])
      /\ \A i \in 1..Len(rows[x]) : i # list'[x].row => rows'[x][i] = rows[x][i]
  BY <1>1, <1>2, SaveEffect
<1>4. l.row = 0 => list'[x].row = Len(rows[x]) + 1
  BY <1>2 DEF Saved, List
<1>5. l.row = 0 => Len(rows[x]) <= restarts + overtaken[x]
  BY ListOfType DEF Base, Unsaved
<1>6. list'[x] # NoList
  BY <1>3, FriendsAssumption DEF List
<1>7. Len(rows'[x]) <= 1 + restarts + overtaken[x]
  BY <1>1, <1>3, <1>5
<1>8. ASSUME NEW i \in 1..Len(rows'[x]), i # list'[x].row
      PROVE  i \in 1..Len(rows[x]) /\ rows'[x][i] = rows[x][i]
  <2>1. i \in 1..Len(rows[x])
    BY <1>1, <1>3, <1>4, <1>8
  <2> QED
    BY <1>3, <1>8, <2>1
<1> QED
  BY <1>3, <1>6, <1>7, <1>8

\* The four kinds of steps that save a list of x, with the list they save.
SavedList(x, l) ==
    /\ x \in cached /\ l \in List /\ l.row = ListOf(x).row
    /\ Stores(x, l)

LEMMA SavingMoves ==
    ASSUME TypeOK, NEW x \in Player
    PROVE  /\ \A y \in Player : Befriends(x, y) =>
                 SavedList(x, [ListOf(x) EXCEPT !.f = @ \cup {y}])
           /\ \A y \in Player : Bans(x, y) =>
                 SavedList(x, [ListOf(x) EXCEPT !.f = @ \ {y}, !.b = @ \cup {y}])
           /\ \A l \in List : Resaves(x, l) => SavedList(x, l)
<1>1. ListOf(x) \in List
  BY ListOfType
<1>2. ASSUME NEW y \in Player, Befriends(x, y)
      PROVE  SavedList(x, [ListOf(x) EXCEPT !.f = @ \cup {y}])
  BY <1>1, <1>2 DEF Befriends, SavedList, List
<1>3. ASSUME NEW y \in Player, Bans(x, y)
      PROVE  SavedList(x, [ListOf(x) EXCEPT !.f = @ \ {y}, !.b = @ \cup {y}])
  BY <1>1, <1>3 DEF Bans, SavedList, List
<1>4. ASSUME NEW l \in List, Resaves(x, l)
      PROVE  SavedList(x, l)
  BY <1>4, ListOfType DEF Resaves, SavedList
<1> QED
  BY <1>2, <1>3, <1>4

\* The list and the rows of one player in the next state.
Fits(x) ==
    /\ list'[x] \in List \cup {NoList}
    /\ rows'[x] \in Seq(Row)
    /\ Len(rows'[x]) <= 1 + restarts' + overtaken'[x]
    /\ list'[x] # NoList => x \in cached' /\ list'[x].row <= Len(rows'[x])
    /\ x \in cached' /\ (list'[x] = NoList \/ list'[x].row = 0)
          => Len(rows'[x]) <= restarts' + overtaken'[x]

LEMMA ListFits ==
    ASSUME Base, [Next]_vars, NEW x \in Player
    PROVE  Fits(x)
<1>0. /\ TypeOK /\ restarts \in Nat /\ restarts' \in {restarts, restarts + 1}
      /\ overtaken[x] \in Nat /\ overtaken'[x] \in {overtaken[x], overtaken[x] + 1}
      /\ list[x] \in List \cup {NoList} /\ rows[x] \in Seq(Row) /\ Len(rows[x]) \in Nat
      /\ Len(rows[x]) <= 1 + restarts + overtaken[x]
      /\ dbRows[x] \in Seq(Row) /\ Len(dbRows[x]) \in Nat
      /\ Len(dbRows[x]) <= 1 + restarts + overtaken[x]
      /\ list[x] # NoList => x \in cached /\ list[x].row <= Len(rows[x])
      /\ x \in cached /\ (list[x] = NoList \/ list[x].row = 0)
            => Len(rows[x]) <= restarts + overtaken[x]
      /\ x \in cached /\ x \notin cached' => list'[x] = NoList
  <2>1. TypeOK /\ Unsaved
    BY DEF Base
  <2>2. /\ restarts' \in {restarts, restarts + 1} /\ \A z \in cached \ cached' : list'[z] = NoList
        /\ overtaken'[x] \in {overtaken[x], overtaken[x] + 1}
    BY <2>1, CacheMoves
  <2>3. /\ restarts \in Nat /\ list[x] \in List \cup {NoList} /\ rows[x] \in Seq(Row)
        /\ overtaken[x] \in Nat
        /\ Len(rows[x]) <= 1 + restarts + overtaken[x]
        /\ dbRows[x] \in Seq(Row) /\ Len(dbRows[x]) <= 1 + restarts + overtaken[x]
        /\ list[x] # NoList => x \in cached /\ list[x].row <= Len(rows[x])
    BY <2>1, FriendsAssumption DEF TypeOK, HasList
  <2>4. x \in cached /\ (list[x] = NoList \/ list[x].row = 0) => Len(rows[x]) <= restarts + overtaken[x]
    BY <2>1 DEF Unsaved, HasList
  <2> QED
    BY <2>1, <2>2, <2>3, <2>4
<1>a. /\ Len(rows[x]) <= 1 + restarts' + overtaken'[x]
      /\ Len(rows[x]) <= restarts + overtaken[x] => Len(rows[x]) <= restarts' + overtaken'[x]
      /\ rows[x] = <<>> => Len(rows[x]) <= restarts' + overtaken'[x]
  <2>1. \A n \in Nat : /\ n <= 1 + restarts + overtaken[x] => n <= 1 + restarts' + overtaken'[x]
                       /\ n <= restarts + overtaken[x] => n <= restarts' + overtaken'[x]
                       /\ 0 <= restarts' + overtaken'[x]
    BY <1>0, BoundGrows
  <2>2. rows[x] = <<>> => Len(rows[x]) = 0
    OBVIOUS
  <2> QED
    BY <1>0, <2>1, <2>2
<1>1. CASE Same(x) /\ (x \in cached' => x \in cached \/ rows[x] = <<>>)
  BY <1>0, <1>1, <1>a DEF Same, Fits
<1>2. ASSUME NEW l, SavedList(x, l)
      PROVE  Fits(x)
  <2>1. /\ list'[x] \in List /\ list'[x] # NoList
        /\ rows'[x] \in Seq(Row) /\ list'[x].row \in 1..Len(rows'[x])
        /\ Len(rows'[x]) <= 1 + restarts + overtaken[x]
    BY <1>2, StoreEffect DEF SavedList
  <2>2. x \in cached'
    BY <1>0, <1>2, <2>1 DEF SavedList
  <2>3. Len(rows'[x]) \in Nat /\ list'[x].row <= Len(rows'[x]) /\ list'[x].row # 0
    BY <2>1
  <2>4. Len(rows'[x]) <= 1 + restarts' + overtaken'[x]
    BY <1>0, <2>1, <2>3, BoundGrows
  <2> QED
    BY <2>1, <2>2, <2>3, <2>4 DEF Fits
<1>3. CASE Makes(x)
  <2>1. ListOf(x) \in List /\ ListOf(x).row = 0
    BY <1>0, <1>3, ListOfType DEF Makes
  <2> QED
    <3>1. list'[x] \in List /\ list'[x].row = 0 /\ rows'[x] = rows[x] /\ x \in cached /\ list[x] = NoList
      BY <1>3, <2>1 DEF Makes, HasList
    <3>2. list'[x] # NoList /\ x \in cached'
      BY <1>0, <3>1, FriendsAssumption DEF List
    <3> QED
      BY <1>0, <1>a, <3>1, <3>2 DEF Fits
<1>4. CASE Drops(x)
  BY <1>0, <1>4 DEF Drops, Fits
<1>5. CASE Loads(x)
  <2>1. rows[x][1] \in Row /\ 1 <= Len(rows[x])
    BY <1>0, <1>5 DEF Loads
  <2>2. Accepted(x) \subseteq Player
    BY DEF Accepted
  <2>3. list'[x] \in List /\ list'[x].row = 1 /\ rows'[x] = rows[x]
    BY <1>5, <2>1, <2>2 DEF Loads, List, Row
  <2>4. list'[x] # NoList
    BY <2>3, FriendsAssumption DEF List
  <2>5. x \in cached' /\ Len(rows[x]) <= 1 + restarts' + overtaken'[x]
    BY <1>0, <1>5 DEF Loads
  <2> QED
    BY <1>0, <2>1, <2>3, <2>4, <2>5 DEF Fits
<1>6. ASSUME NEW y \in Player, Parts(x, y)
      PROVE  Fits(x)
  <2>0. list'[x] = Without(x, y) /\ rows'[x] = rows[x] /\ (x \in cached' => x \in cached)
    BY <1>6 DEF Parts
  <2>1. CASE HasList(x)
    <3>1. list'[x] \in List \cup {NoList} /\ list'[x].row = list[x].row /\ list'[x] # NoList
      BY <1>0, <2>0, <2>1, WithoutType
    <3>2. list[x] # NoList
      BY <2>1 DEF HasList
    <3>3. x \in cached'
      BY <1>0, <3>1, <3>2
    <3> QED
      BY <1>0, <1>a, <2>0, <3>1, <3>2, <3>3 DEF Fits
  <2>2. CASE ~HasList(x)
    <3>1. list'[x] = NoList /\ list[x] = NoList
      BY <1>0, <2>0, <2>2, WithoutType DEF HasList
    <3> QED
      BY <1>0, <1>a, <2>0, <3>1 DEF Fits
  <2> QED
    BY <2>1, <2>2
<1>7. ASSUME NEW y \in Player, Forgotten(x, y) \/ Befriended(x, y)
      PROVE  Fits(x)
  BY <1>1, <1>7 DEF Forgotten, Befriended
<1>9. CASE Waits(x)
  BY <1>1, <1>9 DEF Waits
<1>10. CASE Returns(x)
  BY <1>0, <1>10 DEF Returns, Fits
<1>11. ASSUME NEW l \in List \cup {NoList}, Arrives(x, l)
       PROVE  Fits(x)
  <2>1. x \in cached' /\ rows'[x] = rows[x] /\ restarts' = restarts
    BY <1>11 DEF Arrives
  <2>2. CASE Overtaken(x, l)
    <3>1. overtaken'[x] = overtaken[x] + 1
      BY <1>11, <2>2 DEF Arrives
    <3>2. l # NoList => l \in List /\ list'[x] = [l EXCEPT !.whole = FALSE]
      BY <1>11, <2>2 DEF Arrives
    <3>3. l # NoList => list'[x] \in List /\ list'[x].row = l.row /\ list'[x] # NoList
      BY <3>2, FriendsAssumption DEF List
    <3>4. l = NoList => list'[x] = NoList
      BY <1>11 DEF Arrives
    <3>5. l # NoList => l.row = 1 /\ Len(rows[x]) # 0
      BY <1>0, <1>11 DEF Base, Waiting, Arrives
    <3> QED
      BY <1>0, <2>1, <3>1, <3>3, <3>4, <3>5 DEF Fits
  <2>3. CASE ~Overtaken(x, l)
    <3>1. l = Built(x) /\ (l # NoList => list'[x] = [l EXCEPT !.whole = TRUE])
      BY <1>11, <2>3 DEF Arrives, Overtaken
    <3>2. CASE rows[x] = <<>>
      <4>1. list'[x] = NoList
        BY <1>11, <3>1, <3>2 DEF Built, Arrives
      <4> QED
        BY <1>0, <2>1, <3>2, <4>1 DEF Fits
    <3>3. CASE rows[x] # <<>>
      <4>1. rows[x][1] \in Row /\ 1 <= Len(rows[x])
        BY <1>0, <3>3
      <4>2. Built(x) \in List /\ Built(x).row = 1
        BY <3>3, <4>1 DEF Built, List, Row, Accepted
      <4>4. Built(x) # NoList /\ list'[x] = [Built(x) EXCEPT !.whole = TRUE]
        BY <3>1, <4>2, FriendsAssumption DEF List
      <4>5. list'[x] \in List /\ list'[x].row = 1
        BY <4>2, <4>4 DEF List
      <4>3. list'[x] \in List /\ list'[x].row = 1 /\ list'[x] # NoList
        BY <4>5, FriendsAssumption DEF List
      <4> QED
        BY <1>0, <2>1, <4>1, <4>3 DEF Fits
    <3> QED
      BY <3>2, <3>3
  <2> QED
    BY <2>2, <2>3
<1>8. Moves(x)
  BY StepMoves DEF Base
<1> QED
  BY <1>0, <1>1, <1>2, <1>3, <1>4, <1>5, <1>6, <1>7, <1>8, <1>9, <1>10, <1>11, SavingMoves DEF Moves, Rests

\* Rows are not taken away while the server runs.
LEMMA RowsStay ==
    ASSUME Base, [Next]_vars, NEW x \in Player, rows[x] # <<>>
    PROVE  rows'[x] # <<>> \/ Returns(x)
<1>1. TypeOK
  BY DEF Base
<1>2. ASSUME NEW l, SavedList(x, l)
      PROVE  rows'[x] # <<>>
  <2>1. rows'[x] \in Seq(Row) /\ list'[x].row \in 1..Len(rows'[x])
    BY <1>2, StoreEffect DEF SavedList
  <2> QED
    BY <2>1
<1>3. Moves(x)
  BY StepMoves DEF Base
<1> QED
  BY <1>1, <1>2, <1>3, SavingMoves
  DEF Moves, Rests, Makes, Drops, Loads, Waits, Befriended, Parts, Forgotten, Same, Arrives

\* What a step does to the lists built for queries.
LEMMA BuiltMoves ==
    ASSUME TypeOK, [Next]_vars
    PROVE  \/ built' = {}
           \/ built' \subseteq built /\ restarts' = restarts
           \/ /\ restarts' = restarts /\ rows' = rows
              /\ \E p \in Player : built' = built \cup {<<p, Built(p)>>}
<1> DEFINE Goal == \/ built' = {}
                   \/ built' \subseteq built /\ restarts' = restarts
                   \/ /\ restarts' = restarts /\ rows' = rows
                      /\ \E p \in Player : built' = built \cup {<<p, Built(p)>>}
<1>1. ASSUME NEW p \in Player, NEW q \in Player,
             \/ AddNewFriend(p, q) \/ Accept(p, q) \/ Reject(p, q) \/ DeleteFriend(p, q)
             \/ AddFriend2BlackList(p, q) \/ AddRemoveFromBlackList(p, q) \/ PrivateMsg(p, q)
             \/ FlushRequest(p, q)
      PROVE  Goal
  BY <1>1 DEF AddNewFriend, Accept, Reject, DeleteFriend, AddFriend2BlackList,
              AddRemoveFromBlackList, PrivateMsg, FlushRequest
<1>2. ASSUME NEW p \in Player, Enter(p) \/ Offline(p) \/ Expire(p) \/ Load(p) \/ FlushList(p)
      PROVE  Goal
  BY <1>2 DEF Enter, Offline, Expire, Load, FlushList
<1>3. ASSUME NEW p \in Player, QueryBuilds(p) \/ \E l \in {e[2] : e \in built} : QueryLoaded(p, l)
      PROVE  Goal
  BY <1>3 DEF QueryBuilds, QueryLoaded
<1>4. CASE Restart \/ UNCHANGED vars
  BY <1>4 DEF Restart, vars
<1> QED
  BY <1>1, <1>2, <1>3, <1>4 DEF Next, Named

LEMMA BuiltType ==
    ASSUME TypeOK, NEW p \in Player
    PROVE  /\ Built(p) \in List \cup {NoList}
           /\ Built(p) # NoList => Built(p).row = 1 /\ rows[p] # <<>>
<1>1. CASE rows[p] = <<>>
  BY <1>1 DEF Built
<1>2. CASE rows[p] # <<>>
  <2>1. rows[p][1] \in Row
    BY <1>2 DEF TypeOK
  <2> QED
    BY <1>2, <2>1 DEF Built, List, Row, Accepted
<1> QED
  BY <1>1, <1>2

LEMMA WaitingStep ==
    ASSUME Base, [Next]_vars
    PROVE  Waiting' /\ built' \subseteq Player \X (List \cup {NoList})
<1>0. TypeOK /\ built \subseteq Player \X (List \cup {NoList}) /\ restarts \in Nat
  BY FriendsAssumption DEF Base, TypeOK
<1>1. CASE built' = {}
  BY <1>1 DEF Waiting
<1>2. CASE built' \subseteq built /\ restarts' = restarts
  <2>1. ASSUME NEW e \in built', e[2] # NoList PROVE e[2].row = 1 /\ rows'[e[1]] # <<>>
    <3>1. e \in built /\ e[1] \in Player
      BY <1>0, <1>2, <2>1
    <3>2. e[2].row = 1 /\ rows[e[1]] # <<>>
      BY <2>1, <3>1 DEF Base, Waiting
    <3>3. ~Returns(e[1])
      BY <1>0, <1>2 DEF Returns
    <3> QED
      BY <3>1, <3>2, <3>3, RowsStay
  <2> QED
    BY <1>0, <1>2, <2>1 DEF Waiting
<1>3. ASSUME NEW p \in Player, built' = built \cup {<<p, Built(p)>>}, rows' = rows
      PROVE  Waiting' /\ built' \subseteq Player \X (List \cup {NoList})
  <2>1. /\ Built(p) \in List \cup {NoList}
        /\ Built(p) # NoList => Built(p).row = 1 /\ rows[p] # <<>>
    BY <1>0, BuiltType
  <2>2. built' \subseteq Player \X (List \cup {NoList})
    BY <1>0, <1>3, <2>1
  <2>3. Waiting'
    BY <1>3, <2>1 DEF Base, Waiting
  <2> QED
    BY <2>2, <2>3
<1> QED
  BY <1>0, <1>1, <1>2, <1>3, BuiltMoves

\* What the database has are rows that were saved.
LEMMA TableMoves ==
    ASSUME TypeOK, [Next]_vars
    PROVE  \/ dbRows' = dbRows
           \/ rows' = rows /\ \E p \in Player : dbRows' = [dbRows EXCEPT ![p] = rows[p]]
<1> DEFINE Goal == \/ dbRows' = dbRows
                   \/ rows' = rows /\ \E p \in Player : dbRows' = [dbRows EXCEPT ![p] = rows[p]]
<1>1. ASSUME NEW p \in Player, NEW q \in Player,
             \/ AddNewFriend(p, q) \/ Accept(p, q) \/ Reject(p, q) \/ DeleteFriend(p, q)
             \/ AddFriend2BlackList(p, q) \/ AddRemoveFromBlackList(p, q) \/ PrivateMsg(p, q)
             \/ FlushRequest(p, q)
      PROVE  Goal
  BY <1>1 DEF AddNewFriend, Accept, Reject, DeleteFriend, AddFriend2BlackList,
              AddRemoveFromBlackList, PrivateMsg, FlushRequest
<1>2. ASSUME NEW p \in Player, Enter(p) \/ Offline(p) \/ Expire(p) \/ Load(p) \/ FlushList(p)
      PROVE  Goal
  BY <1>2 DEF Enter, Offline, Expire, Load, FlushList
<1>3. ASSUME NEW p \in Player, QueryBuilds(p) \/ \E l \in {e[2] : e \in built} : QueryLoaded(p, l)
      PROVE  Goal
  BY <1>3 DEF QueryBuilds, QueryLoaded
<1>4. CASE Restart \/ UNCHANGED vars
  BY <1>4 DEF Restart, vars
<1> QED
  BY <1>1, <1>2, <1>3, <1>4 DEF Next, Named

LEMMA TablesFit ==
    ASSUME TypeOK, [Next]_vars
    PROVE  /\ dbRows' \in [Player -> Seq(Row)]
           /\ \A x \in Player : Len(dbRows'[x]) <= 1 + restarts' + overtaken'[x]
<1>1. /\ dbRows \in [Player -> Seq(Row)] /\ rows \in [Player -> Seq(Row)] /\ restarts \in Nat
      /\ \A x \in Player : /\ Len(dbRows[x]) <= 1 + restarts + overtaken[x]
                           /\ Len(rows[x]) <= 1 + restarts + overtaken[x]
                           /\ overtaken[x] \in Nat
  BY FriendsAssumption DEF TypeOK
<1>2. dbRows' \in [Player -> Seq(Row)]
  BY <1>1, TableMoves
<1>3. ASSUME NEW x \in Player PROVE Len(dbRows'[x]) <= 1 + restarts' + overtaken'[x]
  <2>1. dbRows'[x] \in {dbRows[x], rows[x]}
    BY <1>1, TableMoves
  <2>2. Len(dbRows'[x]) \in Nat /\ Len(dbRows'[x]) <= 1 + restarts + overtaken[x]
    BY <1>1, <2>1
  <2>3. restarts' \in {restarts, restarts + 1} /\ overtaken'[x] \in {overtaken[x], overtaken[x] + 1}
    BY CacheMoves
  <2> QED
    BY <1>1, <2>2, <2>3, BoundGrows
<1> QED
  BY <1>2, <1>3

LEMMA BaseStep == Base /\ [Next]_vars => Base'
<1> SUFFICES ASSUME Base, [Next]_vars PROVE Base'
  OBVIOUS
<1>1. \A x \in Player : Fits(x)
  BY ListFits
<1>2. Distinct' /\ reqs' \subseteq Request /\ dbReqs' \subseteq Request
  BY DistinctStep, RequestTypes DEF Base
<1>3. /\ cached' \subseteq Player /\ online' \subseteq cached' /\ restarts' \in 0..MaxFaults
      /\ overtaken' \in [Player -> Nat]
      /\ list' \in [Player -> {list'[x] : x \in Player}]
      /\ rows' \in [Player -> {rows'[x] : x \in Player}]
  BY CacheMoves DEF Base
<1>4. list' \in [Player -> List \cup {NoList}] /\ rows' \in [Player -> Seq(Row)]
  BY <1>1, <1>3 DEF Fits
<1>5. Waiting' /\ built' \subseteq Player \X (List \cup {NoList})
  BY WaitingStep
<1>6. /\ dbRows' \in [Player -> Seq(Row)]
      /\ \A x \in Player : Len(dbRows'[x]) <= 1 + restarts' + overtaken'[x]
  BY TablesFit DEF Base
<1>7. TypeOK'
  BY <1>1, <1>2, <1>3, <1>4, <1>5, <1>6 DEF TypeOK, Fits, HasList
<1>8. Unsaved'
  BY <1>1, <1>3 DEF Unsaved, Fits, HasList
<1> QED
  BY <1>2, <1>5, <1>7, <1>8 DEF Base

LEMMA BaseInit == Init => Base
<1> SUFFICES ASSUME Init PROVE Base
  OBVIOUS
<1>1. \A p \in Player : rows[p] = <<>> /\ dbRows[p] = <<>> /\ list[p] = NoList /\ overtaken[p] = 0
  BY DEF Init
<1>2. <<>> \in Seq(Row) /\ Len(<<>>) = 0
  OBVIOUS
<1>3. TypeOK
  BY <1>1, <1>2, FriendsAssumption DEF Init, TypeOK, HasList
<1> QED
  BY <1>3 DEF Init, Base, Unsaved, Waiting, Distinct, Paired

LEMMA Based == Spec => []Base
  BY BaseInit, BaseStep, PTL DEF Spec

\* Caches, lists, rows and requests keep their types, and a player never has
\* more rows than one and one more for each restart and query overtaken.
THEOREM TypeCorrect == Spec => []TypeOK
<1>1. Base => TypeOK
  BY DEF Base
<1> QED
  BY <1>1, Based, PTL

\* Two players never share two requests.
THEOREM RequestsAreShared == Spec => []OneRequest
<1>1. Base => OneRequest
  <2> SUFFICES ASSUME Base, NEW p \in Player, NEW q \in Player
               PROVE  Cardinality(Between(p, q)) <= 1
    BY DEF OneRequest
  <2>1. CASE Between(p, q) = {}
    BY <2>1, FS_EmptySet
  <2>2. CASE Between(p, q) # {}
    <3>1. PICK r : r \in Between(p, q)
      BY <2>2
    <3>2. Between(p, q) = {r}
      BY <3>1 DEF Between, Base, Distinct, Paired
    <3>3. Cardinality({r}) = 1
      BY FS_Singleton
    <3> QED
      BY <3>2, <3>3
  <2> QED
    BY <2>1, <2>2
<1> QED
  BY <1>1, Based, PTL

-----------------------------------------------------------------------------
\* Second layer: friends and black list

\* The lists of x, in memory and saved, ...
Apart(x) ==
    /\ HasList(x) => list[x].f \cap list[x].b = {}
    /\ \A i \in 1..Len(rows[x]) : rows[x][i].f \cap rows[x][i].b = {}

\* ... and those that will come into memory: from the database, or built
\* for a query.
ApartLater(x) ==
    /\ \A i \in 1..Len(dbRows[x]) : dbRows[x][i].f \cap dbRows[x][i].b = {}
    /\ \A e \in built : e[1] = x /\ e[2] # NoList => e[2].f \cap e[2].b = {}

LEMMA BuiltApart ==
    ASSUME TypeOK, NEW x \in Player, Apart(x), Built(x) # NoList
    PROVE  Built(x).f \cap Built(x).b = {}
<1>1. rows[x] # <<>> /\ rows[x] \in Seq(Row)
  BY DEF Built, TypeOK
<1>2. rows[x][1].f \cap rows[x][1].b = {}
  BY <1>1 DEF Apart
<1>3. Built(x).f = rows[x][1].f \cup (Accepted(x) \ rows[x][1].b) /\ Built(x).b = rows[x][1].b
  BY <1>1 DEF Built
<1> QED
  BY <1>2, <1>3

LEMMA ApartLaterStep ==
    ASSUME TypeOK, [Next]_vars, NEW x \in Player, Apart(x), ApartLater(x)
    PROVE  ApartLater(x)'
<1>1. dbRows'[x] \in {dbRows[x], rows[x]}
  BY TableMoves DEF TypeOK
<1>2. \A i \in 1..Len(dbRows'[x]) : dbRows'[x][i].f \cap dbRows'[x][i].b = {}
  BY <1>1 DEF Apart, ApartLater
<1>3. ASSUME NEW e \in built', e[1] = x, e[2] # NoList PROVE e[2].f \cap e[2].b = {}
  <2>1. CASE e \in built
    BY <1>3, <2>1 DEF ApartLater
  <2>2. CASE e \notin built
    <3>1. PICK p \in Player : e = <<p, Built(p)>>
      BY <1>3, <2>2, BuiltMoves
    <3>2. p = x /\ e[2] = Built(x)
      BY <1>3, <3>1
    <3> QED
      BY <1>3, <3>2, BuiltApart
  <2> QED
    BY <2>1, <2>2
<1> QED
  BY <1>2, <1>3 DEF ApartLater

\* A save of disjoint lists leaves disjoint lists and rows.
LEMMA StoreApart ==
    ASSUME Base, NEW x \in Player, Apart(x), NEW l, SavedList(x, l), l.f \cap l.b = {}
    PROVE  Apart(x)'
<1>1. /\ list'[x].f = l.f /\ list'[x].b = l.b
      /\ rows'[x][list'[x].row] = [f |-> l.f, b |-> l.b]
      /\ \A i \in 1..Len(rows'[x]) : i # list'[x].row => i \in 1..Len(rows[x]) /\ rows'[x][i] = rows[x][i]
  BY StoreEffect DEF SavedList
<1>2. ASSUME NEW i \in 1..Len(rows'[x]) PROVE rows'[x][i].f \cap rows'[x][i].b = {}
  BY <1>1 DEF Apart
<1> QED
  BY <1>1, <1>2 DEF Apart

LEMMA ApartStep ==
    ASSUME Base, [Next]_vars, NEW x \in Player, Apart(x), ApartLater(x)
    PROVE  Apart(x)'
<1>0. TypeOK
  BY DEF Base
<1>1. ListOf(x) \in List /\ ListOf(x).f \cap ListOf(x).b = {}
  BY <1>0, ListOfType DEF Apart
<1>2. CASE Same(x)
  BY <1>2 DEF Same, Apart, HasList
<1>3. CASE Makes(x)
  BY <1>1, <1>3 DEF Makes, Apart
<1>4. CASE Drops(x)
  BY <1>4 DEF Drops, Apart, HasList
<1>5. CASE Loads(x)
  <2>1. rows[x] \in Seq(Row) /\ rows[x] # <<>>
    BY <1>0, <1>5 DEF TypeOK, Loads
  <2>2. rows[x][1].f \cap rows[x][1].b = {}
    BY <2>1 DEF Apart
  <2>3. list'[x].f \cap list'[x].b = {} /\ rows'[x] = rows[x]
    BY <1>5, <2>2 DEF Loads
  <2> QED
    BY <2>3 DEF Apart
<1>6. ASSUME NEW y \in Player, Parts(x, y)
      PROVE  Apart(x)'
  <2>1. CASE HasList(x)
    BY <1>0, <1>6, <2>1, WithoutType DEF Parts, Apart
  <2>2. CASE ~HasList(x)
    BY <1>0, <1>6, <2>2, WithoutType DEF Parts, Apart, HasList
  <2> QED
    BY <2>1, <2>2
<1>7. ASSUME NEW y \in Player, Befriends(x, y)
      PROVE  Apart(x)'
  <2> DEFINE l == [ListOf(x) EXCEPT !.f = @ \cup {y}]
  <2>1. SavedList(x, l)
    BY <1>0, <1>7, SavingMoves
  <2>2. l.f = ListOf(x).f \cup {y} /\ l.b = ListOf(x).b /\ y \notin ListOf(x).b
    BY <1>1, <1>7 DEF Befriends, List
  <2> HIDE DEF l
  <2>3. l.f \cap l.b = {}
    BY <1>1, <2>2
  <2> QED
    BY <2>1, <2>3, StoreApart
<1>8. ASSUME NEW y \in Player, Bans(x, y)
      PROVE  Apart(x)'
  <2> DEFINE l == [ListOf(x) EXCEPT !.f = @ \ {y}, !.b = @ \cup {y}]
  <2>1. SavedList(x, l)
    BY <1>0, <1>8, SavingMoves
  <2>2. l.f = ListOf(x).f \ {y} /\ l.b = ListOf(x).b \cup {y}
    BY <1>1 DEF List
  <2> HIDE DEF l
  <2>3. l.f \cap l.b = {}
    BY <1>1, <2>2
  <2> QED
    BY <2>1, <2>3, StoreApart
<1>9. ASSUME NEW l \in List, Resaves(x, l)
      PROVE  Apart(x)'
  <2>1. l.f \cap l.b = {}
    BY <1>9 DEF Resaves, Apart
  <2> QED
    BY <1>0, <1>9, <2>1, SavingMoves, StoreApart
<1>11. CASE Returns(x)
  <2>1. list'[x] = NoList /\ rows'[x] = dbRows[x]
    BY <1>11 DEF Returns
  <2> QED
    BY <2>1 DEF ApartLater, Apart, HasList
<1>12. ASSUME NEW l \in List \cup {NoList}, Arrives(x, l)
       PROVE  Apart(x)'
  <2>1. rows'[x] = rows[x] /\ <<x, l>> \in built
    BY <1>12 DEF Arrives
  <2>2. CASE l = NoList
    BY <1>12, <2>1, <2>2 DEF Arrives, Apart, HasList
  <2>3. CASE l # NoList
    <3>1. list'[x].f = l.f /\ list'[x].b = l.b
      BY <1>12, <2>3 DEF Arrives, List
    <3>2. l.f \cap l.b = {}
      BY <2>1, <2>3 DEF ApartLater
    <3> QED
      BY <2>1, <3>1, <3>2 DEF Apart
  <2> QED
    BY <2>2, <2>3
<1>10. Moves(x)
  BY StepMoves DEF Base
<1> QED
  BY <1>2, <1>3, <1>4, <1>5, <1>6, <1>7, <1>8, <1>9, <1>10, <1>11, <1>12
  DEF Moves, Rests, Befriended, Forgotten, Waits

LEMMA ApartAlways == Spec => [](\A x \in Player : Apart(x) /\ ApartLater(x))
<1> DEFINE All == \A x \in Player : Apart(x) /\ ApartLater(x)
<1>1. Init => All
  <2> SUFFICES ASSUME Init, NEW x \in Player PROVE Apart(x) /\ ApartLater(x)
    OBVIOUS
  <2>1. rows[x] = <<>> /\ dbRows[x] = <<>> /\ list[x] = NoList /\ built = {}
    BY DEF Init
  <2> QED
    BY <2>1 DEF Apart, ApartLater, HasList
<1>2. Base /\ All /\ [Next]_vars => All'
  <2> SUFFICES ASSUME Base, All, [Next]_vars, NEW x \in Player
               PROVE  Apart(x)' /\ ApartLater(x)'
    OBVIOUS
  <2>1. Apart(x)'
    BY ApartStep
  <2>2. ApartLater(x)'
    BY ApartLaterStep DEF Base
  <2> QED
    BY <2>1, <2>2
<1>3. Spec => []All
  <2> HIDE DEF All
  <2> QED
    BY <1>1, <1>2, Based, PTL DEF Spec
<1> QED
  BY <1>3

\* Nobody is a friend and on the black list, in memory or in a row: neither
\* after a crash nor in a list that was built for a query.
THEOREM FriendsAreNotBanned == Spec => []NeverBoth
<1>1. TypeOK /\ (\A x \in Player : Apart(x) /\ ApartLater(x)) => NeverBoth
  <2> SUFFICES ASSUME TypeOK, \A x \in Player : Apart(x) PROVE NeverBoth
    OBVIOUS
  <2>1. \A x \in Player : DOMAIN rows[x] = 1..Len(rows[x])
    BY DEF TypeOK
  <2> QED
    BY <2>1 DEF NeverBoth, Apart
<1> QED
  BY <1>1, ApartAlways, TypeCorrect, PTL

-----------------------------------------------------------------------------
\* Third layer: accepted requests and lists

Complete(x) == HasList(x) /\ list[x].whole => Accepted(x) \subseteq list[x].f

LEMMA CompleteStep ==
    ASSUME Base, [Next]_vars, NEW x \in Player, Complete(x)
    PROVE  Complete(x)'
<1>0. TypeOK
  BY DEF Base
<1>1. /\ ListOf(x) \in List
      /\ ListOf(x).whole => Accepted(x) \subseteq ListOf(x).f
  BY <1>0, ListOfType DEF Complete
<1>2. CASE Same(x) /\ Accepted(x)' \subseteq Accepted(x)
  BY <1>2 DEF Same, Complete, HasList
<1>3. CASE Makes(x)
  BY <1>1, <1>3 DEF Makes, Complete
<1>4. CASE Drops(x)
  BY <1>4 DEF Drops, Complete, HasList
<1>5. CASE Loads(x)
  BY <1>5 DEF Loads, Complete
<1>6. ASSUME NEW y \in Player, Parts(x, y)
      PROVE  Complete(x)'
  <2>1. CASE HasList(x)
    BY <1>0, <1>6, <2>1, WithoutType DEF Parts, Complete
  <2>2. CASE ~HasList(x)
    BY <1>0, <1>6, <2>2, WithoutType DEF Parts, Complete, HasList
  <2> QED
    BY <2>1, <2>2
<1>7. ASSUME NEW y \in Player, Befriends(x, y)
      PROVE  Complete(x)'
  <2> DEFINE l == [ListOf(x) EXCEPT !.f = @ \cup {y}]
  <2>1. SavedList(x, l)
    BY <1>0, <1>7, SavingMoves
  <2>2. l.f = ListOf(x).f \cup {y} /\ l.whole = ListOf(x).whole
    BY <1>1 DEF List
  <2> HIDE DEF l
  <2>3. list'[x].f = l.f /\ list'[x].whole = l.whole
    BY <2>1, StoreEffect DEF SavedList
  <2> QED
    BY <1>1, <1>7, <2>2, <2>3 DEF Befriends, Complete
<1>8. ASSUME NEW y \in Player, Bans(x, y)
      PROVE  Complete(x)'
  <2> DEFINE l == [ListOf(x) EXCEPT !.f = @ \ {y}, !.b = @ \cup {y}]
  <2>1. SavedList(x, l)
    BY <1>0, <1>8, SavingMoves
  <2>2. l.f = ListOf(x).f \ {y} /\ l.whole = ListOf(x).whole
    BY <1>1 DEF List
  <2> HIDE DEF l
  <2>3. list'[x].f = l.f /\ list'[x].whole = l.whole
    BY <2>1, StoreEffect DEF SavedList
  <2>4. Accepted(x)' = IF y \in ListOf(x).f THEN Accepted(x) \ {y} ELSE Accepted(x)
    BY <1>8 DEF Bans
  <2> QED
    BY <1>1, <2>2, <2>3, <2>4 DEF Complete
<1>9. ASSUME NEW l \in List, Resaves(x, l)
      PROVE  Complete(x)'
  <2>0. SavedList(x, l)
    BY <1>0, <1>9, SavingMoves
  <2>1. list'[x].f = l.f /\ list'[x].whole = l.whole
    BY <2>0, StoreEffect DEF SavedList
  <2> QED
    BY <1>9, <2>1 DEF Resaves, Complete
<1>10. ASSUME NEW y \in Player, Befriended(x, y)
      PROVE  Complete(x)'
  <2>1. list'[x] = NoList
    BY <1>10, BaseStep DEF Befriended, Base, TypeOK, HasList
  <2> QED
    BY <2>1 DEF Complete, HasList
<1>12. CASE Returns(x)
  BY <1>12 DEF Returns, Complete, HasList
<1>13. ASSUME NEW l \in List \cup {NoList}, Arrives(x, l)
       PROVE  Complete(x)'
  <2>1. CASE l = NoList
    BY <1>13, <2>1 DEF Arrives, Complete, HasList
  <2>2. CASE l # NoList /\ Overtaken(x, l)
    <3>1. list'[x] = [l EXCEPT !.whole = FALSE]
      BY <1>13, <2>2 DEF Arrives
    <3>2. ~list'[x].whole
      BY <2>2, <3>1 DEF List
    <3> QED
      BY <3>2 DEF Complete
  <2>3. CASE l # NoList /\ ~Overtaken(x, l)
    <3>1. l = Built(x) /\ Gone(x) = {} /\ Accepted(x)' = Accepted(x) /\ list'[x].f = l.f
      BY <1>13, <2>3 DEF Arrives, Overtaken, List
    <3>2. rows[x] # <<>> /\ Built(x).f = rows[x][1].f \cup (Accepted(x) \ rows[x][1].b)
      BY <2>3, <3>1 DEF Built
    <3>3. Accepted(x) \cap rows[x][1].b = {}
      BY <3>1, <3>2 DEF Gone, Accepted
    <3> QED
      BY <3>1, <3>2, <3>3 DEF Complete
  <2> QED
    BY <2>1, <2>2, <2>3
<1>11. Moves(x)
  BY StepMoves DEF Base
<1> QED
  BY <1>2, <1>3, <1>4, <1>5, <1>6, <1>7, <1>8, <1>9, <1>10, <1>11, <1>12, <1>13
  DEF Moves, Rests, Forgotten, Waits

\* A list read from its row, or begun before anything was accepted, holds
\* every accepted friend, whoever was away when the request was accepted and
\* whatever a crash took; only a list built for a query and overtaken does not.
THEOREM NoFriendIsMissing == Spec => []AcceptedAreFriends
<1>1. Init => AcceptedAreFriends
  BY DEF Init, AcceptedAreFriends, HasList
<1>2. Base /\ AcceptedAreFriends /\ [Next]_vars => AcceptedAreFriends'
  BY CompleteStep DEF AcceptedAreFriends, Complete
<1> QED
  BY <1>1, <1>2, Based, PTL DEF Spec

-----------------------------------------------------------------------------
\* Fourth layer: what a crash leaves

\* What a list has in its row and in accepted requests, as saved.
Durable(x) ==
    overtaken[x] = 0 /\ HasList(x) =>
        IF list[x].row = 0 THEN list[x].f = {} /\ list[x].b = {}
        ELSE LET row == rows[x][list[x].row]
             IN  /\ list[x].b = row.b
                 /\ Quiet => list[x].f \subseteq row.f \cup Accepted(x)

LEMMA FaultsCount ==
    ASSUME TypeOK, [Next]_vars
    PROVE  /\ restarts \in Nat
           /\ \A x \in Player : overtaken[x] \in Nat /\ (overtaken'[x] = 0 => overtaken[x] = 0)
           /\ Quiet' => Quiet
<1>1. restarts \in Nat /\ \A x \in Player : overtaken[x] \in Nat
  BY FriendsAssumption DEF TypeOK
<1>2. /\ restarts' \in {restarts, restarts + 1}
      /\ \A x \in Player : overtaken'[x] \in {overtaken[x], overtaken[x] + 1}
  BY CacheMoves
<1>3. restarts' = 0 => restarts = 0
  BY <1>1, <1>2
<1>4. \A x \in Player : overtaken'[x] = 0 => overtaken[x] = 0
  BY <1>1, <1>2
<1> QED
  BY <1>1, <1>3, <1>4 DEF Quiet

\* A list that comes from a query in time is the one a load would build.
LEMMA ArrivesInTime ==
    ASSUME TypeOK, NEW x \in Player, NEW l \in List \cup {NoList}, Arrives(x, l), overtaken'[x] = 0,
           l # NoList
    PROVE  /\ rows[x] # <<>> /\ rows'[x] = rows[x] /\ Accepted(x)' = Accepted(x)
           /\ list'[x].row = 1 /\ list'[x].b = rows[x][1].b
           /\ list'[x].f = rows[x][1].f \cup (Accepted(x) \ rows[x][1].b)
<1>1. overtaken[x] \in Nat
  BY DEF TypeOK
<1>2. ~Overtaken(x, l)
  BY <1>1 DEF Arrives
<1>3. l = Built(x) /\ l \in List /\ list'[x] = [l EXCEPT !.whole = TRUE]
  BY <1>2 DEF Arrives, Overtaken
<1>4. list'[x].row = l.row /\ list'[x].b = l.b /\ list'[x].f = l.f
  BY <1>3 DEF List
<1>5. rows[x] # <<>>
  BY <1>3 DEF Built
<1>6. l = [row |-> 1, f |-> rows[x][1].f \cup (Accepted(x) \ rows[x][1].b),
           b |-> rows[x][1].b, whole |-> TRUE]
  BY <1>3, <1>5 DEF Built
<1> QED
  BY <1>4, <1>5, <1>6 DEF Arrives

\* Before the first restart and the first query overtaken a player has one
\* row at most, a list in memory
\* is that row or none, and a player in memory without a list has none.
LEMMA OneRow ==
    ASSUME Base, Quiet, NEW x \in Player
    PROVE  /\ Len(rows[x]) \in 0..1
           /\ HasList(x) => list[x].row \in 0..1
           /\ x \in cached /\ ~HasList(x) => rows[x] = <<>>
<1>0. restarts = 0 /\ overtaken[x] = 0
  BY DEF Quiet
<1>1. rows[x] \in Seq(Row) /\ Len(rows[x]) \in Nat /\ Len(rows[x]) <= 1
  BY <1>0 DEF Base, TypeOK
<1>2. HasList(x) => list[x].row \in Nat /\ list[x].row <= Len(rows[x])
  BY DEF Base, TypeOK, HasList, List
<1>3. x \in cached /\ ~HasList(x) => Len(rows[x]) <= 0
  BY <1>0 DEF Base, Unsaved
<1>4. Len(rows[x]) \in 0..1 /\ (Len(rows[x]) <= 0 => Len(rows[x]) = 0)
  <2>1. \A n \in Nat : n <= 1 => n \in 0..1 /\ (n <= 0 => n = 0)
    OBVIOUS
  <2>2. Len(rows[x]) \in Nat /\ Len(rows[x]) <= 1
    BY <1>1
  <2> QED
    BY <2>1, <2>2
<1>5. Len(rows[x]) = 0 => rows[x] = <<>>
  BY <1>1, EmptySeq
<1>6. HasList(x) => list[x].row \in 0..1
  BY <1>1, <1>2
<1> QED
  BY <1>3, <1>4, <1>5, <1>6

LEMMA DurableStep ==
    ASSUME Base, Base', NeverBoth, Kept, [Next]_vars, NEW x \in Player, Durable(x)
    PROVE  Durable(x)'
<1>0. TypeOK /\ (Quiet' => Quiet) /\ (overtaken'[x] = 0 => overtaken[x] = 0)
  BY FaultsCount DEF Base
<1>1. CASE Same(x) /\ Accepted(x)' = Accepted(x)
  BY <1>0, <1>1 DEF Same, Durable, HasList
<1>2. ASSUME NEW l, SavedList(x, l)
      PROVE  Durable(x)'
  <2>1. /\ list'[x].f = l.f /\ list'[x].b = l.b
        /\ list'[x].row \in 1..Len(rows'[x])
        /\ rows'[x][list'[x].row] = [f |-> l.f, b |-> l.b]
    BY <1>2, StoreEffect DEF SavedList
  <2> QED
    BY <2>1 DEF Durable
<1>3. CASE Makes(x)
  <2>1. ListOf(x).row = 0 /\ ListOf(x).f = {} /\ ListOf(x).b = {}
    BY <1>0, <1>3, ListOfType DEF Makes
  <2> QED
    BY <1>3, <2>1 DEF Makes, Durable
<1>4. CASE Drops(x)
  BY <1>4 DEF Drops, Durable, HasList
<1>5. CASE Loads(x)
  BY <1>5 DEF Loads, Durable
<1>6. ASSUME NEW y \in Player, Parts(x, y)
      PROVE  Durable(x)'
  <2>1. CASE HasList(x)
    <3>1. /\ list'[x].row = list[x].row /\ list'[x].b = list[x].b /\ list'[x].f = list[x].f \ {y}
          /\ rows'[x] = rows[x] /\ Accepted(x)' = Accepted(x) \ {y}
      BY <1>0, <1>6, <2>1, WithoutType DEF Parts
    <3> QED
      BY <1>0, <2>1, <3>1 DEF Durable
  <2>2. CASE ~HasList(x)
    BY <1>0, <1>6, <2>2, WithoutType DEF Parts, Durable, HasList
  <2> QED
    BY <2>1, <2>2
<1>7. ASSUME NEW y \in Player, Befriended(x, y)
      PROVE  Durable(x)'
  <2>1. list'[x] = NoList
    BY <1>7 DEF Befriended, Base, TypeOK, HasList
  <2> QED
    BY <2>1 DEF Durable, HasList
<1>8. ASSUME NEW z \in Player, Forgotten(x, z)
      PROVE  Durable(x)'
  <2>1. /\ list'[x] = list[x] /\ rows'[x] = rows[x] /\ Accepted(x)' = Accepted(x) \ {z}
        /\ rows[z] # <<>> /\ x \in rows[z][1].b
    BY <1>8 DEF Forgotten, Same
  <2>2. ASSUME Quiet, HasList(x), list[x].row # 0, z \in Accepted(x)
        PROVE  z \in rows[x][list[x].row].f
    <3>1. Holds(x, z) \/ Holds(z, x)
      BY <1>0, <2>2 DEF Kept
    <3>2. rows[z] \in Seq(Row) /\ 1 \in DOMAIN rows[z]
      BY <1>0, <2>1 DEF TypeOK
    <3>3. ~Holds(z, x)
      BY <2>1, <3>2 DEF Holds, NeverBoth
    <3>4. list[x].row = 1
      BY <1>0, <2>2, OneRow
    <3> QED
      BY <3>1, <3>3, <3>4 DEF Holds
  <2> QED
    BY <1>0, <2>1, <2>2 DEF Durable, HasList
<1>10. CASE Waits(x)
  <2>1. list'[x] = NoList
    BY <1>10 DEF Waits, Base, TypeOK, HasList
  <2> QED
    BY <2>1 DEF Durable, HasList
<1>11. CASE Returns(x)
  BY <1>11 DEF Returns, Durable, HasList
<1>12. ASSUME NEW l \in List \cup {NoList}, Arrives(x, l)
       PROVE  Durable(x)'
  <2>1. CASE l = NoList
    BY <1>12, <2>1 DEF Arrives, Durable, HasList
  <2>2. CASE l # NoList
    <3> SUFFICES ASSUME overtaken'[x] = 0 PROVE Durable(x)'
      BY DEF Durable
    <3>1. /\ rows'[x] = rows[x] /\ Accepted(x)' = Accepted(x)
          /\ list'[x].row = 1 /\ list'[x].b = rows[x][1].b
          /\ list'[x].f = rows[x][1].f \cup (Accepted(x) \ rows[x][1].b)
      BY <1>0, <1>12, <2>2, ArrivesInTime
    <3> QED
      BY <3>1 DEF Durable
  <2> QED
    BY <2>1, <2>2
<1>9. Moves(x)
  BY StepMoves DEF Base
<1> QED
  BY <1>0, <1>1, <1>2, <1>3, <1>4, <1>5, <1>6, <1>7, <1>8, <1>9, <1>10, <1>11, <1>12, SavingMoves
  DEF Moves, Rests

\* A saved friend is held.
LEMMA StoreHolds ==
    ASSUME Base, Base', Quiet, Quiet', NEW x \in Player, NEW l, SavedList(x, l),
           NEW y \in l.f
    PROVE  Holds(x, y)'
<1>1. /\ list'[x].f = l.f /\ rows'[x] \in Seq(Row)
      /\ list'[x].row \in 1..Len(rows'[x])
      /\ rows'[x][list'[x].row] = [f |-> l.f, b |-> l.b]
      /\ Len(rows'[x]) <= 1 + restarts + overtaken[x]
  BY StoreEffect DEF SavedList
<1>2. Len(rows'[x]) <= 1
  BY <1>1 DEF Quiet
<1>3. list'[x].row = 1 /\ rows'[x] # <<>>
  BY <1>1, <1>2
<1> QED
  BY <1>1, <1>3 DEF Holds

\* Who holds a friend goes on holding it as long as the request is there.
LEMMA HoldsStays ==
    ASSUME Base, Base', Quiet, Quiet', [Next]_vars,
           NEW x \in Player, NEW y \in Player, Holds(x, y), y \in Accepted(x)'
    PROVE  Holds(x, y)'
<1>0. TypeOK
  BY DEF Base
<1>1. CASE Same(x)
  BY <1>1 DEF Same, Holds, HasList
<1>2. x \in cached => HasList(x) /\ y \in ListOf(x).f /\ ListOf(x) \in List
  BY <1>0, OneRow, ListOfType DEF Holds
<1>3. CASE Makes(x)
  BY <1>2, <1>3 DEF Makes
<1>4. CASE Drops(x)
  BY <1>4 DEF Drops, Holds, HasList
<1>5. CASE Loads(x)
  BY <1>5 DEF Loads, Holds
<1>6. ASSUME NEW z \in Player, Parts(x, z)
      PROVE  Holds(x, y)'
  <2>1. CASE HasList(x)
    <3>1. list'[x].f = list[x].f \ {z} /\ rows'[x] = rows[x] /\ Accepted(x)' = Accepted(x) \ {z}
      BY <1>0, <1>6, <2>1, WithoutType DEF Parts
    <3> QED
      BY <2>1, <3>1 DEF Holds
  <2>2. CASE ~HasList(x)
    BY <1>0, <1>6, <2>2, WithoutType DEF Parts, Holds, HasList
  <2> QED
    BY <2>1, <2>2
<1>7. ASSUME NEW z \in Player, Befriends(x, z)
      PROVE  Holds(x, y)'
  <2> DEFINE l == [ListOf(x) EXCEPT !.f = @ \cup {z}]
  <2>1. SavedList(x, l)
    BY <1>0, <1>7, SavingMoves
  <2>2. y \in l.f
    BY <1>2, <1>7 DEF Befriends, List
  <2> HIDE DEF l
  <2> QED
    BY <2>1, <2>2, StoreHolds
<1>8. ASSUME NEW z \in Player, Bans(x, z)
      PROVE  Holds(x, y)'
  <2> DEFINE l == [ListOf(x) EXCEPT !.f = @ \ {z}, !.b = @ \cup {z}]
  <2>1. SavedList(x, l)
    BY <1>0, <1>8, SavingMoves
  <2>2. y # z
    BY <1>2, <1>8 DEF Bans
  <2>3. y \in l.f
    BY <1>2, <1>8, <2>2 DEF Bans, List
  <2> HIDE DEF l
  <2> QED
    BY <2>1, <2>3, StoreHolds
<1>9. ASSUME NEW l \in List, Resaves(x, l)
      PROVE  Holds(x, y)'
  <2>1. y \in l.f
    BY <1>9 DEF Resaves, Holds
  <2> QED
    BY <1>0, <1>9, <2>1, SavingMoves, StoreHolds
<1>11. ~Returns(x)
  BY DEF Returns, Quiet
<1>12. ASSUME NEW l \in List \cup {NoList}, Arrives(x, l)
       PROVE  Holds(x, y)'
  <2>1. rows'[x] = rows[x] /\ overtaken'[x] = 0
    BY <1>12 DEF Arrives, Quiet
  <2>2. CASE l = NoList
    BY <1>12, <2>1, <2>2 DEF Arrives, Holds, HasList
  <2>3. CASE l # NoList
    <3>1. list'[x].f = rows[x][1].f \cup (Accepted(x) \ rows[x][1].b)
      BY <1>0, <1>12, <2>1, <2>3, ArrivesInTime
    <3> QED
      BY <2>1, <3>1 DEF Holds
  <2> QED
    BY <2>2, <2>3
<1>10. Moves(x)
  BY StepMoves DEF Base
<1> QED
  BY <1>1, <1>3, <1>4, <1>5, <1>6, <1>7, <1>8, <1>9, <1>10, <1>11, <1>12
  DEF Moves, Rests, Befriended, Forgotten, Waits

\* The player who accepts, or is accepted in memory, holds the new friend.
LEMMA NewFriendIsHeld ==
    ASSUME Base, Base', Quiet, Quiet', [Next]_vars,
           NEW x \in Player, NEW y \in Accepted(x)', y \notin Accepted(x)
    PROVE  Holds(x, y)' \/ Holds(y, x)'
<1>0. TypeOK
  BY DEF Base
<1>1. ASSUME NEW a \in Player, NEW c \in Player, Befriends(a, c)
      PROVE  Holds(a, c)'
  <2> DEFINE l == [ListOf(a) EXCEPT !.f = @ \cup {c}]
  <2>1. SavedList(a, l)
    BY <1>0, <1>1, SavingMoves
  <2>2. c \in l.f
    BY <1>0, ListOfType DEF List
  <2> HIDE DEF l
  <2> QED
    BY <2>1, <2>2, StoreHolds
<1>2. Moves(x)
  BY StepMoves DEF Base
<1>6. ~Returns(x)
  BY DEF Returns, Quiet
<1>3. \E z \in Player : Befriends(x, z) \/ Befriended(x, z)
  BY <1>2, <1>6 DEF Moves, Rests, Makes, Drops, Loads, Waits, Parts, Bans, Forgotten, Resaves, Arrives
<1>4. PICK z \in Player : Befriends(x, z) \/ Befriended(x, z)
  BY <1>3
<1>5. z = y
  BY <1>4 DEF Befriends, Befriended
<1> QED
  BY <1>1, <1>4, <1>5 DEF Befriended

LEMMA KeptStep == Base /\ Base' /\ Kept /\ [Next]_vars => Kept'
<1> SUFFICES ASSUME Base, Base', Kept, [Next]_vars, Quiet',
                    NEW p \in Player, NEW q \in Accepted(p)'
             PROVE  Holds(p, q)' \/ Holds(q, p)'
  BY DEF Kept
<1>1. Quiet
  BY FaultsCount DEF Base
<1>2. q \in Player /\ p \in Accepted(q)'
  BY AcceptedNext
<1>3. CASE q \in Accepted(p)
  <2>1. Holds(p, q) \/ Holds(q, p)
    BY <1>1, <1>3 DEF Kept
  <2> QED
    BY <1>1, <1>2, <2>1, HoldsStays
<1>4. CASE q \notin Accepted(p)
  BY <1>1, <1>4, NewFriendIsHeld
<1> QED
  BY <1>3, <1>4

\* Once the saves of a list have been flushed a crash leaves its black list
\* and, before the first restart and the first query overtaken, every friend:
\* in its row or in an accepted request.
THEOREM CrashIsSafe == Spec => []CrashLosesNoEntry
<1> DEFINE Inv == Kept /\ \A x \in Player : Durable(x)
<1>1. Init => Inv
  <2> SUFFICES ASSUME Init PROVE Inv
    OBVIOUS
  <2>1. reqs = {} /\ \A x \in Player : list[x] = NoList
    BY DEF Init
  <2> QED
    BY <2>1 DEF Kept, Durable, HasList, Accepted, Between
<1>2. Base /\ Base' /\ NeverBoth /\ Inv /\ [Next]_vars => Inv'
  <2> SUFFICES ASSUME Base, Base', NeverBoth, Inv, [Next]_vars PROVE Inv'
    OBVIOUS
  <2>1. \A x \in Player : Durable(x)'
    BY DurableStep
  <2>2. Kept'
    BY KeptStep
  <2> QED
    BY <2>1, <2>2
<1>3. Base /\ NeverBoth /\ Inv => CrashLosesNoEntry
  <2> SUFFICES ASSUME Base, NeverBoth, Inv, NEW p \in Player,
                      HasList(p), overtaken[p] = 0, Flushed(p)
               PROVE  IF list[p].row = 0 THEN list[p].f = {} /\ list[p].b = {}
                      ELSE /\ list[p].b = dbRows[p][list[p].row].b
                           /\ Quiet => list[p].row = 1 /\ list[p].f \subseteq Reloaded(p)
    BY DEF CrashLosesNoEntry
  <2>1. Durable(p) /\ dbRows[p] = rows[p]
    BY DEF Flushed
  <2>2. list[p].row = 0 => list[p].f = {} /\ list[p].b = {}
    BY <2>1 DEF Durable
  <2>3. list[p].row # 0 => list[p].b = dbRows[p][list[p].row].b
    BY <2>1 DEF Durable
  <2>4. ASSUME list[p].row # 0, Quiet PROVE list[p].row = 1 /\ list[p].f \subseteq Reloaded(p)
    <3>1. list[p].row = 1
      BY <2>4, OneRow
    <3>2. DbAccepted(p) = Accepted(p)
      BY DEF Flushed, DbAccepted, Accepted
    <3>3. list[p].f \subseteq dbRows[p][1].f \cup Accepted(p) /\ list[p].b = dbRows[p][1].b
      BY <2>1, <2>4, <3>1 DEF Durable
    <3>4. list[p].f \cap list[p].b = {}
      BY DEF NeverBoth
    <3> QED
      BY <3>1, <3>2, <3>3, <3>4 DEF Reloaded
  <2> QED
    BY <2>2, <2>3, <2>4
<1> HIDE DEF Inv
<1> QED
  BY <1>1, <1>2, <1>3, Based, FriendsAreNotBanned, PTL DEF Spec
=============================================================================
