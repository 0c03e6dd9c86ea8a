--------------------------- MODULE GatewayProofs ---------------------------
(***************************************************************************)
(* Proofs about Gateway for any number of clients, connections and         *)
(* messages: types, the places of sessions, what a total loss may cost,    *)
(* and that the game logic sees the session lives of SessionLife.          *)
(*                                                                         *)
(* The invariant has five parts that are preserved one after the other:    *)
(* TypeOK and Counted speak of the values of the variables, Opens of the   *)
(* messages under way, Homes of the session tables (and needs Opens: an    *)
(* opened session is a new one), Losses of what ~lastLost promises (and    *)
(* needs the other four).                                                  *)
(***************************************************************************)
EXTENDS Gateway, FiniteSetTheorems, TLAPS

Up == {c \in Conn : srv[c] = "up"}

\* CONNECTION_SIZE_PER_GATEWAY counts the working connections, and one that
\* the gateway has not opened is not among them.
Counted ==
    /\ size = Cardinality(Up)
    /\ \A c \in Conn : gw[c] = "idle" => srv[c] = "idle"

OpenAt(c, i, k) ==
    i \in 1..Len(wire[c]) /\ wire[c][i].channel = k /\ wire[c][i].type = "Open"

OpenJob(k, i) == i \in 1..Len(jobs[k]) /\ jobs[k][i].type = "Open"

\* The opening of a session is under way at most once, and not after it
\* arrived.
OpensOnce(k) ==
    /\ client[k] = "new" => jobs[k] = <<>> /\ life[k] = "none"
    /\ \A i \in Nat : OpenJob(k, i) =>
          /\ i = 1 /\ life[k] = "none"
          /\ \A c \in Conn, j \in Nat : ~OpenAt(c, j, k)
    /\ \A c \in Conn, i \in Nat : OpenAt(c, i, k) =>
          /\ life[k] = "none" /\ client[k] # "new"
          /\ \A d \in Conn, j \in Nat : OpenAt(d, j, k) => d = c /\ j = i
Opens == \A k \in Client : OpensOnce(k)

\* What is in a table is open, and a closing job that notifies finds what it
\* has copied.
Homes ==
    /\ OneHome
    /\ \A k \in dead : life[k] = "open"
    /\ \A c \in Conn : \A k \in Holds(c) : life[k] = "open"
    /\ \A c \in Conn :
          /\ srv[c] = "idle" => sessions[c] = {}
          /\ srv[c] = "sessions" /\ notifyClose[c] => sessions[c] = pending[c]
          /\ srv[c] = "dead" /\ pending[c] # {} => notifyClose[c] /\ sessions[c] = {}

\* A closing job notifies only after a total loss.
Notified == \A c \in Conn : notifyClose[c] => lastLost

\* A close message is under way only for a client that has left.
CloseAt(c, i, k) ==
    i \in 1..Len(wire[c]) /\ wire[c][i].channel = k /\ wire[c][i].type = "Close"
CloseJob(k, i) == i \in 1..Len(jobs[k]) /\ jobs[k][i].type = "Close"
Closes ==
    \A k \in Client :
        (\E i \in Nat : CloseJob(k, i)) \/ (\E c \in Conn, i \in Nat : CloseAt(c, i, k))
            => client[k] = "closed"

Losses == Notified /\ Closes /\ SessionsSurvive /\ ClosedOnlyByClient

IInv == TypeOK /\ Counted /\ Opens /\ Homes /\ Losses

----------------------------------------------------------------------------
(* Sequences and connections.                                              *)

\* The elements of a tail are those of the sequence, one place earlier.
LEMMA TailAt ==
    ASSUME NEW S, NEW s \in Seq(S), s # <<>>
    PROVE  /\ Head(s) \in S
           /\ Head(s) = s[1]
           /\ 1 \in 1..Len(s)
           /\ Tail(s) \in Seq(S)
           /\ \A i \in Nat : i \in 1..Len(Tail(s)) => i + 1 \in 1..Len(s) /\ Tail(s)[i] = s[i + 1]
  OBVIOUS

\* The elements of an extended sequence are the old ones and the new one.
LEMMA AppendAt ==
    ASSUME NEW S, NEW s \in Seq(S), NEW e \in S
    PROVE  /\ Append(s, e) \in Seq(S)
           /\ \A i \in Nat : i \in 1..Len(Append(s, e)) =>
                 \/ i \in 1..Len(s) /\ Append(s, e)[i] = s[i]
                 \/ i = Len(s) + 1 /\ Append(s, e)[i] = e
  OBVIOUS

\* There are finitely many connections.
LEMMA UpFinite == IsFiniteSet(Up) /\ Cardinality(Up) \in Nat
  <1>1. IsFiniteSet(Conn)
    BY GatewayAssumption, FS_Interval DEF Conn
  <1>2. IsFiniteSet(Up)
    BY <1>1, FS_Subset DEF Up
  <1> QED BY <1>2, FS_CardinalityType

\* The only way to another connection: one out of the group.
LEMMA DistributedType == Distributed \subseteq Conn \cup {None}
  BY DEF Distributed

----------------------------------------------------------------------------
(* Types and the counter of connections.                                   *)

ClientJob == [type : {"Open", "Close", "Message"}, id : 0..MaxMsg]

\* The job of a client binds it to a connection and forwards a packet, or not.
LEMMA RunClientJobType ==
    ASSUME TypeOK, NEW k \in Client, RunClientJob(k)
    PROVE  /\ jobs' \in [Client -> Seq(ClientJob)]
           /\ bind' \in [Client -> Conn \cup {None}]
           /\ managed' \in [Conn -> Nat]
           /\ wire' \in [Conn -> Seq(Packet)]
  <1>1. Head(jobs[k]) \in ClientJob /\ Tail(jobs[k]) \in Seq(ClientJob)
    BY TailAt DEF TypeOK, RunClientJob, ClientJob
  <1>2. PICK b \in IF IsActive(bind[k]) THEN {bind[k]} ELSE Distributed :
            /\ managed' = IF b \in {None, bind[k]} THEN managed ELSE [managed EXCEPT ![b] = @ + 1]
            /\ wire' = IF b = None THEN wire ELSE Forward(b, k, Head(jobs[k]))
            /\ bind' = [bind EXCEPT ![k] = IF Head(jobs[k]).type = "Close" THEN None ELSE b]
    BY DEF RunClientJob
  <1>3. b \in Conn \cup {None}
    BY DistributedType DEF IsActive
  <1>4. jobs' \in [Client -> Seq(ClientJob)]
    BY <1>1 DEF TypeOK, RunClientJob, ClientJob
  <1>5. bind' \in [Client -> Conn \cup {None}]
    BY <1>2, <1>3 DEF TypeOK
  <1>6. managed' \in [Conn -> Nat]
    BY <1>2, <1>3 DEF TypeOK
  <1>7. wire' \in [Conn -> Seq(Packet)]
    <2>1. CASE wire' = wire
      BY <2>1 DEF TypeOK
    <2>2. CASE b # None /\ wire' = Forward(b, k, Head(jobs[k])) /\ srv[b] = "up"
      <3> DEFINE p == [channel |-> k, type |-> Head(jobs[k]).type, id |-> Head(jobs[k]).id]
      <3>1. p \in Packet
        BY <1>1 DEF Packet, ClientJob
      <3>2. wire[b] \in Seq(Packet) /\ b \in Conn
        BY <2>2, <1>3 DEF TypeOK
      <3>3. Append(wire[b], p) \in Seq(Packet)
        BY <3>1, <3>2, AppendAt
      <3> QED BY <2>2, <3>3 DEF Forward, TypeOK
    <2> QED BY <1>2, <2>1, <2>2 DEF Forward
  <1> QED BY <1>4, <1>5, <1>6, <1>7

\* What the connection thread does with a packet keeps the tables well typed.
LEMMA DeliverType ==
    ASSUME TypeOK, NEW c \in Conn, Deliver(c)
    PROVE  /\ wire' \in [Conn -> Seq(Packet)]
           /\ sessions' \in [Conn -> SUBSET Client]
           /\ dead' \subseteq Client
           /\ life' \in [Client -> Life]
           /\ arrived' \in [Client -> 0..MaxMsg]
  <1>1. Head(wire[c]) \in Packet /\ Tail(wire[c]) \in Seq(Packet)
    BY TailAt DEF TypeOK, Deliver
  <1>2. Head(wire[c]).channel \in Client /\ Head(wire[c]).id \in 0..MaxMsg
    BY <1>1 DEF Packet
  <1>3. wire' \in [Conn -> Seq(Packet)]
    BY <1>1 DEF TypeOK, Deliver
  <1>4. CASE ProcessOpen(c, Head(wire[c]).channel)
    BY <1>2, <1>3, <1>4 DEF ProcessOpen, TypeOK, Life
  <1>5. CASE ProcessClose(c, Head(wire[c]).channel)
    BY <1>2, <1>3, <1>5 DEF ProcessClose, TypeOK, Life
  <1>6. CASE ProcessMessage(c, Head(wire[c]).channel, Head(wire[c]).id)
    BY <1>2, <1>3, <1>6 DEF ProcessMessage, TypeOK
  <1> QED BY <1>4, <1>5, <1>6 DEF Deliver

\* A connection more or less counts.
LEMMA CountUp ==
    ASSUME TypeOK, Counted, NEW c \in Conn
    PROVE  /\ HandshakeServer(c) => size' \in Nat /\ Counted'
           /\ ConnectionClosed(c) => /\ size' \in Nat /\ Counted'
                                     /\ size' = 0 => \A d \in Conn \ {c} : srv[d] # "up"
  <1>1. IsFiniteSet(Up) /\ Cardinality(Up) \in Nat
    BY UpFinite
  <1>2. ASSUME HandshakeServer(c) PROVE size' \in Nat /\ Counted'
    <2>1. c \notin Up /\ Up' = Up \cup {c}
      BY <1>2 DEF HandshakeServer, Counted, Up, TypeOK
    <2>2. Cardinality(Up \cup {c}) = Cardinality(Up) + 1
      BY <1>1, <2>1, FS_AddElement
    <2>3. \A d \in Conn : gw'[d] = "idle" => srv'[d] = "idle"
      BY <1>2 DEF HandshakeServer, Counted, TypeOK
    <2> QED BY <1>1, <1>2, <2>1, <2>2, <2>3 DEF HandshakeServer, Counted
  <1>3. ASSUME ConnectionClosed(c)
        PROVE  /\ size' \in Nat /\ Counted'
               /\ size' = 0 => \A d \in Conn \ {c} : srv[d] # "up"
    <2>1. c \in Up /\ Up' = Up \ {c}
      BY <1>3 DEF ConnectionClosed, Up, TypeOK
    <2>2. IsFiniteSet(Up \ {c}) /\ Cardinality(Up \ {c}) = Cardinality(Up) - 1
      BY <1>1, <2>1, FS_RemoveElement
    <2>3. Cardinality(Up \ {c}) \in Nat
      BY <2>2, FS_CardinalityType
    <2>4. \A d \in Conn : gw'[d] = "idle" => srv'[d] = "idle"
      BY <1>3 DEF ConnectionClosed, Counted, TypeOK, gatewayVars
    <2>5. size' = Cardinality(Up')
      BY <1>1, <1>3, <2>1, <2>2 DEF ConnectionClosed, Counted
    <2>6. ASSUME size' = 0 PROVE \A d \in Conn \ {c} : srv[d] # "up"
      <3>1. Up \ {c} = {}
        BY <2>1, <2>2, <2>5, <2>6, FS_EmptySet
      <3> QED BY <3>1 DEF Up
    <2> QED BY <2>1, <2>3, <2>4, <2>5, <2>6 DEF Counted
  <1> QED BY <1>2, <1>3

\* Types and the counter hold initially.
LEMMA TypeInit == Init => TypeOK /\ Counted
  <1> SUFFICES ASSUME Init PROVE TypeOK /\ Counted
    OBVIOUS
  <1>1. <<>> \in Seq(ClientJob) /\ <<>> \in Seq(Packet)
    OBVIOUS
  <1>2. TypeOK
    <2>1. notifyClose \in [Conn -> BOOLEAN] /\ lastLost \in BOOLEAN
      BY Zenon DEF Init
    <2>2. 0 \in 0..MaxMsg
      BY GatewayAssumption
    <2>3. jobs \in [Client -> Seq(ClientJob)] /\ wire \in [Conn -> Seq(Packet)]
      BY <1>1 DEF Init
    <2> QED BY <2>1, <2>2, <2>3 DEF Init, TypeOK, Life, ClientJob
  <1>3. Up = {}
    BY DEF Up, Init
  <1> QED BY <1>2, <1>3, FS_EmptySet DEF Counted, Init

\* The steps of the gateway keep the types and the counter.
LEMMA TypeGatewayStep ==
    ASSUME TypeOK, Counted, GatewayStep
    PROVE  TypeOK' /\ Counted'
  <1> USE DEF gatewayVars, serverVars, logicVars
  <1>1. ASSUME NEW c \in Conn, HandshakeGateway(c) PROVE TypeOK' /\ Counted'
    BY <1>1 DEF HandshakeGateway, TypeOK, Counted, Up
  <1>2. ASSUME NEW c \in Conn, ConnectorInactive(c) PROVE TypeOK' /\ Counted'
    BY <1>2 DEF ConnectorInactive, TypeOK, Counted, Up
  <1>3. ASSUME NEW c \in Conn, ConnectorClosed(c) PROVE TypeOK' /\ Counted'
    BY <1>3 DEF ConnectorClosed, TypeOK, Counted, Up
  <1>4. ASSUME NEW k \in Client, NEW n \in 0..MaxMsg, NEW t \in {"Open", "Close", "Message"}
        PROVE  Append(jobs[k], Job(t, n)) \in Seq(ClientJob)
    <2>1. Job(t, n) \in ClientJob
      BY DEF Job, ClientJob
    <2>2. jobs[k] \in Seq(ClientJob)
      BY DEF TypeOK, ClientJob
    <2> QED BY <2>1, <2>2, AppendAt
  <1>5. ASSUME NEW k \in Client, HandshakeClient(k) PROVE TypeOK' /\ Counted'
    <2>1. Append(jobs[k], Job("Open", 0)) \in Seq(ClientJob)
      BY <1>4, GatewayAssumption
    <2> QED BY <1>5, <2>1 DEF HandshakeClient, TypeOK, Counted, Up, ClientJob
  <1>6. ASSUME NEW k \in Client, ClientSends(k) PROVE TypeOK' /\ Counted'
    <2>1. sent[k] + 1 \in 0..MaxMsg
      BY <1>6, GatewayAssumption DEF ClientSends, TypeOK
    <2>2. Append(jobs[k], Job("Message", sent[k] + 1)) \in Seq(ClientJob)
      BY <1>4, <2>1
    <2> QED BY <1>6, <2>1, <2>2 DEF ClientSends, TypeOK, Counted, Up, ClientJob
  <1>7. ASSUME NEW k \in Client, ClientCloses(k) PROVE TypeOK' /\ Counted'
    <2>1. Append(jobs[k], Job("Close", 0)) \in Seq(ClientJob)
      BY <1>4, GatewayAssumption
    <2> QED BY <1>7, <2>1 DEF ClientCloses, TypeOK, Counted, Up, ClientJob
  <1>8. ASSUME NEW k \in Client, RunClientJob(k) PROVE TypeOK' /\ Counted'
    <2>1. UNCHANGED <<client, sent, gw, serverVars, logicVars, lastLost>>
      BY <1>8 DEF RunClientJob
    <2> QED BY <1>8, <2>1, RunClientJobType DEF TypeOK, Counted, Up, ClientJob
  <1> QED BY <1>1, <1>2, <1>3, <1>5, <1>6, <1>7, <1>8 DEF GatewayStep

\* The steps of the server keep the types and the counter.
LEMMA TypeServerStep ==
    ASSUME TypeOK, Counted, ServerStep
    PROVE  TypeOK' /\ Counted'
  <1> USE DEF gatewayVars, serverVars, logicVars
  <1>1. ASSUME NEW c \in Conn, HandshakeServer(c) PROVE TypeOK' /\ Counted'
    BY <1>1, CountUp DEF HandshakeServer, TypeOK
  <1>2. ASSUME NEW c \in Conn, Deliver(c) PROVE TypeOK' /\ Counted'
    <2>1. UNCHANGED <<gatewayVars, srv, size, pending, notifyClose, lastLost>>
      BY <1>2 DEF Deliver
    <2> QED BY <1>2, <2>1, DeliverType DEF TypeOK, Counted, Up
  <1>3. ASSUME NEW c \in Conn, ConnectionClosed(c) PROVE TypeOK' /\ Counted'
    <2>1. size' \in Nat /\ Counted'
      BY <1>3, CountUp
    <2>2. lastLost' \in BOOLEAN
      BY <1>3 DEF ConnectionClosed, TypeOK
    <2>3. notifyClose' \in [Conn -> BOOLEAN]
      BY <1>3 DEF ConnectionClosed, TypeOK
    <2>4. wire' \in [Conn -> Seq(Packet)]
      BY <1>3 DEF ConnectionClosed, TypeOK
    <2> QED BY <1>3, <2>1, <2>2, <2>3, <2>4 DEF ConnectionClosed, TypeOK
  <1>4. ASSUME NEW c \in Conn, ClearDeadSession(c) PROVE TypeOK' /\ Counted'
    <2>1. Up' = Up
      BY <1>4 DEF ClearDeadSession, TypeOK, Up
    <2>2. Counted'
      BY <1>4, <2>1 DEF ClearDeadSession, TypeOK, Counted
    <2>3. \/ dead' = {} /\ pending' = [pending EXCEPT ![c] = dead]
          \/ UNCHANGED <<dead, pending>>
      BY <1>4 DEF ClearDeadSession
    <2>4. dead' \subseteq Client /\ pending' \in [Conn -> SUBSET Client]
      BY <2>3 DEF TypeOK
    <2> QED BY <1>4, <2>2, <2>4 DEF ClearDeadSession, TypeOK
  <1>5. ASSUME NEW c \in Conn, NEW k \in Client, CloseSession(c, k) PROVE TypeOK' /\ Counted'
    <2>1. \/ ProcessClose(c, k)
          \/ dead' = dead \cup {k} /\ UNCHANGED <<sessions, logicVars>>
      BY <1>5 DEF CloseSession
    <2>2. /\ dead' \subseteq Client
          /\ sessions' \in [Conn -> SUBSET Client]
          /\ life' \in [Client -> Life]
          /\ arrived' \in [Client -> 0..MaxMsg]
      <3>1. CASE ProcessClose(c, k)
        BY <3>1 DEF ProcessClose, TypeOK, Life
      <3>2. CASE dead' = dead \cup {k} /\ UNCHANGED <<sessions, logicVars>>
        BY <3>2 DEF TypeOK
      <3> QED BY <2>1, <3>1, <3>2
    <2> QED BY <1>5, <2>2 DEF CloseSession, TypeOK, Counted, Up
  <1>6. ASSUME NEW c \in Conn, NEW k \in Client, NotifyDeadSession(c, k) PROVE TypeOK' /\ Counted'
    BY <1>6 DEF NotifyDeadSession, ProcessClose, TypeOK, Counted, Up, Life
  <1> QED BY <1>1, <1>2, <1>3, <1>4, <1>5, <1>6 DEF ServerStep

----------------------------------------------------------------------------
(* Sessions that are found.                                                *)

\* The table a close or a message is looked up in holds open sessions only.
LEMMA FoundIsOpen ==
    ASSUME TypeOK, Homes, NEW c \in Conn, NEW k \in Client,
           k \in sessions[c] \cup dead,
           \/ srv[c] = "up"
           \/ srv[c] = "sessions" /\ notifyClose[c]
           \/ srv[c] = "dead" /\ pending[c] # {}
    PROVE  life[k] = "open"
  <1>1. CASE k \in dead
    BY <1>1 DEF Homes
  <1>2. CASE srv[c] = "up" /\ k \in sessions[c]
    BY <1>2 DEF Homes, Holds
  <1>3. CASE srv[c] = "sessions" /\ notifyClose[c] /\ k \in sessions[c]
    BY <1>3 DEF Homes, Holds
  <1>4. CASE srv[c] = "dead" /\ pending[c] # {} /\ k \in sessions[c]
    BY <1>4 DEF Homes
  <1> QED BY <1>1, <1>2, <1>3, <1>4

\* What a close message does to the game logic: nothing, or the end of an open
\* session.
LEMMA CloseEffect ==
    ASSUME TypeOK, Homes, NEW c \in Conn, NEW k \in Client, ProcessClose(c, k),
           \/ srv[c] = "up"
           \/ srv[c] = "sessions" /\ notifyClose[c]
           \/ srv[c] = "dead" /\ pending[c] # {}
    PROVE  /\ arrived' = arrived
           /\ \/ life' = life
              \/ life[k] = "open" /\ life' = [life EXCEPT ![k] = "closed"]
  <1>1. CASE k \in sessions[c] \cup dead
    <2>1. life[k] = "open"
      BY <1>1, FoundIsOpen
    <2> QED BY <1>1, <2>1 DEF ProcessClose
  <1>2. CASE k \notin sessions[c] \cup dead
    BY <1>2 DEF ProcessClose
  <1> QED BY <1>1, <1>2

\* What the closing job does to the game logic.
LEMMA ClosingEffect ==
    ASSUME TypeOK, Homes, NEW c \in Conn, NEW k \in Client,
           CloseSession(c, k) \/ NotifyDeadSession(c, k)
    PROVE  /\ arrived' = arrived
           /\ \/ life' = life
              \/ life[k] = "open" /\ life' = [life EXCEPT ![k] = "closed"]
  <1>1. CASE CloseSession(c, k) /\ notifyClose[c]
    <2>1. srv[c] = "sessions" /\ ProcessClose(c, k)
      BY <1>1 DEF CloseSession
    <2> QED BY <1>1, <2>1, CloseEffect
  <1>2. CASE CloseSession(c, k) /\ ~notifyClose[c]
    BY <1>2 DEF CloseSession, logicVars
  <1>3. CASE NotifyDeadSession(c, k)
    <2>1. srv[c] = "dead" /\ pending[c] # {} /\ ProcessClose(c, k)
      BY <1>3 DEF NotifyDeadSession
    <2> QED BY <2>1, CloseEffect
  <1> QED BY <1>1, <1>2, <1>3

----------------------------------------------------------------------------
(* Openings under way.                                                     *)

\* Nothing is under way initially.
LEMMA OpensInit == Init => Opens
  BY DEF Init, Opens, OpensOnce, OpenAt, OpenJob

\* Fewer packets under way, no new jobs and no session back to "none".
LEMMA OpensShrink ==
    ASSUME TypeOK, Opens, UNCHANGED <<client, jobs>>,
           \A c \in Conn, i \in Nat, k \in Client : OpenAt(c, i, k)' => OpenAt(c, i, k),
           \A k \in Client : life[k] = "none" => life'[k] = "none"
    PROVE  Opens'
  <1>1. \A k \in Client, i \in Nat : OpenJob(k, i)' => OpenJob(k, i)
    BY DEF OpenJob
  <1> QED BY <1>1 DEF Opens, OpensOnce

\* A client's thread gets another job, the opening one only as the first.
LEMMA OpensJob ==
    ASSUME TypeOK, Opens, NEW k \in Client, NEW job \in ClientJob,
           jobs' = [jobs EXCEPT ![k] = Append(@, job)],
           client' = client \/ \E x \in {"open", "closed"} : client' = [client EXCEPT ![k] = x],
           job.type = "Open" => client[k] = "new",
           client'[k] # "new",
           UNCHANGED <<wire, life>>
    PROVE  Opens'
  <1>1. \A c \in Conn, i \in Nat, l \in Client : OpenAt(c, i, l)' <=> OpenAt(c, i, l)
    BY DEF OpenAt
  <1>2. \A l \in Client \ {k} : jobs'[l] = jobs[l] /\ client'[l] = client[l]
    BY DEF TypeOK
  <1>3. \A l \in Client \ {k}, i \in Nat : OpenJob(l, i)' <=> OpenJob(l, i)
    BY <1>2 DEF OpenJob
  <1>4. jobs[k] \in Seq(ClientJob) /\ jobs'[k] = Append(jobs[k], job)
    BY DEF TypeOK, ClientJob
  <1>5. \A i \in Nat : OpenJob(k, i)' => OpenJob(k, i) \/ (i = 1 /\ client[k] = "new")
    <2> SUFFICES ASSUME NEW i \in Nat, OpenJob(k, i)', ~OpenJob(k, i)
                 PROVE  i = 1 /\ client[k] = "new"
      OBVIOUS
    <2>1. i = Len(jobs[k]) + 1 /\ jobs'[k][i] = job
      BY <1>4, AppendAt DEF OpenJob
    <2>2. client[k] = "new"
      BY <2>1 DEF OpenJob
    <2>3. Len(jobs[k]) = 0
      BY <2>2 DEF Opens, OpensOnce
    <2> QED BY <2>1, <2>2, <2>3
  <1>6. client[k] = "new" => life[k] = "none" /\ \A c \in Conn, j \in Nat : ~OpenAt(c, j, k)
    BY DEF Opens, OpensOnce
  <1> SUFFICES ASSUME NEW l \in Client PROVE OpensOnce(l)'
    BY DEF Opens
  <1>7. CASE l # k
    BY <1>1, <1>2, <1>3, <1>7 DEF Opens, OpensOnce
  <1>8. CASE l = k
    BY <1>1, <1>5, <1>6, <1>8 DEF Opens, OpensOnce
  <1> QED BY <1>7, <1>8

\* The next job is taken off and, perhaps, its packet put on one wire.
LEMMA OpensRunClientJob ==
    ASSUME TypeOK, Opens, NEW k \in Client, RunClientJob(k)
    PROVE  Opens'
  <1>1. jobs[k] \in Seq(ClientJob) /\ jobs[k] # <<>> /\ jobs' = [jobs EXCEPT ![k] = Tail(@)]
    BY DEF TypeOK, ClientJob, RunClientJob
  <1> DEFINE p == [channel |-> k, type |-> Head(jobs[k]).type, id |-> Head(jobs[k]).id]
  <1>2. UNCHANGED <<client, life>>
    BY DEF RunClientJob, logicVars
  <1>3. \/ wire' = wire
        \/ \E b \in Conn : wire' = [wire EXCEPT ![b] = Append(@, p)]
    <2>1. PICK b \in IF IsActive(bind[k]) THEN {bind[k]} ELSE Distributed :
              wire' = IF b = None THEN wire ELSE Forward(b, k, Head(jobs[k]))
      BY DEF RunClientJob
    <2>2. b \in Conn \cup {None}
      BY DistributedType DEF IsActive
    <2> QED BY <2>1, <2>2 DEF Forward
  <1>4. p \in Packet
    <2>1. Head(jobs[k]) \in ClientJob
      BY <1>1, TailAt
    <2> QED BY <2>1 DEF Packet, ClientJob
  <1>5. \A l \in Client, i \in Nat : OpenJob(l, i)' =>
            IF l = k THEN i > 0 /\ OpenJob(k, i + 1) ELSE OpenJob(l, i)
    BY <1>1, TailAt DEF OpenJob, TypeOK
  <1>6. \A i \in Nat : ~OpenJob(k, i)'
    BY <1>5 DEF Opens, OpensOnce
  <1>7. \A c \in Conn, i \in Nat, l \in Client : OpenAt(c, i, l)' =>
            \/ OpenAt(c, i, l)
            \/ l = k /\ OpenJob(k, 1) /\ wire' = [wire EXCEPT ![c] = Append(@, p)] /\ i = Len(wire[c]) + 1
    <2> SUFFICES ASSUME NEW c \in Conn, NEW i \in Nat, NEW l \in Client, OpenAt(c, i, l)', ~OpenAt(c, i, l)
                 PROVE  l = k /\ OpenJob(k, 1) /\ wire' = [wire EXCEPT ![c] = Append(@, p)] /\ i = Len(wire[c]) + 1
      OBVIOUS
    <2>1. PICK b \in Conn : wire' = [wire EXCEPT ![b] = Append(@, p)]
      BY <1>3 DEF OpenAt
    <2>2. b = c
      BY <2>1 DEF OpenAt, TypeOK
    <2>3. wire[c] \in Seq(Packet) /\ wire'[c] = Append(wire[c], p)
      BY <2>1, <2>2 DEF TypeOK
    <2>4. i = Len(wire[c]) + 1 /\ wire'[c][i] = p
      BY <2>3, <1>4, AppendAt DEF OpenAt
    <2>5. l = k /\ Head(jobs[k]).type = "Open"
      BY <2>4 DEF OpenAt
    <2>6. OpenJob(k, 1)
      BY <2>5, <1>1, TailAt DEF OpenJob
    <2> QED BY <2>1, <2>2, <2>4, <2>5, <2>6
  <1> SUFFICES ASSUME NEW l \in Client PROVE OpensOnce(l)'
    BY DEF Opens
  <1>8. client[l] = "new" => jobs'[l] = <<>> /\ life[l] = "none"
    BY <1>1 DEF Opens, OpensOnce, TypeOK
  <1>9. CASE ~OpenJob(k, 1) \/ l # k
    <2>1. \A c \in Conn, i \in Nat : OpenAt(c, i, l)' => OpenAt(c, i, l)
      BY <1>7, <1>9
    <2>2. \A i \in Nat : OpenJob(l, i)' => OpenJob(l, i)
      BY <1>5, <1>6
    <2> QED BY <1>2, <1>8, <2>1, <2>2 DEF Opens, OpensOnce
  <1>10. CASE OpenJob(k, 1) /\ l = k
    <2>1. life[k] = "none" /\ client[k] # "new" /\ \A c \in Conn, i \in Nat : ~OpenAt(c, i, k)
      BY <1>1, <1>10 DEF Opens, OpensOnce, OpenJob
    <2>2. \A c, d \in Conn, i, j \in Nat : OpenAt(c, i, k)' /\ OpenAt(d, j, k)' => c = d /\ i = j
      <3> SUFFICES ASSUME NEW c \in Conn, NEW d \in Conn, NEW i \in Nat, NEW j \in Nat,
                          OpenAt(c, i, k)', OpenAt(d, j, k)'
                   PROVE  c = d /\ i = j
        OBVIOUS
      <3>1. wire' = [wire EXCEPT ![c] = Append(@, p)] /\ i = Len(wire[c]) + 1
        BY <1>7, <2>1
      <3>2. wire' = [wire EXCEPT ![d] = Append(@, p)] /\ j = Len(wire[d]) + 1
        BY <1>7, <2>1
      <3>3. wire[c] \in Seq(Packet)
        BY DEF TypeOK
      <3>4. Len(Append(wire[c], p)) # Len(wire[c])
        BY <3>3, <1>4
      <3>5. c # d => wire'[c] = wire[c]
        BY <3>2 DEF TypeOK
      <3>6. wire'[c] = Append(wire[c], p)
        BY <3>1 DEF TypeOK
      <3> QED BY <3>1, <3>2, <3>4, <3>5, <3>6
    <2> QED BY <1>2, <1>6, <1>8, <1>10, <2>1, <2>2 DEF OpensOnce
  <1> QED BY <1>9, <1>10

\* The packet a connection thread takes off the wire: an opening is the only
\* one of its session, everything else changes only sessions that are open.
LEMMA OpensDeliver ==
    ASSUME TypeOK, Opens, Homes, NEW c \in Conn, Deliver(c)
    PROVE  Opens'
  <1>1. /\ wire[c] \in Seq(Packet) /\ wire[c] # <<>> /\ wire' = [wire EXCEPT ![c] = Tail(@)]
        /\ UNCHANGED <<client, jobs>> /\ srv[c] = "up"
    BY DEF TypeOK, Deliver, gatewayVars
  <1> DEFINE msg == Head(wire[c])
  <1>2. msg = wire[c][1] /\ 1 \in 1..Len(wire[c]) /\ msg \in Packet /\ msg.channel \in Client
    <2>1. msg = wire[c][1] /\ 1 \in 1..Len(wire[c]) /\ msg \in Packet
      BY <1>1, TailAt
    <2> QED BY <2>1 DEF Packet
  <1>3. \A d \in Conn, i \in Nat, l \in Client : OpenAt(d, i, l)' =>
            IF d = c THEN i > 0 /\ OpenAt(c, i + 1, l) ELSE OpenAt(d, i, l)
    BY <1>1, TailAt DEF OpenAt, TypeOK
  <1>4. \A l \in Client, i \in Nat : OpenJob(l, i)' => OpenJob(l, i)
    BY <1>1 DEF OpenJob
  <1> SUFFICES ASSUME NEW l \in Client PROVE OpensOnce(l)'
    BY DEF Opens
  <1>5. \A d, e \in Conn, i, j \in Nat : OpenAt(d, i, l)' /\ OpenAt(e, j, l)' => d = e /\ i = j
    <2> SUFFICES ASSUME NEW d \in Conn, NEW e \in Conn, NEW i \in Nat, NEW j \in Nat,
                        OpenAt(d, i, l)', OpenAt(e, j, l)'
                 PROVE  d = e /\ i = j
      OBVIOUS
    <2>1. OpenAt(d, IF d = c THEN i + 1 ELSE i, l) /\ OpenAt(e, IF e = c THEN j + 1 ELSE j, l)
      BY <1>3
    <2>2. d = e /\ (IF d = c THEN i + 1 ELSE i) = (IF e = c THEN j + 1 ELSE j)
      BY <2>1 DEF Opens, OpensOnce
    <2> QED BY <2>2
  <1>6. \A d \in Conn, i \in Nat : OpenAt(d, i, l)' => \E j \in Nat : OpenAt(d, j, l)
    BY <1>3
  <1>7. CASE life'[l] = life[l] \/ life[l] # "none"
    BY <1>1, <1>4, <1>5, <1>6, <1>7 DEF Opens, OpensOnce
  <1>8. CASE life'[l] # life[l] /\ life[l] = "none"
    <2>1. msg.type = "Open" /\ l = msg.channel
      <3>1. CASE ProcessClose(c, msg.channel)
        BY <1>1, <1>2, <1>8, <3>1, CloseEffect DEF TypeOK
      <3>2. CASE ProcessMessage(c, msg.channel, msg.id)
        BY <1>8, <3>2 DEF ProcessMessage
      <3>3. CASE msg.type = "Open" /\ ProcessOpen(c, msg.channel)
        BY <1>8, <3>3 DEF ProcessOpen, TypeOK
      <3> QED BY <3>1, <3>2, <3>3 DEF Deliver
    <2>2. OpenAt(c, 1, l)
      BY <1>2, <2>1 DEF OpenAt
    <2>3. \A d \in Conn, i \in Nat : ~OpenAt(d, i, l)'
      BY <1>3, <2>2 DEF Opens, OpensOnce
    <2>4. client[l] # "new" /\ \A i \in Nat : ~OpenJob(l, i)
      BY <2>2 DEF Opens, OpensOnce
    <2> QED BY <1>1, <1>4, <2>3, <2>4 DEF OpensOnce
  <1> QED BY <1>7, <1>8

\* Every step keeps the openings in order.
LEMMA OpensStep ==
    ASSUME TypeOK, Opens, Homes, Next
    PROVE  Opens'
  <1> USE DEF gatewayVars, serverVars, logicVars
  <1>1. ASSUME UNCHANGED <<client, jobs, wire, life>> PROVE Opens'
    BY <1>1, OpensShrink DEF OpenAt
  <1>2. ASSUME NEW c \in Conn, HandshakeGateway(c) \/ ConnectorInactive(c) \/ ConnectorClosed(c)
                               \/ HandshakeServer(c) \/ ClearDeadSession(c)
        PROVE  Opens'
    BY <1>1, <1>2 DEF HandshakeGateway, ConnectorInactive, ConnectorClosed, HandshakeServer,
                      ClearDeadSession
  <1>3. ASSUME NEW k \in Client, HandshakeClient(k) PROVE Opens'
    <2>1. Job("Open", 0) \in ClientJob
      BY GatewayAssumption DEF Job, ClientJob
    <2>2. client' = [client EXCEPT ![k] = "open"] /\ client'[k] = "open"
      BY <1>3 DEF HandshakeClient, TypeOK
    <2> QED BY <1>3, <2>1, <2>2, OpensJob DEF HandshakeClient
  <1>4. ASSUME NEW k \in Client, ClientSends(k) PROVE Opens'
    <2>1. Job("Message", sent[k] + 1) \in ClientJob
      BY <1>4, GatewayAssumption DEF ClientSends, Job, ClientJob, TypeOK
    <2>2. Job("Message", sent[k] + 1).type # "Open" /\ client'[k] # "new"
      BY <1>4 DEF Job, ClientSends
    <2> QED BY <1>4, <2>1, <2>2, OpensJob DEF ClientSends
  <1>5. ASSUME NEW k \in Client, ClientCloses(k) PROVE Opens'
    <2>1. Job("Close", 0) \in ClientJob /\ Job("Close", 0).type # "Open"
      BY GatewayAssumption DEF Job, ClientJob
    <2>2. client' = [client EXCEPT ![k] = "closed"] /\ client'[k] = "closed"
      BY <1>5 DEF ClientCloses, TypeOK
    <2> QED BY <1>5, <2>1, <2>2, OpensJob DEF ClientCloses
  <1>6. ASSUME NEW c \in Conn, ConnectionClosed(c) PROVE Opens'
    <2>1. \A d \in Conn, i \in Nat, k \in Client : OpenAt(d, i, k)' => OpenAt(d, i, k)
      BY <1>6 DEF ConnectionClosed, OpenAt, TypeOK
    <2> QED BY <1>6, <2>1, OpensShrink DEF ConnectionClosed
  <1>7. ASSUME NEW c \in Conn, NEW k \in Client, CloseSession(c, k) \/ NotifyDeadSession(c, k)
        PROVE  Opens'
    <2>1. UNCHANGED <<client, jobs, wire>>
      BY <1>7 DEF CloseSession, NotifyDeadSession
    <2>2. \A l \in Client : life[l] = "none" => life'[l] = "none"
      BY <1>7, ClosingEffect DEF TypeOK
    <2>3. \A d \in Conn, i \in Nat, l \in Client : OpenAt(d, i, l)' => OpenAt(d, i, l)
      BY <2>1 DEF OpenAt
    <2> QED BY <2>1, <2>2, <2>3, OpensShrink
  <1> QED BY <1>2, <1>3, <1>4, <1>5, <1>6, <1>7, OpensRunClientJob, OpensDeliver
          DEF Next, GatewayStep, ServerStep

----------------------------------------------------------------------------
(* The tables of sessions.                                                 *)

\* The tables are empty initially.
LEMMA HomesInit == Init => Homes
  BY DEF Init, Homes, OneHome, Holds

\* A packet is processed on the thread of a working connection.
LEMMA HomesDeliver ==
    ASSUME TypeOK, Opens, Homes, NEW c \in Conn, Deliver(c)
    PROVE  Homes'
  <1>1. srv[c] = "up" /\ UNCHANGED <<srv, pending, notifyClose>>
    BY DEF Deliver
  <1>2. PICK msg \in Packet : /\ msg = Head(wire[c]) /\ msg = wire[c][1] /\ msg.channel \in Client
                              /\ 1 \in 1..Len(wire[c])
    <2>1. wire[c] \in Seq(Packet) /\ wire[c] # <<>>
      BY DEF Deliver, TypeOK
    <2>2. Head(wire[c]) \in Packet /\ Head(wire[c]) = wire[c][1] /\ 1 \in 1..Len(wire[c])
      BY <2>1, TailAt
    <2> QED BY <2>2 DEF Packet
  <1> DEFINE k == msg.channel
  <1>3. \A d \in Conn \ {c} : Holds(d)' = Holds(d) /\ sessions'[d] = sessions[d]
    BY <1>1 DEF Deliver, ProcessOpen, ProcessClose, ProcessMessage, Holds, TypeOK
  <1>4. Holds(c) = sessions[c] /\ Holds(c)' = sessions'[c]
    BY <1>1 DEF Holds
  <1>5. \A d \in Conn :
          /\ srv'[d] = "idle" => sessions'[d] = {}
          /\ srv'[d] = "sessions" /\ notifyClose'[d] => sessions'[d] = pending'[d]
          /\ srv'[d] = "dead" /\ pending'[d] # {} => notifyClose'[d] /\ sessions'[d] = {}
    BY <1>1, <1>3 DEF Homes
  <1>6. CASE msg.type = "Open" /\ ProcessOpen(c, k)
    <2>1. life[k] = "none"
      <3>1. OpenAt(c, 1, k)
        BY <1>2, <1>6 DEF OpenAt
      <3> QED BY <1>2, <3>1 DEF Opens, OpensOnce
    <2>2. k \notin dead /\ \A d \in Conn : k \notin Holds(d)
      BY <2>1 DEF Homes
    <2>3. sessions'[c] = sessions[c] \cup {k} /\ dead' = dead
      BY <1>6 DEF ProcessOpen, TypeOK
    <2>4. \A l \in Client : life'[l] = IF l = k THEN "open" ELSE life[l]
      BY <1>6, <1>2 DEF ProcessOpen, TypeOK
    <2>5. OneHome'
      BY <1>3, <1>4, <2>2, <2>3 DEF Homes, OneHome
    <2>6. dead \subseteq Client /\ \A d \in Conn : Holds(d) \subseteq Client
      BY DEF TypeOK, Holds
    <2>7. \A l \in dead' : life'[l] = "open"
      BY <2>3, <2>4, <2>6 DEF Homes
    <2>8. \A d \in Conn : \A l \in Holds(d)' : life'[l] = "open"
      <3>1. \A d \in Conn : \A l \in Holds(d)' : l \in Holds(d) \/ l = k
        BY <1>3, <1>4, <2>3
      <3>2. \A d \in Conn : \A l \in Holds(d) : life'[l] = "open"
        BY <2>4, <2>6 DEF Homes
      <3> QED BY <1>2, <2>4, <3>1, <3>2
    <2> QED BY <1>5, <2>5, <2>7, <2>8 DEF Homes
  <1>7. CASE ProcessClose(c, k)
    <2>1. /\ sessions'[c] = sessions[c] \ {k}
          /\ dead' = IF k \in sessions[c] THEN dead ELSE dead \ {k}
          /\ \A l \in Client \ {k} : life'[l] = life[l]
      BY <1>7, <1>2 DEF ProcessClose, TypeOK
    <2>2. k \notin dead' /\ \A d \in Conn : k \in Holds(d)' => d # c /\ k \in Holds(d) /\ life'[k] = life[k]
      <3>1. k \notin dead'
        BY <1>2, <1>4, <2>1 DEF Homes, OneHome
      <3>2. ASSUME NEW d \in Conn, k \in Holds(d)' PROVE d # c /\ k \in Holds(d) /\ life'[k] = life[k]
        <4>1. d # c /\ k \in Holds(d)
          BY <1>3, <1>4, <2>1, <3>2
        <4>2. k \notin sessions[c] /\ k \notin dead
          BY <1>2, <1>4, <4>1, <3>2 DEF Homes, OneHome
        <4> QED BY <1>7, <4>1, <4>2 DEF ProcessClose
      <3> QED BY <3>1, <3>2
    <2>3. dead' \subseteq dead /\ \A d \in Conn : Holds(d)' \subseteq Holds(d)
      BY <1>3, <1>4, <2>1
    <2>4. OneHome'
      BY <2>3 DEF Homes, OneHome
    <2>5. dead \subseteq Client /\ \A d \in Conn : Holds(d) \subseteq Client
      BY DEF TypeOK, Holds
    <2> QED BY <1>5, <2>1, <2>2, <2>3, <2>4, <2>5 DEF Homes
  <1>8. CASE ProcessMessage(c, k, msg.id)
    <2>1. CASE k \in sessions[c] \/ k \notin dead
      <3>1. sessions'[c] = sessions[c] /\ dead' = dead /\ life' = life
        BY <1>8, <2>1 DEF ProcessMessage, TypeOK
      <3>2. \A d \in Conn : Holds(d)' = Holds(d)
        BY <1>3, <1>4, <3>1
      <3> QED BY <1>5, <3>1, <3>2 DEF Homes, OneHome
    <2>2. CASE k \notin sessions[c] /\ k \in dead
      <3>1. sessions'[c] = sessions[c] \cup {k} /\ dead' = dead \ {k} /\ life' = life
        BY <1>8, <2>2 DEF ProcessMessage, TypeOK
      <3>2. life[k] = "open" /\ \A d \in Conn : k \notin Holds(d)
        BY <1>2, <2>2 DEF Homes, OneHome
      <3>3. OneHome'
        BY <1>3, <1>4, <3>1, <3>2 DEF Homes, OneHome
      <3> QED BY <1>3, <1>4, <1>5, <3>1, <3>2, <3>3 DEF Homes
    <2> QED BY <2>1, <2>2
  <1> QED BY <1>2, <1>6, <1>7, <1>8 DEF Deliver

\* A session of the copy is told to be closed or put aside.
LEMMA HomesCloseSession ==
    ASSUME TypeOK, Homes, NEW c \in Conn, NEW k \in Client, CloseSession(c, k)
    PROVE  Homes'
  <1>1. /\ srv[c] = "sessions" /\ k \in pending[c]
        /\ pending' = [pending EXCEPT ![c] = @ \ {k}]
        /\ UNCHANGED <<srv, notifyClose>>
    BY DEF CloseSession
  <1>2. Holds(c) = pending[c] /\ Holds(c)' = pending[c] \ {k}
    BY <1>1 DEF Holds, TypeOK
  <1>3. life[k] = "open" /\ k \notin dead /\ \A d \in Conn \ {c} : k \notin Holds(d)
    BY <1>1, <1>2 DEF Homes, OneHome
  <1>4. dead \subseteq Client /\ \A d \in Conn : Holds(d) \subseteq Client
    BY DEF TypeOK, Holds
  <1>5. CASE notifyClose[c]
    <2>1. ProcessClose(c, k) /\ sessions[c] = pending[c]
      BY <1>1, <1>5 DEF CloseSession, Homes
    <2>2. sessions' = [sessions EXCEPT ![c] = @ \ {k}] /\ dead' = dead
      BY <1>1, <2>1 DEF ProcessClose
    <2>3. \A d \in Conn \ {c} : Holds(d)' = Holds(d) /\ sessions'[d] = sessions[d] /\ pending'[d] = pending[d]
      BY <1>1, <2>2 DEF Holds, TypeOK
    <2>4. \A l \in Client \ {k} : life'[l] = life[l]
      BY <2>1 DEF ProcessClose, TypeOK
    <2>5. OneHome'
      BY <1>2, <2>2, <2>3 DEF Homes, OneHome
    <2>6. \A l \in dead' : life'[l] = "open"
      BY <1>3, <1>4, <2>2, <2>4 DEF Homes
    <2>7. \A d \in Conn : \A l \in Holds(d)' : l # k /\ l \in Holds(d)
      BY <1>2, <1>3, <2>3
    <2>8. \A d \in Conn : \A l \in Holds(d)' : life'[l] = "open"
      BY <1>4, <2>4, <2>7 DEF Homes
    <2>9. sessions'[c] = pending'[c]
      BY <1>1, <2>1, <2>2 DEF TypeOK
    <2>10. \A d \in Conn :
            /\ srv'[d] = "idle" => sessions'[d] = {}
            /\ srv'[d] = "sessions" /\ notifyClose'[d] => sessions'[d] = pending'[d]
            /\ srv'[d] = "dead" /\ pending'[d] # {} => notifyClose'[d] /\ sessions'[d] = {}
      <3> TAKE d \in Conn
      <3>1. CASE d = c
        BY <1>1, <2>9, <3>1
      <3>2. CASE d # c
        BY <1>1, <2>3, <3>2 DEF Homes
      <3> QED BY <3>1, <3>2
    <2> QED BY <2>5, <2>6, <2>8, <2>10 DEF Homes
  <1>6. CASE ~notifyClose[c]
    <2>1. dead' = dead \cup {k} /\ UNCHANGED <<sessions, life>>
      BY <1>6 DEF CloseSession, logicVars
    <2>2. \A d \in Conn \ {c} : Holds(d)' = Holds(d) /\ pending'[d] = pending[d]
      BY <1>1, <2>1 DEF Holds, TypeOK
    <2>3. OneHome'
      BY <1>2, <1>3, <2>1, <2>2 DEF Homes, OneHome
    <2>4. \A d \in Conn : Holds(d)' \subseteq Holds(d)
      BY <1>2, <2>2
    <2> QED BY <1>1, <1>3, <1>6, <2>1, <2>2, <2>3, <2>4 DEF Homes
  <1> QED BY <1>5, <1>6

\* The close message for a session that was cleared.
LEMMA HomesNotifyDeadSession ==
    ASSUME TypeOK, Homes, NEW c \in Conn, NEW k \in Client, NotifyDeadSession(c, k)
    PROVE  Homes'
  <1>1. /\ srv[c] = "dead" /\ k \in pending[c] /\ ProcessClose(c, k)
        /\ pending' = [pending EXCEPT ![c] = @ \ {k}]
        /\ UNCHANGED <<srv, notifyClose>>
    BY DEF NotifyDeadSession
  <1>2. sessions[c] = {} /\ notifyClose[c]
    BY <1>1 DEF Homes
  <1>3. sessions' = sessions /\ dead' = dead \ {k}
    BY <1>1, <1>2 DEF ProcessClose, TypeOK
  <1>4. \A d \in Conn : Holds(d)' = Holds(d)
    BY <1>1, <1>3 DEF Holds, TypeOK
  <1>5. dead \subseteq Client /\ \A d \in Conn : Holds(d) \subseteq Client
    BY DEF TypeOK, Holds
  <1>6. \A l \in Client \ {k} : life'[l] = life[l]
    BY <1>1 DEF ProcessClose, TypeOK
  <1>7. k \notin dead => life' = life
    BY <1>1, <1>2 DEF ProcessClose
  <1>8. k \in dead => \A d \in Conn : k \notin Holds(d)
    BY DEF Homes, OneHome
  <1>9. \A l \in dead' : life'[l] = "open"
    BY <1>3, <1>5, <1>6 DEF Homes
  <1>10. \A d \in Conn : \A l \in Holds(d)' : life'[l] = "open"
    BY <1>4, <1>5, <1>6, <1>7, <1>8 DEF Homes
  <1>11. OneHome'
    BY <1>3, <1>4 DEF Homes, OneHome
  <1>12. \A d \in Conn :
          /\ srv'[d] = "idle" => sessions'[d] = {}
          /\ srv'[d] = "sessions" /\ notifyClose'[d] => sessions'[d] = pending'[d]
          /\ srv'[d] = "dead" /\ pending'[d] # {} => notifyClose'[d] /\ sessions'[d] = {}
    <2> TAKE d \in Conn
    <2>1. CASE d = c
      BY <1>1, <1>2, <1>3, <2>1 DEF Homes
    <2>2. CASE d # c
      <3>1. pending'[d] = pending[d]
        BY <1>1, <2>2 DEF TypeOK
      <3> QED BY <1>1, <1>3, <3>1 DEF Homes
    <2> QED BY <2>1, <2>2
  <1> QED BY <1>9, <1>10, <1>11, <1>12 DEF Homes

\* Every step keeps the tables in order.
LEMMA HomesStep ==
    ASSUME TypeOK, Counted, Opens, Homes, Next
    PROVE  Homes'
  <1> USE DEF gatewayVars, serverVars, logicVars
  <1>1. ASSUME UNCHANGED <<srv, sessions, dead, pending, notifyClose, life>> PROVE Homes'
    <2>1. \A d \in Conn : Holds(d)' = Holds(d)
      BY <1>1 DEF Holds
    <2> QED BY <1>1, <2>1 DEF Homes, OneHome
  <1>2. ASSUME GatewayStep PROVE Homes'
    <2>1. UNCHANGED <<srv, sessions, dead, pending, notifyClose, life>>
      BY <1>2 DEF GatewayStep, HandshakeGateway, ConnectorInactive, ConnectorClosed,
                  HandshakeClient, ClientSends, ClientCloses, RunClientJob
    <2> QED BY <1>1, <2>1
  <1>3. ASSUME NEW c \in Conn, HandshakeServer(c) PROVE Homes'
    <2>1. srv[c] = "idle" /\ sessions[c] = {}
      BY <1>3 DEF HandshakeServer, Counted, Homes
    <2>2. /\ srv'[c] = "up" /\ \A d \in Conn \ {c} : srv'[d] = srv[d]
          /\ UNCHANGED <<sessions, dead, pending, notifyClose, life>>
      BY <1>3 DEF HandshakeServer, TypeOK
    <2>3. \A d \in Conn : Holds(d)' = Holds(d)
      BY <2>1, <2>2 DEF Holds
    <2> QED BY <2>1, <2>2, <2>3 DEF Homes, OneHome
  <1>4. ASSUME NEW c \in Conn, ConnectionClosed(c) PROVE Homes'
    <2>1. /\ srv[c] = "up" /\ srv'[c] = "sessions" /\ pending'[c] = sessions[c]
          /\ \A d \in Conn \ {c} : srv'[d] = srv[d] /\ pending'[d] = pending[d]
          /\ UNCHANGED <<sessions, dead, life>>
      BY <1>4 DEF ConnectionClosed, TypeOK
    <2>2. \A d \in Conn \ {c} : notifyClose'[d] = notifyClose[d]
      BY <1>4 DEF ConnectionClosed, TypeOK
    <2>3. \A d \in Conn : Holds(d)' = Holds(d)
      BY <2>1 DEF Holds
    <2> QED BY <2>1, <2>2, <2>3 DEF Homes, OneHome
  <1>5. ASSUME NEW c \in Conn, ClearDeadSession(c) PROVE Homes'
    <2>1. /\ srv[c] = "sessions" /\ pending[c] = {} /\ srv'[c] = "dead"
          /\ \A d \in Conn \ {c} : srv'[d] = srv[d]
          /\ UNCHANGED <<sessions, notifyClose, life>>
      BY <1>5 DEF ClearDeadSession, TypeOK
    <2>2. \/ notifyClose[c] /\ dead' = {} /\ pending' = [pending EXCEPT ![c] = dead]
          \/ UNCHANGED <<dead, pending>>
      BY <1>5 DEF ClearDeadSession
    <2>3. dead' \subseteq dead /\ \A d \in Conn \ {c} : pending'[d] = pending[d]
      BY <2>2 DEF TypeOK
    <2>4. \A d \in Conn : Holds(d)' = Holds(d)
      BY <2>1, <2>3 DEF Holds
    <2>5. pending'[c] # {} => notifyClose'[c] /\ sessions'[c] = {}
      BY <2>1, <2>2 DEF Homes
    <2>6. OneHome'
      BY <2>3, <2>4 DEF Homes, OneHome
    <2> QED BY <2>1, <2>3, <2>4, <2>5, <2>6 DEF Homes
  <1> QED BY <1>2, <1>3, <1>4, <1>5, HomesDeliver, HomesCloseSession, HomesNotifyDeadSession
          DEF Next, ServerStep

----------------------------------------------------------------------------
(* What a total loss may cost.                                             *)

\* Nothing is lost initially.
LEMMA LossesInit == Init => Losses
  <1> SUFFICES ASSUME Init PROVE Losses
    OBVIOUS
  <1>1. Notified
    BY Zenon DEF Init, Notified
  <1>2. Closes
    BY DEF Init, Closes, CloseAt, CloseJob
  <1>3. SessionsSurvive /\ ClosedOnlyByClient
    BY DEF Init, SessionsSurvive, ClosedOnlyByClient
  <1> QED BY <1>1, <1>2, <1>3 DEF Losses

\* The counter is zero only when no other connection works, so a closing job
\* that notifies has seen a total loss.
LEMMA NotifiedStep ==
    ASSUME TypeOK, Counted, Notified, Next
    PROVE  Notified' /\ (lastLost => lastLost')
  <1> USE DEF gatewayVars, serverVars, logicVars
  <1>1. CASE UNCHANGED <<notifyClose, lastLost>>
    BY <1>1 DEF Notified
  <1>2. ASSUME NEW c \in Conn, ConnectionClosed(c) PROVE Notified' /\ (lastLost => lastLost')
    <2>1. lastLost' = (lastLost \/ \A d \in Conn \ {c} : srv[d] # "up")
      BY <1>2 DEF ConnectionClosed
    <2>2. notifyClose' = [notifyClose EXCEPT ![c] = size - 1 <= 0] /\ size' = size - 1
      BY <1>2 DEF ConnectionClosed
    <2>3. size' \in Nat /\ (size' = 0 => \A d \in Conn \ {c} : srv[d] # "up")
      BY <1>2, CountUp
    <2>4. (size - 1 <= 0) => \A d \in Conn \ {c} : srv[d] # "up"
      <3>1. (size - 1 <= 0) => size' = 0
        BY <2>2, <2>3 DEF TypeOK
      <3> QED BY <2>3, <3>1
    <2>5. notifyClose'[c] => lastLost'
      <3>1. notifyClose'[c] = (size - 1 <= 0)
        BY <2>2, Zenon DEF TypeOK
      <3> QED BY <2>1, <2>4, <3>1, Zenon
    <2>6. \A d \in Conn \ {c} : notifyClose'[d] = notifyClose[d]
      BY <2>2 DEF TypeOK
    <2> QED BY <2>1, <2>5, <2>6, Zenon DEF Notified
  <1>3. GatewayStep => UNCHANGED <<notifyClose, lastLost>>
    BY DEF GatewayStep, HandshakeGateway, ConnectorInactive, ConnectorClosed,
           HandshakeClient, ClientSends, ClientCloses, RunClientJob
  <1>4. ServerStep => \/ \E c \in Conn : ConnectionClosed(c)
                      \/ UNCHANGED <<notifyClose, lastLost>>
    BY DEF ServerStep, HandshakeServer, Deliver, CloseSession, ClearDeadSession, NotifyDeadSession
  <1> QED BY <1>1, <1>2, <1>3, <1>4 DEF Next

\* Close jobs come from clients that leave, close packets from close jobs.
LEMMA ClosesStep ==
    ASSUME TypeOK, Closes, Next
    PROVE  Closes' /\ \A k \in Client : client[k] = "closed" => client'[k] = "closed"
  <1> USE DEF gatewayVars, serverVars, logicVars
  <1> DEFINE Goal == Closes' /\ \A k \in Client : client[k] = "closed" => client'[k] = "closed"
  <1> SUFFICES Goal
    OBVIOUS
  <1>1. ASSUME UNCHANGED <<client, jobs>>,
               \A c \in Conn, i \in Nat, k \in Client :
                    CloseAt(c, i, k)' => \E j \in Nat : CloseAt(c, j, k)
        PROVE  Goal
    BY <1>1 DEF Closes, CloseJob
  <1>2. ASSUME UNCHANGED <<client, jobs, wire>> PROVE Goal
    BY <1>2 DEF Closes, CloseJob, CloseAt
  <1>3. ASSUME NEW k \in Client, NEW job \in ClientJob,
               jobs' = [jobs EXCEPT ![k] = Append(@, job)],
               job.type = "Close" => client'[k] = "closed",
               \A l \in Client : client[l] = "closed" => client'[l] = "closed",
               UNCHANGED wire
        PROVE  Goal
    <2>1. jobs[k] \in Seq(ClientJob) /\ jobs'[k] = Append(jobs[k], job)
      BY <1>3 DEF TypeOK, ClientJob
    <2>2. \A i \in Nat : CloseJob(k, i)' => CloseJob(k, i) \/ client'[k] = "closed"
      BY <1>3, <2>1, AppendAt DEF CloseJob
    <2>3. \A l \in Client \ {k}, i \in Nat : CloseJob(l, i)' => CloseJob(l, i)
      BY <1>3 DEF CloseJob, TypeOK
    <2>4. \A c \in Conn, i \in Nat, l \in Client : CloseAt(c, i, l)' => CloseAt(c, i, l)
      BY <1>3 DEF CloseAt
    <2> QED BY <1>3, <2>2, <2>3, <2>4 DEF Closes
  <1>4. ASSUME NEW k \in Client, HandshakeClient(k) PROVE Goal
    <2>1. Job("Open", 0) \in ClientJob /\ Job("Open", 0).type # "Close"
      BY GatewayAssumption DEF Job, ClientJob
    <2>2. \A l \in Client : client[l] = "closed" => client'[l] = "closed"
      BY <1>4 DEF HandshakeClient, TypeOK
    <2> QED BY <1>3, <1>4, <2>1, <2>2 DEF HandshakeClient
  <1>5. ASSUME NEW k \in Client, ClientSends(k) PROVE Goal
    <2>1. Job("Message", sent[k] + 1) \in ClientJob /\ Job("Message", sent[k] + 1).type # "Close"
      BY <1>5, GatewayAssumption DEF ClientSends, Job, ClientJob, TypeOK
    <2> QED BY <1>3, <1>5, <2>1 DEF ClientSends
  <1>6. ASSUME NEW k \in Client, ClientCloses(k) PROVE Goal
    <2>1. Job("Close", 0) \in ClientJob
      BY GatewayAssumption DEF Job, ClientJob
    <2>2. client'[k] = "closed" /\ \A l \in Client : client[l] = "closed" => client'[l] = "closed"
      BY <1>6 DEF ClientCloses, TypeOK
    <2> QED BY <1>3, <1>6, <2>1, <2>2 DEF ClientCloses
  <1>7. ASSUME NEW k \in Client, RunClientJob(k) PROVE Goal
    <2>1. /\ jobs[k] \in Seq(ClientJob) /\ jobs[k] # <<>>
          /\ jobs' = [jobs EXCEPT ![k] = Tail(@)] /\ client' = client
      BY <1>7 DEF TypeOK, ClientJob, RunClientJob
    <2> DEFINE p == [channel |-> k, type |-> Head(jobs[k]).type, id |-> Head(jobs[k]).id]
    <2>2. p \in Packet /\ (p.type = "Close" => CloseJob(k, 1))
      <3>1. Head(jobs[k]) \in ClientJob /\ Head(jobs[k]) = jobs[k][1] /\ 1 \in 1..Len(jobs[k])
        BY <2>1, TailAt
      <3> QED BY <3>1 DEF Packet, ClientJob, CloseJob
    <2>3. \/ wire' = wire
          \/ \E b \in Conn : wire' = [wire EXCEPT ![b] = Append(@, p)]
      <3>1. PICK b \in IF IsActive(bind[k]) THEN {bind[k]} ELSE Distributed :
                wire' = IF b = None THEN wire ELSE Forward(b, k, Head(jobs[k]))
        BY <1>7 DEF RunClientJob
      <3>2. b \in Conn \cup {None}
        BY DistributedType DEF IsActive
      <3> QED BY <3>1, <3>2 DEF Forward
    <2>4. \A l \in Client, i \in Nat : CloseJob(l, i)' => \E j \in Nat : CloseJob(l, j)
      <3>1. \A i \in Nat : CloseJob(k, i)' => CloseJob(k, i + 1)
        BY <2>1, TailAt DEF CloseJob, TypeOK
      <3>2. \A l \in Client \ {k}, i \in Nat : CloseJob(l, i)' => CloseJob(l, i)
        BY <2>1 DEF CloseJob, TypeOK
      <3> QED BY <3>1, <3>2
    <2>5. \A c \in Conn, i \in Nat, l \in Client :
              CloseAt(c, i, l)' => CloseAt(c, i, l) \/ (l = k /\ CloseJob(k, 1))
      <3> SUFFICES ASSUME NEW c \in Conn, NEW i \in Nat, NEW l \in Client,
                          CloseAt(c, i, l)', ~CloseAt(c, i, l)
                   PROVE  l = k /\ CloseJob(k, 1)
        OBVIOUS
      <3>1. PICK b \in Conn : wire' = [wire EXCEPT ![b] = Append(@, p)]
        BY <2>3 DEF CloseAt
      <3>2. b = c
        BY <3>1 DEF CloseAt, TypeOK
      <3>3. wire[c] \in Seq(Packet) /\ wire'[c] = Append(wire[c], p)
        BY <3>1, <3>2 DEF TypeOK
      <3>4. wire'[c][i] = p
        BY <3>3, <2>2, AppendAt DEF CloseAt
      <3> QED BY <3>4, <2>2 DEF CloseAt
    <2> QED BY <2>1, <2>4, <2>5 DEF Closes
  <1>8. ASSUME NEW c \in Conn, Deliver(c) PROVE Goal
    <2>1. /\ wire[c] \in Seq(Packet) /\ wire[c] # <<>> /\ wire' = [wire EXCEPT ![c] = Tail(@)]
          /\ UNCHANGED <<client, jobs>>
      BY <1>8 DEF TypeOK, Deliver
    <2>2. \A i \in Nat, k \in Client : CloseAt(c, i, k)' => CloseAt(c, i + 1, k)
      BY <2>1, TailAt DEF CloseAt, TypeOK
    <2>3. \A d \in Conn \ {c}, i \in Nat, k \in Client : CloseAt(d, i, k)' => CloseAt(d, i, k)
      BY <2>1 DEF CloseAt, TypeOK
    <2>4. \A d \in Conn, i \in Nat, k \in Client : CloseAt(d, i, k)' => \E j \in Nat : CloseAt(d, j, k)
      BY <2>2, <2>3
    <2> QED BY <1>1, <2>1, <2>4
  <1>9. ASSUME NEW c \in Conn, ConnectionClosed(c) PROVE Goal
    <2>1. \A d \in Conn, i \in Nat, k \in Client : CloseAt(d, i, k)' => CloseAt(d, i, k)
      BY <1>9 DEF ConnectionClosed, CloseAt, TypeOK
    <2>2. UNCHANGED <<client, jobs>>
      BY <1>9 DEF ConnectionClosed
    <2> QED BY <1>1, <2>1, <2>2
  <1>10. ASSUME NEW c \in Conn,
                \/ HandshakeGateway(c) \/ ConnectorInactive(c) \/ ConnectorClosed(c)
                \/ HandshakeServer(c) \/ ClearDeadSession(c)
                \/ \E k \in Client : CloseSession(c, k) \/ NotifyDeadSession(c, k)
         PROVE  Goal
    BY <1>2, <1>10 DEF HandshakeGateway, ConnectorInactive, ConnectorClosed, HandshakeServer,
                       ClearDeadSession, CloseSession, NotifyDeadSession
  <1> QED BY <1>4, <1>5, <1>6, <1>7, <1>8, <1>9, <1>10 DEF Next, GatewayStep, ServerStep

\* Outside of Deliver, CloseSession and the clearing of dead sessions, the
\* places of sessions do not change.
LEMMA HoldsUnchanged ==
    ASSUME TypeOK, Counted, Homes, NEW c \in Conn,
           HandshakeServer(c) \/ ConnectionClosed(c) \/ ClearDeadSession(c)
    PROVE  life' = life /\ \A d \in Conn : Holds(d)' = Holds(d)
  <1>1. CASE HandshakeServer(c)
    <2>1. srv[c] = "idle" /\ sessions[c] = {}
      BY <1>1 DEF HandshakeServer, Counted, Homes
    <2> QED BY <1>1, <2>1 DEF HandshakeServer, Holds, TypeOK, logicVars
  <1>2. CASE ConnectionClosed(c)
    BY <1>2 DEF ConnectionClosed, Holds, TypeOK, logicVars
  <1>3. CASE ClearDeadSession(c)
    <2>1. /\ srv[c] = "sessions" /\ pending[c] = {} /\ srv' = [srv EXCEPT ![c] = "dead"]
          /\ sessions' = sessions /\ life' = life
          /\ \A d \in Conn \ {c} : pending'[d] = pending[d]
      BY <1>3 DEF ClearDeadSession, TypeOK, logicVars
    <2> QED BY <2>1 DEF Holds, TypeOK
  <1> QED BY <1>1, <1>2, <1>3

\* Without a total loss every open session keeps a home.
LEMMA SurviveStep ==
    ASSUME TypeOK, Counted, Homes, Notified, SessionsSurvive, Next
    PROVE  SessionsSurvive'
  <1> USE DEF gatewayVars, serverVars, logicVars
  <1> DEFINE Home(k) == k \in dead \/ \E d \in Conn : k \in Holds(d)
  <1> SUFFICES ASSUME ~lastLost', NEW k \in Client, life'[k] = "open"
               PROVE  Home(k)'
    BY DEF SessionsSurvive
  <1>1. ~lastLost
    BY NotifiedStep
  <1>2. life[k] = "open" => Home(k)
    BY <1>1 DEF SessionsSurvive
  <1>3. CASE GatewayStep
    <2>1. UNCHANGED <<srv, sessions, dead, pending, life>>
      BY <1>3 DEF GatewayStep, HandshakeGateway, ConnectorInactive, ConnectorClosed,
                  HandshakeClient, ClientSends, ClientCloses, RunClientJob
    <2> QED BY <1>2, <2>1 DEF Holds
  <1>4. ASSUME NEW c \in Conn, HandshakeServer(c) \/ ConnectionClosed(c) PROVE Home(k)'
    <2>1. dead' = dead
      BY <1>4 DEF HandshakeServer, ConnectionClosed
    <2> QED BY <1>2, <1>4, <2>1, HoldsUnchanged
  <1>5. ASSUME NEW c \in Conn, ClearDeadSession(c) PROVE Home(k)'
    <2>1. ~notifyClose[c]
      BY <1>1 DEF Notified
    <2>2. dead' = dead
      BY <1>5, <2>1 DEF ClearDeadSession
    <2> QED BY <1>2, <1>5, <2>2, HoldsUnchanged
  <1>6. ASSUME NEW c \in Conn, Deliver(c) PROVE Home(k)'
    <2> DEFINE msg == Head(wire[c])
    <2>1. srv[c] = "up" /\ UNCHANGED <<srv, pending>>
      BY <1>6 DEF Deliver
    <2>2. Holds(c) = sessions[c] /\ Holds(c)' = sessions'[c]
      BY <2>1 DEF Holds
    <2>3. \A d \in Conn \ {c} : Holds(d)' = Holds(d)
      BY <1>6, <2>1 DEF Deliver, ProcessOpen, ProcessClose, ProcessMessage, Holds, TypeOK
    <2>4. CASE ProcessOpen(c, msg.channel)
      <3>1. sessions'[c] = sessions[c] \cup {msg.channel} /\ dead' = dead
        BY <2>4 DEF ProcessOpen, TypeOK
      <3>2. k # msg.channel => life'[k] = life[k]
        BY <2>4 DEF ProcessOpen, TypeOK
      <3> QED BY <1>2, <2>2, <2>3, <3>1, <3>2
    <2>5. CASE ProcessClose(c, msg.channel)
      <3>1. sessions'[c] = sessions[c] \ {msg.channel} /\ dead \ {msg.channel} \subseteq dead'
        BY <2>5 DEF ProcessClose, TypeOK
      <3>2. k # msg.channel => life'[k] = life[k]
        BY <2>5 DEF ProcessClose, TypeOK
      <3>3. k = msg.channel => k \notin sessions[c] \cup dead /\ life'[k] = life[k]
        BY <2>5 DEF ProcessClose, TypeOK
      <3>4. life[k] = "open"
        BY <3>2, <3>3
      <3> QED BY <1>2, <2>2, <2>3, <3>1, <3>3, <3>4
    <2>6. CASE ProcessMessage(c, msg.channel, msg.id)
      <3>1. /\ sessions[c] \subseteq sessions'[c] /\ life' = life
            /\ dead \subseteq dead' \cup sessions'[c]
        BY <2>6 DEF ProcessMessage, TypeOK
      <3> QED BY <1>2, <2>2, <2>3, <3>1
    <2> QED BY <1>6, <2>4, <2>5, <2>6 DEF Deliver
  <1>7. ASSUME NEW c \in Conn, NEW l \in Client, CloseSession(c, l) PROVE Home(k)'
    <2>1. ~notifyClose[c]
      BY <1>1 DEF Notified
    <2>2. /\ dead' = dead \cup {l} /\ UNCHANGED <<srv, sessions, life>>
          /\ pending' = [pending EXCEPT ![c] = @ \ {l}]
      BY <1>7, <2>1 DEF CloseSession
    <2>3. \A d \in Conn : Holds(d) \subseteq Holds(d)' \cup {l}
      BY <2>2 DEF Holds, TypeOK
    <2> QED BY <1>2, <2>2, <2>3
  <1>8. ASSUME NEW c \in Conn, NEW l \in Client, NotifyDeadSession(c, l) PROVE FALSE
    BY <1>1, <1>8 DEF NotifyDeadSession, Homes, Notified
  <1> QED BY <1>3, <1>4, <1>5, <1>6, <1>7, <1>8 DEF Next, ServerStep

\* Without a total loss a session ends by a close message of its client.
LEMMA ClosedStep ==
    ASSUME TypeOK, Counted, Homes, Losses, Next
    PROVE  ClosedOnlyByClient'
  <1> USE DEF gatewayVars, serverVars, logicVars
  <1> SUFFICES ASSUME ~lastLost', NEW k \in Client, life'[k] = "closed"
               PROVE  client'[k] = "closed"
    BY DEF ClosedOnlyByClient
  <1>1. ~lastLost
    BY NotifiedStep DEF Losses
  <1>2. life[k] = "closed" => client[k] = "closed"
    BY <1>1 DEF ClosedOnlyByClient, Losses
  <1>3. client[k] = "closed" => client'[k] = "closed"
    BY ClosesStep DEF Losses
  <1>4. CASE GatewayStep
    <2>1. life' = life
      BY <1>4 DEF GatewayStep, HandshakeGateway, ConnectorInactive, ConnectorClosed,
                  HandshakeClient, ClientSends, ClientCloses, RunClientJob
    <2> QED BY <1>2, <1>3, <2>1
  <1>5. ASSUME NEW c \in Conn, HandshakeServer(c) \/ ConnectionClosed(c) \/ ClearDeadSession(c)
        PROVE  client'[k] = "closed"
    BY <1>2, <1>3, <1>5, HoldsUnchanged
  <1>6. ASSUME NEW c \in Conn, Deliver(c) PROVE client'[k] = "closed"
    <2> DEFINE msg == Head(wire[c])
    <2>1. CASE life'[k] = life[k]
      BY <1>2, <1>3, <2>1
    <2>2. CASE life'[k] # life[k]
      <3>1. msg.type = "Close" /\ k = msg.channel
        <4>1. CASE ProcessOpen(c, msg.channel)
          BY <2>2, <4>1 DEF ProcessOpen, TypeOK
        <4>2. CASE msg.type = "Close" /\ ProcessClose(c, msg.channel)
          BY <2>2, <4>2 DEF ProcessClose, TypeOK
        <4>3. CASE ProcessMessage(c, msg.channel, msg.id)
          BY <2>2, <4>3 DEF ProcessMessage
        <4> QED BY <1>6, <4>1, <4>2, <4>3 DEF Deliver
      <3>2. wire[c] \in Seq(Packet) /\ wire[c] # <<>>
        BY <1>6 DEF Deliver, TypeOK
      <3>3. msg = wire[c][1] /\ 1 \in 1..Len(wire[c])
        BY <3>2, TailAt
      <3>4. CloseAt(c, 1, k)
        BY <3>1, <3>3 DEF CloseAt
      <3> QED BY <1>3, <3>4 DEF Losses, Closes
    <2> QED BY <2>1, <2>2
  <1>7. ASSUME NEW c \in Conn, NEW l \in Client, CloseSession(c, l) PROVE client'[k] = "closed"
    <2>1. ~notifyClose[c]
      BY <1>1 DEF Notified, Losses
    <2>2. life' = life
      BY <1>7, <2>1 DEF CloseSession
    <2> QED BY <1>2, <1>3, <2>2
  <1>8. ASSUME NEW c \in Conn, NEW l \in Client, NotifyDeadSession(c, l) PROVE FALSE
    BY <1>1, <1>8 DEF NotifyDeadSession, Homes, Losses, Notified
  <1> QED BY <1>4, <1>5, <1>6, <1>7, <1>8 DEF Next, ServerStep

----------------------------------------------------------------------------
(* Theorems.                                                               *)

\* The five parts together are an inductive invariant.
THEOREM Inductive == Spec => []IInv
  <1>1. Init => IInv
    BY TypeInit, OpensInit, HomesInit, LossesInit DEF IInv
  <1>2. IInv /\ [Next]_vars => IInv'
    <2> SUFFICES ASSUME IInv, [Next]_vars PROVE IInv'
      OBVIOUS
    <2> USE DEF IInv
    <2>1. CASE Next
      <3>1. TypeOK' /\ Counted'
        BY <2>1, TypeGatewayStep, TypeServerStep DEF Next
      <3>2. Opens' /\ Homes'
        BY <2>1, OpensStep, HomesStep
      <3>3. Losses'
        BY <2>1, NotifiedStep, ClosesStep, SurviveStep, ClosedStep DEF Losses
      <3> QED BY <3>1, <3>2, <3>3
    <2>2. CASE UNCHANGED vars
      <3> USE <2>2 DEF vars, gatewayVars, serverVars, logicVars
      <3>1. TypeOK' /\ Counted'
        BY DEF TypeOK, Counted, Up
      <3>2. Opens'
        BY DEF Opens, OpensOnce, OpenAt, OpenJob
      <3>3. Homes'
        BY DEF Homes, OneHome, Holds
      <3>4. Losses'
        BY DEF Losses, Notified, Closes, CloseAt, CloseJob, SessionsSurvive, ClosedOnlyByClient, Holds
      <3> QED BY <3>1, <3>2, <3>3, <3>4
    <2> QED BY <2>1, <2>2
  <1> QED BY <1>1, <1>2, PTL DEF Spec

\* Every reachable state is well typed; in particular the counter of the
\* connections of a gateway never becomes negative.
THEOREM TypeCorrect == Spec => []TypeOK
  BY Inductive, PTL DEF IInv

\* However closing, rebinding and clearing interleave, a session is in one
\* connection's table or among the dead ones, never in two places.
THEOREM SessionsHaveOneHome == Spec => []OneHome
  <1>1. IInv => OneHome
    BY DEF IInv, Homes
  <1> QED BY <1>1, Inductive, PTL

\* Unless all connections were lost at once, no open session becomes
\* unreachable: its connection or the dead sessions hold it.
THEOREM NoSessionIsLost == Spec => []SessionsSurvive
  <1>1. IInv => SessionsSurvive
    BY DEF IInv, Losses
  <1> QED BY <1>1, Inductive, PTL

\* Unless all connections were lost at once, the game logic is not told that a
\* session is closed while its client is connected.
THEOREM NoEarlyClose == Spec => []ClosedOnlyByClient
  <1>1. IInv => ClosedOnlyByClient
    BY DEF IInv, Losses
  <1> QED BY <1>1, Inductive, PTL

\* A step is, for the game logic, the opening of a new session, a message with
\* a larger number for an open one, the closing of an open one, or nothing.
LEMMA LogicStep ==
    ASSUME IInv, [Next]_vars
    PROVE  [Logic!Next]_(Logic!vars)
  <1> USE DEF gatewayVars, serverVars, logicVars
  <1> USE DEF IInv, Logic!vars
  <1>1. CASE UNCHANGED vars
    BY <1>1 DEF vars
  <1>2. CASE GatewayStep
    BY <1>2 DEF GatewayStep, HandshakeGateway, ConnectorInactive, ConnectorClosed,
                HandshakeClient, ClientSends, ClientCloses, RunClientJob
  <1>3. ASSUME NEW c \in Conn, HandshakeServer(c) \/ ConnectionClosed(c) \/ ClearDeadSession(c)
        PROVE  UNCHANGED <<life, arrived>>
    BY <1>3 DEF HandshakeServer, ConnectionClosed, ClearDeadSession
  <1>4. ASSUME NEW k \in Client, arrived' = arrived,
               \/ life' = life
               \/ life[k] = "open" /\ life' = [life EXCEPT ![k] = "closed"]
        PROVE  [Logic!Next]_(Logic!vars)
    BY <1>4 DEF Logic!Next, Logic!Close
  <1>5. ASSUME NEW c \in Conn, NEW k \in Client, CloseSession(c, k) \/ NotifyDeadSession(c, k)
        PROVE  [Logic!Next]_(Logic!vars)
    BY <1>4, <1>5, ClosingEffect
  <1>6. ASSUME NEW c \in Conn, Deliver(c) PROVE [Logic!Next]_(Logic!vars)
    <2>1. srv[c] = "up" /\ wire[c] \in Seq(Packet) /\ wire[c] # <<>>
      BY <1>6 DEF Deliver, TypeOK
    <2> DEFINE msg == Head(wire[c])
               k   == msg.channel
    <2>2. msg \in Packet /\ msg = wire[c][1] /\ 1 \in 1..Len(wire[c])
      BY <2>1, TailAt
    <2>3. k \in Client /\ msg.id \in 0..MaxMsg
      BY <2>2 DEF Packet
    <2>4. CASE msg.type = "Open" /\ ProcessOpen(c, k)
      <3>1. OpenAt(c, 1, k)
        BY <2>2, <2>4 DEF OpenAt
      <3>2. life[k] = "none"
        BY <2>3, <3>1 DEF Opens, OpensOnce
      <3>3. Logic!Open(k)
        BY <2>4, <3>2 DEF Logic!Open, ProcessOpen
      <3> QED BY <2>3, <3>3 DEF Logic!Next
    <2>5. CASE ProcessClose(c, k)
      <3>1. /\ arrived' = arrived
            /\ life' = life \/ (life[k] = "open" /\ life' = [life EXCEPT ![k] = "closed"])
        BY <2>1, <2>3, <2>5, CloseEffect
      <3> QED BY <1>4, <2>3, <3>1
    <2>6. CASE ProcessMessage(c, k, msg.id)
      <3>1. life' = life
        BY <2>6 DEF ProcessMessage
      <3>2. CASE arrived' = arrived
        BY <3>1, <3>2
      <3>3. CASE /\ k \in sessions[c] \cup dead /\ Validate(k, msg.id)
                 /\ arrived' = [arrived EXCEPT ![k] = msg.id]
        <4>1. life[k] = "open"
          BY <2>1, <2>3, <3>3, FoundIsOpen
        <4>2. msg.id \in (arrived[k] + 1)..MaxMsg
          BY <2>3, <3>3, GatewayAssumption DEF Validate, TypeOK
        <4>3. Logic!Receive(k)
          BY <3>1, <3>3, <4>1, <4>2 DEF Logic!Receive
        <4> QED BY <2>3, <4>3 DEF Logic!Next
      <3> QED BY <2>6, <3>2, <3>3 DEF ProcessMessage
    <2> QED BY <1>6, <2>4, <2>5, <2>6 DEF Deliver
  <1> QED BY <1>1, <1>2, <1>3, <1>5, <1>6 DEF Next, ServerStep

\* Over all losses, rebindings and reorderings the game logic sees of each
\* session one opening, growing message numbers and at most one closing: the
\* gateway path implements SessionLife.
THEOREM ImplementsSessionLife == Spec => SeesSessionLives
  <1>1. Init => Logic!Init
    BY DEF Init, Logic!Init
  <1>2. IInv /\ [Next]_vars => [Logic!Next]_(Logic!vars)
    BY LogicStep
  <1> QED BY <1>1, <1>2, Inductive, PTL DEF Spec, SeesSessionLives, Logic!Spec
=============================================================================
