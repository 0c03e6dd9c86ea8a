------------------------------ MODULE Gateway ------------------------------
(***************************************************************************)
(* The path of a client's messages through a gateway to a game server.     *)
(* The gateway keeps several connections to the server, binds each client  *)
(* to one of them (ConnectorGroup, ClientMessageProcessorJob) and opens    *)
(* new ones for those it loses (GameServerConnector).  The server keeps    *)
(* the sessions of the clients per connection and, for a connection it has *)
(* lost, in a table of dead sessions from which another connection may     *)
(* take them (GameMessageProcessorJob, GameMessageHandler).                *)
(*                                                                         *)
(* Every client and every connection has an I/O thread of its own on each  *)
(* side; a step of the model is what one thread does between two accesses  *)
(* to data that it shares with another.  The two sides notice the loss of  *)
(* a connection independently and in any order.                            *)
(***************************************************************************)
EXTENDS Integers, Sequences, FiniteSets

CONSTANTS
    Client,     \* client connections of the gateway (session ids, never reused)
    MaxConn,    \* connections opened from the gateway to the server, in all
    MaxMsg      \* messages one client sends

ASSUME GatewayAssumption ==
    /\ MaxConn \in Nat
    /\ MaxMsg \in Nat

\* Connections are numbered in the order in which they join the group.
Conn == 1..MaxConn
None == 0

VARIABLES
    \* the gateway
    client,     \* client connections: "new", "open" (handshake done), "closed"
    sent,       \* number of the last message the client has sent
    jobs,       \* jobs waiting on the I/O thread of the client connection
    bind,       \* ClientAttachment.bindGameServerConnector
    gw,         \* connections to the server as the gateway sees them
    managed,    \* ConnectorAttachment.managedSession
    wire,       \* messages under way to the server, by connection
    \* the game server
    srv,        \* connections as the server sees them, with the state of the closing job
    size,       \* CONNECTION_SIZE_PER_GATEWAY of this gateway
    sessions,   \* ConnectionAttachment.sessions, by connection
    dead,       \* DEAD_SESSIONS of this gateway
    pending,    \* the copy of sessions a closing job still has to work through
    notifyClose,\* notifyClose of the closing job
    \* what reached Dispatch
    life,       \* sessions the game logic was told to be open or closed
    arrived,    \* MessageController.lastClientMessageId
    lastLost    \* history: a connection was lost when there was no other

gatewayVars == <<client, sent, jobs, bind, gw, managed>>
serverVars  == <<srv, size, sessions, dead, pending, notifyClose>>
logicVars   == <<life, arrived>>
vars        == <<gatewayVars, wire, serverVars, logicVars, lastLost>>

\* Message.Type with the number of the client; 0 for open and close.
Job(type, id) == [type |-> type, id |-> id]

Init ==
    /\ client = [k \in Client |-> "new"]
    /\ sent = [k \in Client |-> 0]
    /\ jobs = [k \in Client |-> <<>>]
    /\ bind = [k \in Client |-> None]
    /\ gw = [c \in Conn |-> "idle"]
    /\ managed = [c \in Conn |-> 0]
    /\ wire = [c \in Conn |-> <<>>]
    /\ srv = [c \in Conn |-> "idle"]
    /\ size = 0
    /\ sessions = [c \in Conn |-> {}]
    /\ dead = {}
    /\ pending = [c \in Conn |-> {}]
    /\ notifyClose = [c \in Conn |-> FALSE]
    /\ life = [k \in Client |-> "none"]
    /\ arrived = [k \in Client |-> 0]
    /\ lastLost = FALSE

----------------------------------------------------------------------------
(* The gateway: connections to the server.                                 *)

\* ConnectorGroup.connections; a lost one stays until connectionClosed has run.
Group == {c \in Conn : gw[c] \in {"grouped", "lost"}}

\* Connection.isActive of a connection that has been in the group.
IsActive(c) == c \in Conn /\ gw[c] = "grouped"

\* handshakeMessage of the connector: the server answered, join the group.
HandshakeGateway(c) ==
    /\ gw[c] = "open"
    /\ \A d \in Conn : d > c => gw[d] \in {"idle", "open", "refused"}
    /\ gw' = [gw EXCEPT ![c] = "grouped"]
    /\ UNCHANGED <<client, sent, jobs, bind, managed, wire, serverVars, logicVars, lastLost>>

\* The channel becomes inactive: at once for isActive, while the connection
\* stays in the group until its own thread runs connectionClosed.
ConnectorInactive(c) ==
    /\ gw[c] \in {"open", "grouped"}
    /\ gw' = [gw EXCEPT ![c] = IF @ = "open" THEN "refused" ELSE "lost"]
    /\ UNCHANGED <<client, sent, jobs, bind, managed, wire, serverVars, logicVars, lastLost>>

\* connectionClosed of the connector: leave the group.  tryReconnect leads to
\* the handshake of another connection.
ConnectorClosed(c) ==
    /\ gw[c] = "lost"
    /\ gw' = [gw EXCEPT ![c] = "gone"]
    /\ UNCHANGED <<client, sent, jobs, bind, managed, wire, serverVars, logicVars, lastLost>>

----------------------------------------------------------------------------
(* The gateway: clients.                                                   *)

\* handshakeMessage of a client: refused while the group is empty.
HandshakeClient(k) ==
    /\ client[k] = "new"
    /\ Group # {}
    /\ client' = [client EXCEPT ![k] = "open"]
    /\ jobs' = [jobs EXCEPT ![k] = Append(@, Job("Open", 0))]
    /\ UNCHANGED <<sent, bind, gw, managed, wire, serverVars, logicVars, lastLost>>

\* messageArrived: the client numbers its messages.
ClientSends(k) ==
    /\ client[k] = "open"
    /\ sent[k] < MaxMsg
    /\ sent' = [sent EXCEPT ![k] = @ + 1]
    /\ jobs' = [jobs EXCEPT ![k] = Append(@, Job("Message", sent[k] + 1))]
    /\ UNCHANGED <<client, bind, gw, managed, wire, serverVars, logicVars, lastLost>>

\* connectionClosed of a client, by itself or because the server asked for it.
ClientCloses(k) ==
    /\ client[k] = "open"
    /\ client' = [client EXCEPT ![k] = "closed"]
    /\ jobs' = [jobs EXCEPT ![k] = Append(@, Job("Close", 0))]
    /\ UNCHANGED <<sent, bind, gw, managed, wire, serverVars, logicVars, lastLost>>

\* getBinding: the first connection of the group with the smallest count.
Best(c) ==
    /\ c \in Group
    /\ \A d \in Group : managed[c] <= managed[d] /\ (managed[d] = managed[c] => c <= d)

\* What distributeConnector, tried up to five times, may give: the best
\* connection, or nothing when the group is empty or the best one is lost (an
\* exception while one is being cleared gives nothing as well).
Distributed ==
    {c \in Conn : Best(c) /\ IsActive(c)}
        \cup (IF \A c \in Group : IsActive(c) THEN IF Group = {} THEN {None} ELSE {} ELSE {None})

\* Connection.sendMessage: what is written to a connection that the server has
\* already given up is lost.
Forward(c, k, job) ==
    IF srv[c] = "up"
    THEN [wire EXCEPT ![c] = Append(@, [channel |-> k, type |-> job.type, id |-> job.id])]
    ELSE wire

\* Mutant: the job of a client that has left does not run.
RunClientJob_NoClose(k) ==
    /\ jobs[k] # <<>>
    /\ Head(jobs[k]).type # "Close"
    /\ jobs' = [jobs EXCEPT ![k] = Tail(@)]
    /\ \E b \in IF IsActive(bind[k]) THEN {bind[k]} ELSE Distributed :
          /\ managed' = IF b \in {None, bind[k]} THEN managed ELSE [managed EXCEPT ![b] = @ + 1]
          /\ wire' = IF b = None THEN wire ELSE Forward(b, k, Head(jobs[k]))
          /\ bind' = [bind EXCEPT ![k] = b]
    /\ UNCHANGED <<client, sent, gw, serverVars, logicVars, lastLost>>

\* ClientMessageProcessorJob.process for the next job of the client: bind the
\* client to a connection if it has no active one, and forward.  Without a
\* connection the message, whatever its type, is dropped.  Closing forgets the
\* connection, but not in its count.
RunClientJob(k) ==
    /\ jobs[k] # <<>>
    /\ jobs' = [jobs EXCEPT ![k] = Tail(@)]
    /\ \E b \in IF IsActive(bind[k]) THEN {bind[k]} ELSE Distributed :
          /\ managed' = IF b \in {None, bind[k]} THEN managed ELSE [managed EXCEPT ![b] = @ + 1]
          /\ wire' = IF b = None THEN wire ELSE Forward(b, k, Head(jobs[k]))
          /\ bind' = [bind EXCEPT ![k] = IF Head(jobs[k]).type = "Close" THEN None ELSE b]
    /\ UNCHANGED <<client, sent, gw, serverVars, logicVars, lastLost>>

----------------------------------------------------------------------------
(* The game server: messages of a connection.                              *)

\* Mutant: only the first connection is counted.
HandshakeServer_CountsOnce(c) ==
    /\ gw[c] = "idle"
    /\ gw' = [gw EXCEPT ![c] = "open"]
    /\ srv' = [srv EXCEPT ![c] = "up"]
    /\ size' = 1
    /\ UNCHANGED <<client, sent, jobs, bind, managed, wire, sessions, dead, pending,
                   notifyClose, logicVars, lastLost>>

\* Connector.connect, connectionOpened of the gateway and handshakeMessage of
\* the server, whose answer is under way afterwards.
HandshakeServer(c) ==
    /\ gw[c] = "idle"
    /\ gw' = [gw EXCEPT ![c] = "open"]
    /\ srv' = [srv EXCEPT ![c] = "up"]
    /\ size' = size + 1
    /\ UNCHANGED <<client, sent, jobs, bind, managed, wire, sessions, dead, pending,
                   notifyClose, logicVars, lastLost>>

ProcessOpen(c, k) ==
    /\ sessions' = [sessions EXCEPT ![c] = @ \cup {k}]
    /\ life' = [life EXCEPT ![k] = "open"]
    /\ UNCHANGED <<dead, arrived>>

\* Mutant: the game logic is told of a session that was not found, too.
ProcessClose_Unfound(c, k) ==
    /\ sessions' = [sessions EXCEPT ![c] = @ \ {k}]
    /\ dead' = dead \ {k}
    /\ life' = [life EXCEPT ![k] = "closed"]
    /\ UNCHANGED arrived

\* The session is removed where it is found, the connection's own ones first;
\* if it is found, the game logic is told.
ProcessClose(c, k) ==
    /\ sessions' = [sessions EXCEPT ![c] = @ \ {k}]
    /\ dead' = IF k \in sessions[c] THEN dead ELSE dead \ {k}
    /\ life' = IF k \in sessions[c] \cup dead THEN [life EXCEPT ![k] = "closed"] ELSE life
    /\ UNCHANGED arrived

\* MessageController.validate: numbers not above the last one are discarded.
Validate(k, n) == arrived[k] < n

\* Mutant: DEAD_SESSIONS is looked at without removing the session.
ProcessMessage_KeepsDead(c, k, n) ==
    LET found == k \in sessions[c] \cup dead
    IN  /\ sessions' = IF found THEN [sessions EXCEPT ![c] = @ \cup {k}] ELSE sessions
        /\ \E active \in BOOLEAN :
              arrived' = IF found /\ active /\ Validate(k, n) THEN [arrived EXCEPT ![k] = n] ELSE arrived
        /\ UNCHANGED <<dead, life>>

\* A session that is not this connection's may be a dead one: it is rebound.
\* The message is dropped if isActive of the session fails: its connection is
\* down and connectionClosed has not run yet, or the game logic destroyed it.
ProcessMessage(c, k, n) ==
    LET found == k \in sessions[c] \cup dead
    IN  /\ sessions' = IF found THEN [sessions EXCEPT ![c] = @ \cup {k}] ELSE sessions
        /\ dead' = IF k \in sessions[c] THEN dead ELSE dead \ {k}
        /\ \E active \in BOOLEAN :
              arrived' = IF found /\ active /\ Validate(k, n) THEN [arrived EXCEPT ![k] = n] ELSE arrived
        /\ UNCHANGED life

\* GameMessageProcessorJob.process on the thread of connection c.
Deliver(c) ==
    /\ srv[c] = "up"
    /\ wire[c] # <<>>
    /\ wire' = [wire EXCEPT ![c] = Tail(@)]
    /\ LET msg == Head(wire[c])
       IN  \/ msg.type = "Open" /\ ProcessOpen(c, msg.channel)
           \/ msg.type = "Close" /\ ProcessClose(c, msg.channel)
           \/ msg.type = "Message" /\ ProcessMessage(c, msg.channel, msg.id)
    /\ UNCHANGED <<gatewayVars, srv, size, pending, notifyClose, lastLost>>

----------------------------------------------------------------------------
(* The game server: a connection is lost.  The closing job runs on the     *)
(* thread of the connection; the counter and the dead sessions are shared  *)
(* with the threads of the others.                                         *)

\* connectionClosed: unread messages are gone, the job decides whether this
\* was the last connection and copies the sessions.
ConnectionClosed(c) ==
    /\ srv[c] = "up"
    /\ srv' = [srv EXCEPT ![c] = "sessions"]
    /\ wire' = [wire EXCEPT ![c] = <<>>]
    /\ size' = size - 1
    /\ notifyClose' = [notifyClose EXCEPT ![c] = size - 1 <= 0]
    /\ pending' = [pending EXCEPT ![c] = sessions[c]]
    /\ lastLost' = (lastLost \/ \A d \in Conn \ {c} : srv[d] # "up")
    /\ UNCHANGED <<gatewayVars, sessions, dead, logicVars>>

\* Mutant: the sessions are not put aside.
CloseSession_SkipsDead(c, k) ==
    /\ srv[c] = "sessions"
    /\ k \in pending[c]
    /\ pending' = [pending EXCEPT ![c] = @ \ {k}]
    /\ IF notifyClose[c] THEN ProcessClose(c, k)
       ELSE UNCHANGED <<dead, sessions, logicVars>>
    /\ UNCHANGED <<gatewayVars, wire, srv, size, notifyClose, lastLost>>

\* One session of the copy: told to be closed, or put aside as a dead one.
CloseSession(c, k) ==
    /\ srv[c] = "sessions"
    /\ k \in pending[c]
    /\ pending' = [pending EXCEPT ![c] = @ \ {k}]
    /\ IF notifyClose[c]
       THEN ProcessClose(c, k)
       ELSE dead' = dead \cup {k} /\ UNCHANGED <<sessions, logicVars>>
    /\ UNCHANGED <<gatewayVars, wire, srv, size, notifyClose, lastLost>>

\* clearDeadSession after the last session, if the job has to notify.
ClearDeadSession(c) ==
    /\ srv[c] = "sessions"
    /\ pending[c] = {}
    /\ srv' = [srv EXCEPT ![c] = "dead"]
    /\ IF notifyClose[c]
       THEN dead' = {} /\ pending' = [pending EXCEPT ![c] = dead]
       ELSE UNCHANGED <<dead, pending>>
    /\ UNCHANGED <<gatewayVars, wire, size, sessions, notifyClose, logicVars, lastLost>>

\* The close message for a session that was dead goes through process again.
NotifyDeadSession(c, k) ==
    /\ srv[c] = "dead"
    /\ k \in pending[c]
    /\ pending' = [pending EXCEPT ![c] = @ \ {k}]
    /\ ProcessClose(c, k)
    /\ UNCHANGED <<gatewayVars, wire, srv, size, notifyClose, lastLost>>

----------------------------------------------------------------------------
GatewayStep ==
    \/ \E c \in Conn : \/ HandshakeGateway(c)
                       \/ ConnectorInactive(c) \/ ConnectorClosed(c)
    \/ \E k \in Client : \/ HandshakeClient(k) \/ ClientSends(k) \/ ClientCloses(k)
                         \/ RunClientJob(k)

ServerStep ==
    \E c \in Conn : \/ HandshakeServer(c) \/ Deliver(c)
                    \/ ConnectionClosed(c) \/ ClearDeadSession(c)
                    \/ \E k \in Client : CloseSession(c, k) \/ NotifyDeadSession(c, k)

Next == GatewayStep \/ ServerStep

Spec == Init /\ [][Next]_vars

\* The threads of clients run their jobs, those of the connections process
\* what arrives.
FairSpec ==
    /\ Spec
    /\ \A k \in Client : WF_vars(RunClientJob(k))
    /\ \A c \in Conn : WF_vars(Deliver(c))

----------------------------------------------------------------------------
(* Properties.                                                             *)

Life   == {"none", "open", "closed"}
Packet == [channel : Client, type : {"Open", "Close", "Message"}, id : 0..MaxMsg]

\* Types; in particular the counter of connections stays a natural number.
TypeOK ==
    /\ client \in [Client -> {"new", "open", "closed"}]
    /\ sent \in [Client -> 0..MaxMsg]
    /\ jobs \in [Client -> Seq([type : {"Open", "Close", "Message"}, id : 0..MaxMsg])]
    /\ bind \in [Client -> Conn \cup {None}]
    /\ gw \in [Conn -> {"idle", "open", "refused", "grouped", "lost", "gone"}]
    /\ managed \in [Conn -> Nat]
    /\ wire \in [Conn -> Seq(Packet)]
    /\ srv \in [Conn -> {"idle", "up", "sessions", "dead"}]
    /\ size \in Nat
    /\ sessions \in [Conn -> SUBSET Client]
    /\ dead \subseteq Client
    /\ pending \in [Conn -> SUBSET Client]
    /\ notifyClose \in [Conn -> BOOLEAN]
    /\ life \in [Client -> Life]
    /\ arrived \in [Client -> 0..MaxMsg]
    /\ lastLost \in BOOLEAN

\* The sessions connection c answers for: its own, or those its closing job
\* has not dealt with yet.
Holds(c) ==
    CASE srv[c] = "up"       -> sessions[c]
      [] srv[c] = "sessions" -> pending[c]
      [] OTHER               -> {}

\* A session has one home: one connection or the dead sessions, whichever
\* threads close, rebind and clear at the same time.
OneHome ==
    \A k \in Client, c \in Conn :
        k \in Holds(c) => k \notin dead /\ \A d \in Conn \ {c} : k \notin Holds(d)

\* As long as the server has not been without any connection to the gateway, an
\* open session can be found: by its connection, or as a dead session by any
\* other connection over which its client is heard of again.
SessionsSurvive ==
    ~lastLost => \A k \in Client : life[k] = "open" => k \in dead \/ \E c \in Conn : k \in Holds(c)

\* As long as the server has not been without any connection to the gateway,
\* the game logic sees a session closed only when its client has left.
ClosedOnlyByClient ==
    ~lastLost => \A k \in Client : life[k] = "closed" => client[k] = "closed"

\* The game logic sees of every session one opening, messages with growing
\* numbers and one closing, in this order, over all losses and rebindings.
Logic == INSTANCE SessionLife
SeesSessionLives == Logic!Spec

\* No connection has been lost, as seen from either side.
Undisturbed ==
    \A c \in Conn : gw[c] \in {"idle", "open", "grouped"} /\ srv[c] \in {"idle", "up"}

\* The session of a client that left is closed, unless a connection is lost.
CloseArrives ==
    \A k \in Client :
        (client[k] = "closed" /\ life[k] = "open") ~> (life[k] = "closed" \/ ~Undisturbed)

----------------------------------------------------------------------------
(* What comments of the code say and the code does not do.                 *)

\* connectionClosed, "notify that the session is lost": each close message sent
\* for a dead session tells the game logic that the session is closed.
DeadSessionsAreTold ==
    [][\A c \in Conn, k \in Client : NotifyDeadSession(c, k) => life'[k] = "closed"]_vars
=============================================================================
