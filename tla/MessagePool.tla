---------------------------- MODULE MessagePool ----------------------------
(***************************************************************************)
(* The MessageController of a player that is online: it numbers the        *)
(* messages to the client, keeps each in a pool until the client has       *)
(* acknowledged it, and goes on with a new session when the client         *)
(* reconnects (CacheMessageController.reconnection,                        *)
(* PlayerBOImpl.reconnection).                                             *)
(*                                                                         *)
(* The game thread posts messages; numbering, sending and discarding run   *)
(* as tasks on the I/O thread of the connection that carries the session   *)
(* when the task is submitted.  A task works with the session the          *)
(* controller has when the task runs, which after a reconnection may be    *)
(* carried by another connection, and nothing orders the threads of two    *)
(* connections.  flaw collects the three ways in which a numbered message  *)
(* can be lost, at the moment they happen:                                 *)
(*   "raced"    two threads are in the controller at the same time; from   *)
(*              then on neither numbers nor pool can be relied on;         *)
(*   "rebound"  a session goes on with another connection after what was   *)
(*              under way was lost;                                        *)
(*   "late"     the answer to one EnterGame is sent on a later session.    *)
(*                                                                         *)
(* The client is not part of the repository.  It is taken to acknowledge   *)
(* the number it received last, and to send nothing on a new session       *)
(* before its EnterGame is answered (so what the new session's first       *)
(* controller sent it until then has no part in any acknowledgement).      *)
(***************************************************************************)
EXTENDS Integers, Sequences, FiniteSets

CONSTANTS
    Conns,      \* connections between gateway and server, each with a thread
    MaxId,      \* bound: messages posted
    MaxSession, \* bound: sessions the client opens
    MaxTasks    \* bound: tasks waiting on one thread

ASSUME PoolAssumption ==
    /\ MaxId \in Nat
    /\ MaxSession \in Nat \ {0}
    /\ MaxTasks \in Nat

VARIABLES
    \* the session of the controller
    link,      \* its connection
    session,   \* "active", "broken" (connection lost) or "destroyed" (connection = null)
    opened,    \* sessions the client has opened
    \* the controller
    tasks,     \* tasks waiting on the threads of the connections
    stamp,     \* number a thread has taken for its task and not yet written; 0: none
    last,      \* lastReceivedMessageId
    pool,      \* messagePool: numbers of the messages, oldest first
    \* the game thread
    game,      \* "idle", or "switched": inside reconnection, the new session is in place
    \* the client
    wire,      \* messages under way on the session
    received,  \* number of the message received last
    got,       \* numbers of all messages received
    client,    \* "playing", or "waiting" for the answer to EnterGame on the session
    \* history
    flaw       \* what has happened of "raced", "rebound" and "late"

sessionVars == <<link, session, opened>>
clientVars  == <<received, got, client>>
vars == <<sessionVars, tasks, stamp, last, pool, game, wire, clientVars, flaw>>

\* A message to the client, the answer to EnterGame on session s, or the
\* discarding of what the client has acknowledged.
Task          == [op : {"send", "answer", "ack"}, n : Nat]
SendTask      == [op |-> "send", n |-> 0]
AnswerTask(s) == [op |-> "answer", n |-> s]
AckTask(n)    == [op |-> "ack", n |-> n]

\* A message on its way to the client.
Packet == [id : Nat \ {0}, op : {"send", "answer"}]

Init ==
    /\ link \in Conns
    /\ session = "active"
    /\ opened = 1
    /\ tasks = [x \in Conns |-> <<>>]
    /\ stamp = [x \in Conns |-> 0]
    /\ last = 0
    /\ pool = <<>>
    /\ game = "idle"
    /\ wire = <<>>
    /\ received = 0
    /\ got = {}
    /\ client = "playing"
    /\ flaw = {}

IsActive == session = "active"

Pooled == {pool[i] : i \in 1..Len(pool)}

Execute(x, t) == tasks' = [tasks EXCEPT ![x] = Append(@, t)]

\* The game thread posts a message.  Without an active session it is dropped:
\* it gets no number and is not pooled.
SendMessage ==
    /\ game = "idle"
    /\ IsActive
    /\ last + Len(tasks[link]) < MaxId
    /\ Len(tasks[link]) < MaxTasks
    /\ Execute(link, SendTask)
    /\ UNCHANGED <<sessionVars, stamp, last, pool, game, wire, clientVars, flaw>>

\* The next task of a thread, and whether another thread is in the controller.
HasTask(x, ops) == tasks[x] # <<>> /\ Head(tasks[x]).op \in ops
Done(x)         == tasks' = [tasks EXCEPT ![x] = Tail(@)]
Racing(x)       == IF \E y \in Conns \ {x} : stamp[y] # 0 THEN {"raced"} ELSE {}

Late(x) ==
    IF HasTask(x, {"answer"}) /\ Head(tasks[x]).n # opened THEN {"late"} ELSE {}

\* A sending task begins: it takes the next number.  If the session has no
\* connection, making the buffer fails and the message is dropped.
BeginSend(x) ==
    /\ HasTask(x, {"send", "answer"})
    /\ stamp[x] = 0
    /\ \/ /\ session # "destroyed"
          /\ stamp' = [stamp EXCEPT ![x] = last + 1]
          /\ flaw' = flaw \cup Racing(x)
          /\ UNCHANGED tasks
       \/ /\ session = "destroyed"
          /\ Done(x)
          /\ UNCHANGED <<stamp, flaw>>
    /\ UNCHANGED <<sessionVars, last, pool, game, wire, clientVars>>

\* sendMessageImpl: the number is written, the message pooled and, if the
\* session is active, sent.
SendMessageImpl(x) ==
    /\ stamp[x] # 0
    /\ last' = stamp[x]
    /\ pool' = Append(pool, stamp[x])
    /\ wire' = IF IsActive
               THEN Append(wire, [id |-> stamp[x], op |-> Head(tasks[x]).op])
               ELSE wire
    /\ stamp' = [stamp EXCEPT ![x] = 0]
    /\ Done(x)
    /\ flaw' = flaw \cup Racing(x) \cup Late(x)
    /\ UNCHANGED <<sessionVars, game, clientVars>>

\* Mutant: the number after the acknowledged one counts as consumed.
Consumed_OffByOne(k, n) ==
    /\ \A i \in 1..k : pool[i] <= n + 1
    /\ k < Len(pool) => pool[k + 1] > n + 1

\* discardServerMessage: messages leave the pool from its head as long as
\* their numbers are covered by the acknowledgement n; k of them are.
Consumed(k, n) ==
    /\ \A i \in 1..k : pool[i] <= n
    /\ k < Len(pool) => pool[k + 1] > n

DiscardServerMessage(x) ==
    /\ HasTask(x, {"ack"})
    /\ \E k \in 0..Len(pool) :
          /\ Consumed(k, Head(tasks[x]).n)
          /\ pool' = SubSeq(pool, k + 1, Len(pool))
    /\ Done(x)
    /\ flaw' = flaw \cup Racing(x)
    /\ UNCHANGED <<sessionVars, stamp, last, game, wire, clientVars>>

\* Mutant: the acknowledgement is one too low.
Validate_OffByOne ==
    /\ IsActive
    /\ client = "playing"
    /\ Len(tasks[link]) < MaxTasks
    /\ Execute(link, AckTask(received - 1))
    /\ UNCHANGED <<sessionVars, stamp, last, pool, game, wire, clientVars, flaw>>

\* A message of the client arrives on the session's connection; it carries
\* the number received last (validate; the client's own numbers are part of
\* Gateway).
Validate ==
    /\ IsActive
    /\ client = "playing"
    /\ Len(tasks[link]) < MaxTasks
    /\ Execute(link, AckTask(received))
    /\ UNCHANGED <<sessionVars, stamp, last, pool, game, wire, clientVars, flaw>>

\* The client receives the next message.
ClientReceives ==
    /\ wire # <<>>
    /\ received' = Head(wire).id
    /\ got' = got \cup {Head(wire).id}
    /\ client' = IF Head(wire).op = "answer" THEN "playing" ELSE client
    /\ wire' = Tail(wire)
    /\ UNCHANGED <<sessionVars, tasks, stamp, last, pool, game, flaw>>

\* The connection is lost, and with it what was under way.
ConnectionLost ==
    /\ IsActive
    /\ session' = "broken"
    /\ wire' = <<>>
    /\ UNCHANGED <<link, opened, tasks, stamp, last, pool, game, clientVars, flaw>>

\* The server has noticed the loss: the session is put aside.
SessionDestroyed ==
    /\ session = "broken"
    /\ session' = "destroyed"
    /\ UNCHANGED <<link, opened, tasks, stamp, last, pool, game, wire, clientVars, flaw>>

\* A message of the client arrives on another connection, which takes the
\* session over.
Rebind(y) ==
    /\ session = "destroyed"
    /\ client = "playing"
    /\ Len(tasks[y]) < MaxTasks
    /\ link' = y
    /\ session' = "active"
    /\ flaw' = flaw \cup {"rebound"}
    /\ Execute(y, AckTask(received))
    /\ UNCHANGED <<opened, stamp, last, pool, game, wire, clientVars>>

\* Mutant: numbering starts again with the new session.
Reconnection_NumbersRestart(y) ==
    /\ game = "idle"
    /\ opened < MaxSession
    /\ opened' = opened + 1
    /\ link' = y
    /\ session' = "active"
    /\ last' = 0
    /\ wire' = <<>>
    /\ client' = "waiting"
    /\ game' = "switched"
    /\ UNCHANGED <<tasks, stamp, pool, received, got, flaw>>

\* The client comes with a new session and EnterGame; the game thread puts
\* the session in place of the old one, which it destroys.
Reconnection(y) ==
    /\ game = "idle"
    /\ opened < MaxSession
    /\ opened' = opened + 1
    /\ link' = y
    /\ session' = "active"
    /\ wire' = <<>>
    /\ client' = "waiting"
    /\ game' = "switched"
    /\ UNCHANGED <<tasks, stamp, last, pool, received, got, flaw>>

\* getAllServerMessage reads every pooled message as JSON.  What sendMessage
\* pools begins with the number of the command, which is not JSON: with any
\* message in the pool the reading fails, as it may when a thread is changing
\* the pool.
Readable == pool = <<>>

\* The game thread builds and posts the answer; when it fails the client
\* gets an error that is not an answer.
AnswerReconnection ==
    /\ game = "switched"
    /\ game' = "idle"
    /\ \/ /\ Readable
          /\ IsActive
          /\ Execute(link, AnswerTask(opened))
       \/ /\ ~Readable \/ ~IsActive \/ \E x \in Conns : stamp[x] # 0
          /\ UNCHANGED tasks
    /\ UNCHANGED <<sessionVars, stamp, last, pool, wire, clientVars, flaw>>

Next ==
    \/ SendMessage
    \/ \E x \in Conns : BeginSend(x) \/ SendMessageImpl(x) \/ DiscardServerMessage(x)
    \/ Validate
    \/ ClientReceives
    \/ ConnectionLost
    \/ SessionDestroyed
    \/ \E y \in Conns : Rebind(y) \/ Reconnection(y)
    \/ AnswerReconnection

Spec == Init /\ [][Next]_vars

\* WF: the threads of the connections and the game thread do not stop, and
\* the client reads what it is sent.
FairSpec ==
    /\ Spec
    /\ \A x \in Conns : WF_vars(BeginSend(x) \/ SendMessageImpl(x) \/ DiscardServerMessage(x))
    /\ WF_vars(AnswerReconnection)
    /\ WF_vars(ClientReceives)

-----------------------------------------------------------------------------
\* The variables of MessageController and of its client keep their types.
TypeOK ==
    /\ link \in Conns
    /\ session \in {"active", "broken", "destroyed"}
    /\ opened \in 1..MaxSession
    /\ tasks \in [Conns -> Seq(Task)]
    /\ stamp \in [Conns -> Nat]
    /\ last \in Nat
    /\ pool \in Seq(Nat \ {0})
    /\ game \in {"idle", "switched"}
    /\ wire \in Seq(Packet)
    /\ received \in Nat
    /\ got \subseteq (Nat \ {0})
    /\ client \in {"playing", "waiting"}
    /\ flaw \subseteq {"raced", "rebound", "late"}

\* Whatever connections are lost and however the client reconnects, a
\* message sendMessageImpl has numbered is in messagePool or was received,
\* except after one of the three flaws: discardServerMessage never drops what
\* the client has not consumed.
NoneLost == flaw = {} => 1..last \subseteq got \cup Pooled

\* MessageController keeps the promise of Outbox: numbers grow by one, and
\* what leaves messagePool was received by the client.
O == INSTANCE Outbox WITH
        sent <- last, held <- Pooled, known <- got, excused <- flaw # {}

ImplementsOutbox == O!Spec

\* The answer to EnterGame reaches a client that reconnects and whose
\* session is not lost again (reconnection, getAllServerMessage).
ReconnectionAnswered == (game = "switched") ~> (client = "playing" \/ ~IsActive)
=============================================================================
