------------------------- MODULE MessagePoolProofs -------------------------
(***************************************************************************)
(* Proofs about MessagePool for any number of connections, messages and    *)
(* sessions: types, no numbered message is lost but by one of the three    *)
(* flaws, and the refinement of Outbox.                                    *)
(*                                                                         *)
(* The invariant says nothing once there is a flaw.  Before, Numbered      *)
(* speaks of numbers and pool, Backed of the acknowledgements: what one    *)
(* covers, the client has.  That this goes on being so needs Followed: a   *)
(* client that acknowledges, or will be answered on this session, finds    *)
(* every number it does not have on the wire, in order.                    *)
(***************************************************************************)
EXTENDS MessagePool, SequenceTheorems, TLAPS

OnWire(n) == \E i \in 1..Len(wire) : wire[i].id = n

\* Every number the client does not have is under way to it.
Covered == \A n \in 1..last : n \in got \/ OnWire(n)

\* The client acknowledges on this session, or will when an answer that is
\* under way arrives.
Answering ==
    \/ client = "playing"
    \/ \E i \in 1..Len(wire) : wire[i].op = "answer"
    \/ \E x \in Conns : \E i \in 1..Len(tasks[x]) : tasks[x][i] = AnswerTask(opened)

Numbered ==
    /\ \A x \in Conns : stamp[x] # 0 =>
          /\ stamp[x] = last + 1
          /\ HasTask(x, {"send", "answer"})
          /\ \A y \in Conns \ {x} : stamp[y] = 0
    /\ \A i \in 1..Len(pool) : pool[i] \in 1..last
    /\ \A i, j \in 1..Len(pool) : i < j => pool[i] < pool[j]
    /\ got \subseteq 1..last
    /\ \A n \in 1..last : n \in got \/ \E i \in 1..Len(pool) : pool[i] = n

Backed ==
    /\ \A x \in Conns : \A i \in 1..Len(tasks[x]) :
          /\ tasks[x][i].op = "ack" => 1..tasks[x][i].n \subseteq got
          /\ tasks[x][i].op = "answer" => tasks[x][i].n <= opened
    /\ client = "playing" => 1..received \subseteq got

InOrder ==
    /\ \A i \in 1..Len(wire) : wire[i].id \in 1..last
    /\ \A i, j \in 1..Len(wire) : i < j => wire[i].id < wire[j].id

Followed ==
    /\ InOrder
    /\ ~IsActive => wire = <<>>
    /\ IsActive /\ Answering => Covered

Inv == flaw = {} => Numbered /\ Backed /\ Followed

-----------------------------------------------------------------------------
\* The elements of a sequence after Append, Tail and SubSeq.
LEMMA AppendElements ==
    ASSUME NEW S, NEW s \in Seq(S), NEW e \in S
    PROVE  /\ Append(s, e) \in Seq(S)
           /\ Len(Append(s, e)) = Len(s) + 1
           /\ \A i \in 1..Len(s) : Append(s, e)[i] = s[i]
           /\ Append(s, e)[Len(s) + 1] = e
    OBVIOUS

LEMMA TailElements ==
    ASSUME NEW S, NEW s \in Seq(S), s # <<>>
    PROVE  /\ Len(s) \in Nat \ {0}
           /\ Head(s) = s[1]
           /\ Head(s) \in S
           /\ Tail(s) \in Seq(S)
           /\ Len(Tail(s)) = Len(s) - 1
           /\ \A i \in 1..(Len(s) - 1) : Tail(s)[i] = s[i + 1]
    OBVIOUS

LEMMA SuffixElements ==
    ASSUME NEW S, NEW s \in Seq(S), NEW k \in 0..Len(s)
    PROVE  /\ SubSeq(s, k + 1, Len(s)) \in Seq(S)
           /\ Len(SubSeq(s, k + 1, Len(s))) = Len(s) - k
           /\ \A i \in 1..(Len(s) - k) : SubSeq(s, k + 1, Len(s))[i] = s[i + k]
    OBVIOUS

\* A thread that has taken a number is executing a sending task.
Stamped ==
    \A x \in Conns : stamp[x] # 0 => HasTask(x, {"send", "answer"})

\* What submitting and finishing a task does to the tasks of the threads.
LEMMA ExecuteTasks ==
    ASSUME TypeOK, NEW x \in Conns, NEW t \in Task, Execute(x, t)
    PROVE  /\ tasks' \in [Conns -> Seq(Task)]
           /\ \A y \in Conns \ {x} : tasks'[y] = tasks[y]
           /\ Len(tasks'[x]) = Len(tasks[x]) + 1
           /\ \A i \in 1..Len(tasks[x]) : tasks'[x][i] = tasks[x][i]
           /\ tasks'[x][Len(tasks[x]) + 1] = t
<1>1. /\ tasks[x] \in Seq(Task)
      /\ tasks' = [tasks EXCEPT ![x] = Append(tasks[x], t)]
      /\ tasks \in [Conns -> Seq(Task)]
  BY DEF TypeOK, Execute
<1>2. Append(tasks[x], t) \in Seq(Task)
  BY <1>1, AppendElements
<1> QED
  BY <1>1, <1>2, AppendElements

LEMMA DoneTasks ==
    ASSUME TypeOK, NEW x \in Conns, tasks[x] # <<>>, Done(x)
    PROVE  /\ Head(tasks[x]) = tasks[x][1]
           /\ tasks[x][1] \in Task
           /\ tasks' \in [Conns -> Seq(Task)]
           /\ \A y \in Conns \ {x} : tasks'[y] = tasks[y]
           /\ Len(tasks'[x]) = Len(tasks[x]) - 1
           /\ \A i \in 1..Len(tasks'[x]) : tasks'[x][i] = tasks[x][i + 1]
<1>1. /\ tasks[x] \in Seq(Task)
      /\ tasks' = [tasks EXCEPT ![x] = Tail(tasks[x])]
      /\ tasks \in [Conns -> Seq(Task)]
  BY DEF TypeOK, Done
<1>2. /\ Head(tasks[x]) = tasks[x][1]
      /\ tasks[x][1] \in Task
      /\ Tail(tasks[x]) \in Seq(Task)
      /\ Len(Tail(tasks[x])) = Len(tasks[x]) - 1
      /\ \A i \in 1..(Len(tasks[x]) - 1) : Tail(tasks[x])[i] = tasks[x][i + 1]
  BY <1>1, TailElements
<1> QED
  BY <1>1, <1>2

\* A task that is not the last stays the next one when another is submitted.
LEMMA ExecuteKeepsHead ==
    ASSUME TypeOK, NEW x \in Conns, NEW t \in Task, Execute(x, t),
           NEW y \in Conns, NEW ops, HasTask(y, ops)
    PROVE  HasTask(y, ops)'
<1>1. /\ tasks[y] \in Seq(Task) /\ tasks[y] # <<>>
      /\ tasks' = [tasks EXCEPT ![x] = Append(tasks[x], t)]
      /\ tasks \in [Conns -> Seq(Task)]
  BY DEF TypeOK, Execute, HasTask
<1>2. y # x => tasks'[y] = tasks[y]
  BY <1>1
<1>3. y = x => tasks'[y] = Append(tasks[y], t)
  BY <1>1
<1>4. Append(tasks[y], t) # <<>> /\ Head(Append(tasks[y], t)) = Head(tasks[y])
  BY <1>1
<1> QED
  BY <1>2, <1>3, <1>4 DEF HasTask

LEMMA DoneKeepsHead ==
    ASSUME TypeOK, NEW x \in Conns, Done(x),
           NEW y \in Conns \ {x}, NEW ops, HasTask(y, ops)
    PROVE  HasTask(y, ops)'
<1>1. tasks'[y] = tasks[y]
  BY DEF TypeOK, Done
<1> QED
  BY <1>1 DEF HasTask

\* The tasks that are submitted are tasks.
LEMMA TasksAreTasks ==
    /\ SendTask \in Task
    /\ \A n \in Nat : AckTask(n) \in Task /\ AnswerTask(n) \in Task
    BY DEF SendTask, AckTask, AnswerTask, Task

LEMMA TypeStep ==
    ASSUME TypeOK, Stamped, [Next]_vars
    PROVE  TypeOK' /\ Stamped'
<1> USE PoolAssumption, TasksAreTasks
<1> DEFINE Rest == /\ link \in Conns
                   /\ session \in {"active", "broken", "destroyed"}
                   /\ opened \in 1..MaxSession
                   /\ stamp \in [Conns -> Nat]
                   /\ last \in Nat
                   /\ pool \in Seq(Nat \ {0})
                   /\ game \in {"idle", "switched"}
                   /\ received \in Nat
                   /\ got \subseteq (Nat \ {0})
                   /\ client \in {"playing", "waiting"}
                   /\ flaw \subseteq {"raced", "rebound", "late"}
<1>0. Rest /\ tasks \in [Conns -> Seq(Task)] /\ wire \in Seq(Packet)
  BY DEF TypeOK
<1>a. SUFFICES Rest' /\ tasks' \in [Conns -> Seq(Task)] /\ wire' \in Seq(Packet) /\ Stamped'
  BY DEF TypeOK
<1>1. CASE SendMessage
  <2>1. Execute(link, SendTask) /\ UNCHANGED <<stamp, wire>> /\ Rest'
    BY <1>0, <1>1 DEF SendMessage, sessionVars, clientVars
  <2> QED
    BY <1>0, <2>1, ExecuteTasks, ExecuteKeepsHead DEF Stamped
<1>2. ASSUME NEW x \in Conns, BeginSend(x) PROVE Rest' /\ tasks' \in [Conns -> Seq(Task)] /\ wire' \in Seq(Packet) /\ Stamped'
  <2>1. HasTask(x, {"send", "answer"}) /\ tasks[x] # <<>> /\ wire' = wire
    BY <1>2 DEF BeginSend, HasTask
  <2>0. /\ UNCHANGED <<link, session, opened, last, pool, game, received, got, client>>
        /\ Racing(x) \subseteq {"raced"}
    BY <1>2 DEF BeginSend, sessionVars, clientVars, Racing
  <2>2. CASE session # "destroyed"
    <3>1. tasks' = tasks /\ stamp' = [stamp EXCEPT ![x] = last + 1] /\ flaw' = flaw \cup Racing(x)
      BY <1>2, <2>2 DEF BeginSend
    <3>2a. stamp' \in [Conns -> Nat]
      BY <1>0, <3>1
    <3>2. stamp' \in [Conns -> Nat] /\ flaw' \subseteq {"raced", "rebound", "late"}
      BY <1>0, <2>0, <3>1, <3>2a, Zenon
    <3>3. Rest'
      BY <1>0, <2>0, <3>2
    <3>4. Stamped'
      BY <1>0, <2>1, <3>1 DEF Stamped, HasTask
    <3> QED
      BY <1>0, <2>1, <3>1, <3>3, <3>4
  <2>3. CASE session = "destroyed"
    <3>1. Done(x) /\ stamp' = stamp /\ stamp[x] = 0 /\ flaw' = flaw
      BY <1>2, <2>3 DEF BeginSend
    <3>2. Rest'
      BY <1>0, <2>0, <3>1
    <3>3. Stamped'
      BY <3>1, DoneKeepsHead DEF Stamped
    <3> QED
      BY <1>0, <2>1, <3>1, <3>2, <3>3, DoneTasks
  <2> QED
    BY <2>2, <2>3
<1>3. ASSUME NEW x \in Conns, SendMessageImpl(x) PROVE Rest' /\ tasks' \in [Conns -> Seq(Task)] /\ wire' \in Seq(Packet) /\ Stamped'
  <2>1. /\ stamp[x] \in Nat \ {0} /\ stamp' = [stamp EXCEPT ![x] = 0] /\ Done(x)
        /\ HasTask(x, {"send", "answer"}) /\ tasks[x] # <<>>
    BY <1>0, <1>3 DEF SendMessageImpl, Stamped, HasTask
  <2>2. [id |-> stamp[x], op |-> Head(tasks[x]).op] \in Packet
    BY <2>1 DEF HasTask, Packet
  <2>3. wire' \in Seq(Packet)
    BY <1>0, <1>3, <2>2, AppendElements DEF SendMessageImpl
  <2>4. pool' \in Seq(Nat \ {0})
    BY <1>0, <1>3, <2>1, AppendElements DEF SendMessageImpl
  <2>5. Rest'
    BY <1>0, <1>3, <2>1, <2>4 DEF SendMessageImpl, sessionVars, clientVars, Racing, Late
  <2>6. Stamped'
    BY <1>0, <2>1, DoneKeepsHead DEF Stamped
  <2> QED
    BY <1>0, <2>1, <2>3, <2>5, <2>6, DoneTasks
<1>4. ASSUME NEW x \in Conns, DiscardServerMessage(x) PROVE Rest' /\ tasks' \in [Conns -> Seq(Task)] /\ wire' \in Seq(Packet) /\ Stamped'
  <2>1. /\ HasTask(x, {"ack"}) /\ tasks[x] # <<>> /\ Done(x) /\ stamp' = stamp /\ wire' = wire
        /\ stamp[x] = 0
    BY <1>4 DEF DiscardServerMessage, HasTask, Stamped
  <2>2. pool' \in Seq(Nat \ {0})
    BY <1>0, <1>4, SuffixElements DEF DiscardServerMessage
  <2>3. Rest'
    BY <1>0, <1>4, <2>2 DEF DiscardServerMessage, sessionVars, clientVars, Racing
  <2>4. Stamped'
    BY <2>1, DoneKeepsHead DEF Stamped
  <2> QED
    BY <1>0, <2>1, <2>3, <2>4, DoneTasks
<1>5. CASE Validate
  <2>1. Execute(link, AckTask(received)) /\ UNCHANGED <<stamp, wire>> /\ Rest'
    BY <1>0, <1>5 DEF Validate, sessionVars, clientVars
  <2> QED
    BY <1>0, <2>1, ExecuteTasks, ExecuteKeepsHead DEF Stamped
<1>6. CASE ClientReceives
  <2>1. UNCHANGED <<tasks, stamp>> /\ wire' = Tail(wire) /\ wire # <<>>
    BY <1>6 DEF ClientReceives
  <2>2. Head(wire) \in Packet /\ Tail(wire) \in Seq(Packet)
    BY <1>0, <2>1, TailElements
  <2>3. Rest'
    BY <1>0, <1>6, <2>2 DEF ClientReceives, sessionVars, Packet
  <2> QED
    BY <1>0, <2>1, <2>2, <2>3 DEF Stamped, HasTask
<1>7. CASE ConnectionLost \/ SessionDestroyed
  <2>1. UNCHANGED <<tasks, stamp>> /\ Rest' /\ (wire' = wire \/ wire' = <<>>)
    BY <1>0, <1>7 DEF ConnectionLost, SessionDestroyed, clientVars
  <2>2. wire' \in Seq(Packet)
    <3>1. <<>> \in Seq(Packet)
      OBVIOUS
    <3> QED
      BY <1>0, <2>1, <3>1, Zenon
  <2>3. Stamped'
    BY <2>1 DEF Stamped, HasTask
  <2> QED
    BY <1>0, <2>1, <2>2, <2>3
<1>8. ASSUME NEW y \in Conns, Rebind(y) PROVE Rest' /\ tasks' \in [Conns -> Seq(Task)] /\ wire' \in Seq(Packet) /\ Stamped'
  <2>1. Execute(y, AckTask(received)) /\ UNCHANGED <<stamp, wire>> /\ Rest'
    BY <1>0, <1>8 DEF Rebind, clientVars
  <2> QED
    BY <1>0, <2>1, ExecuteTasks, ExecuteKeepsHead DEF Stamped
<1>9. ASSUME NEW y \in Conns, Reconnection(y) PROVE Rest' /\ tasks' \in [Conns -> Seq(Task)] /\ wire' \in Seq(Packet) /\ Stamped'
  BY <1>0, <1>9 DEF Reconnection, Stamped, HasTask
<1>10. CASE AnswerReconnection
  <2>1. UNCHANGED <<stamp, wire>> /\ Rest' /\ (UNCHANGED tasks \/ Execute(link, AnswerTask(opened)))
    BY <1>0, <1>10 DEF AnswerReconnection, sessionVars, clientVars
  <2> QED
    <3>1. CASE UNCHANGED tasks
      BY <1>0, <2>1, <3>1 DEF Stamped, HasTask
    <3>2. CASE Execute(link, AnswerTask(opened))
      BY <1>0, <2>1, <3>2, ExecuteTasks, ExecuteKeepsHead DEF Stamped
    <3> QED
      BY <2>1, <3>1, <3>2
<1>11. CASE UNCHANGED vars
  BY <1>0, <1>11 DEF vars, sessionVars, clientVars, Stamped, HasTask
<1> QED
  BY <1>1, <1>2, <1>3, <1>4, <1>5, <1>6, <1>7, <1>8, <1>9, <1>10, <1>11 DEF Next

\* The variables of MessageController and of its client keep their types.
THEOREM TypeCorrect == Spec => []TypeOK
<1>1. Init => TypeOK /\ Stamped
  BY PoolAssumption DEF Init, TypeOK, Stamped
<1> QED
  BY <1>1, TypeStep, PTL DEF Spec

-----------------------------------------------------------------------------
\* Submitting a task disturbs nothing if an acknowledgement covers only what
\* the client has and an answer is for this session with everything under way.
LEMMA ExecuteInv ==
    ASSUME TypeOK, Numbered, Backed, Followed,
           NEW x \in Conns, NEW t \in Task, Execute(x, t),
           UNCHANGED <<sessionVars, stamp, last, pool, wire, clientVars>>,
           t.op = "ack" => 1..t.n \subseteq got,
           t.op = "answer" => t.n <= opened /\ Covered
    PROVE  Numbered' /\ Backed' /\ Followed'
<1>0. /\ UNCHANGED <<link, session, opened, stamp, last, pool, wire, received, got, client>>
      /\ \A y \in Conns : Len(tasks[y]) \in Nat
  BY DEF sessionVars, clientVars, TypeOK
<1>1. \A y \in Conns : \A i \in 1..Len(tasks'[y]) :
         \/ i \in 1..Len(tasks[y]) /\ tasks'[y][i] = tasks[y][i]
         \/ tasks'[y][i] = t
  BY <1>0, ExecuteTasks
<1>2. Numbered'
  BY <1>0, ExecuteKeepsHead DEF Numbered
<1>3. Backed'
  BY <1>0, <1>1 DEF Backed
<1>4. Covered => Covered'
  BY <1>0 DEF Covered, OnWire
<1>5. Answering' => Answering \/ t = AnswerTask(opened)
  BY <1>0, <1>1 DEF Answering, AnswerTask
<1>6. t = AnswerTask(opened) => Covered
  BY DEF AnswerTask
<1>7. Followed'
  BY <1>0, <1>4, <1>5, <1>6 DEF Followed, IsActive, InOrder
<1> QED
  BY <1>2, <1>3, <1>7

\* Finishing a task leaves the other tasks as they are.
LEMMA DoneSubset ==
    ASSUME TypeOK, NEW x \in Conns, tasks[x] # <<>>, Done(x)
    PROVE  \A y \in Conns : \A i \in 1..Len(tasks'[y]) :
              \E j \in 1..Len(tasks[y]) : tasks'[y][i] = tasks[y][j]
<1>1. SUFFICES ASSUME NEW y \in Conns, NEW i \in 1..Len(tasks'[y])
               PROVE  \E j \in 1..Len(tasks[y]) : tasks'[y][i] = tasks[y][j]
  OBVIOUS
<1>2. Len(tasks[x]) \in Nat
  BY DEF TypeOK
<1>3. CASE y = x
  <2>1. i + 1 \in 1..Len(tasks[y]) /\ tasks'[y][i] = tasks[y][i + 1]
    BY <1>2, <1>3, DoneTasks
  <2> QED
    BY <2>1
<1>4. CASE y # x
  BY <1>4, DoneTasks
<1> QED
  BY <1>3, <1>4

\* What holds of the tasks still holds when only some of them are left.
LEMMA FewerTasks ==
    ASSUME UNCHANGED <<opened, received, got, client>>,
           \A y \in Conns : \A i \in 1..Len(tasks'[y]) :
              \E j \in 1..Len(tasks[y]) : tasks'[y][i] = tasks[y][j]
    PROVE  /\ Backed => Backed'
           /\ \A y \in Conns : \A i \in 1..Len(tasks'[y]) :
                 tasks'[y][i] = AnswerTask(opened) => Answering
<1>1. ASSUME Backed PROVE Backed'
  <2>1. ASSUME NEW y \in Conns, NEW i \in 1..Len(tasks'[y])
        PROVE  /\ tasks'[y][i].op = "ack" => 1..tasks'[y][i].n \subseteq got
               /\ tasks'[y][i].op = "answer" => tasks'[y][i].n <= opened
    <3>1. PICK j \in 1..Len(tasks[y]) : tasks'[y][i] = tasks[y][j]
      BY <2>1
    <3> QED
      BY <1>1, <3>1 DEF Backed
  <2> QED
    BY <1>1, <2>1 DEF Backed
<1>2. ASSUME NEW y \in Conns, NEW i \in 1..Len(tasks'[y]), tasks'[y][i] = AnswerTask(opened)
      PROVE  Answering
  <2>1. PICK j \in 1..Len(tasks[y]) : tasks'[y][i] = tasks[y][j]
    BY <1>2
  <2> QED
    BY <1>2, <2>1 DEF Answering
<1> QED
  BY <1>1, <1>2

\* Order and range of a growing sequence of numbers.
LEMMA AppendOrdered ==
    ASSUME NEW m \in Nat, NEW s \in Seq(Nat \ {0}),
           \A i \in 1..Len(s) : s[i] \in 1..m,
           \A i, j \in 1..Len(s) : i < j => s[i] < s[j]
    PROVE  /\ \A i \in 1..Len(Append(s, m + 1)) : Append(s, m + 1)[i] \in 1..(m + 1)
           /\ \A i, j \in 1..Len(Append(s, m + 1)) : i < j => Append(s, m + 1)[i] < Append(s, m + 1)[j]
<1> DEFINE a == Append(s, m + 1)
<1>1. /\ Len(s) \in Nat /\ Len(a) = Len(s) + 1 /\ a[Len(s) + 1] = m + 1
      /\ \A i \in 1..Len(s) : a[i] = s[i]
  BY m + 1 \in Nat \ {0}, AppendElements
<1>2. ASSUME NEW i \in 1..Len(a) PROVE a[i] \in 1..(m + 1)
  <2>1. CASE i \in 1..Len(s)
    BY <1>1, <2>1
  <2>2. CASE i = Len(s) + 1
    BY <1>1, <2>2
  <2> QED
    BY <1>1, <2>1, <2>2
<1>3. ASSUME NEW i \in 1..Len(a), NEW j \in 1..Len(a), i < j PROVE a[i] < a[j]
  <2>1. i \in 1..Len(s) /\ a[i] \in 1..m
    BY <1>1, <1>3
  <2>2. CASE j \in 1..Len(s)
    BY <1>1, <1>3, <2>1, <2>2
  <2>3. CASE j = Len(s) + 1
    BY <1>1, <2>1, <2>3
  <2> QED
    BY <1>1, <2>2, <2>3
<1> QED
  BY <1>2, <1>3

LEMMA BeginSendInv ==
    ASSUME TypeOK, Numbered, Backed, Followed, flaw' = {},
           NEW x \in Conns, BeginSend(x)
    PROVE  Numbered' /\ Backed' /\ Followed'
<1>0. /\ UNCHANGED <<link, session, opened, last, pool, wire, received, got, client>>
      /\ HasTask(x, {"send", "answer"}) /\ tasks[x] # <<>> /\ stamp[x] = 0
  BY DEF BeginSend, sessionVars, clientVars, HasTask
<1>1. CASE session # "destroyed"
  <2>1. tasks' = tasks /\ stamp' = [stamp EXCEPT ![x] = last + 1] /\ Racing(x) = {}
    BY <1>1 DEF BeginSend
  <2>2. \A y \in Conns \ {x} : stamp[y] = 0
    BY <2>1 DEF Racing
  <2>3. stamp \in [Conns -> Nat]
    BY DEF TypeOK
  <2>4. Numbered'
    BY <1>0, <2>1, <2>2, <2>3 DEF Numbered, HasTask
  <2>5. Backed'
    BY <1>0, <2>1 DEF Backed
  <2>6. Followed'
    BY <1>0, <2>1 DEF Followed, Answering, Covered, OnWire, IsActive, AnswerTask, InOrder
  <2> QED
    BY <2>4, <2>5, <2>6
<1>2. CASE session = "destroyed"
  <2>1. Done(x) /\ stamp' = stamp
    BY <1>2 DEF BeginSend
  <2>2. Numbered'
    BY <1>0, <2>1, DoneKeepsHead DEF Numbered
  <2>3. Backed'
    BY <1>0, <2>1, DoneSubset DEF Backed
  <2>4. Followed'
    BY <1>0, <1>2 DEF Followed, IsActive, InOrder
  <2> QED
    BY <2>2, <2>3, <2>4
<1> QED
  BY <1>1, <1>2

LEMMA SendMessageImplInv ==
    ASSUME TypeOK, Stamped, Numbered, Backed, Followed, flaw' = {},
           NEW x \in Conns, SendMessageImpl(x)
    PROVE  Numbered' /\ Backed' /\ Followed'
<1> DEFINE packet == [id |-> last + 1, op |-> Head(tasks[x]).op]
<1>0. /\ UNCHANGED <<link, session, opened, received, got, client>>
      /\ tasks[x] # <<>> /\ Done(x) /\ HasTask(x, {"send", "answer"})
      /\ stamp[x] = last + 1 /\ last' = last + 1 /\ pool' = Append(pool, last + 1)
      /\ stamp' = [stamp EXCEPT ![x] = 0]
      /\ \A y \in Conns \ {x} : stamp[y] = 0
  BY DEF SendMessageImpl, sessionVars, clientVars, HasTask, Stamped, Numbered
<1>1. /\ last \in Nat /\ pool \in Seq(Nat \ {0}) /\ wire \in Seq(Packet)
      /\ stamp \in [Conns -> Nat] /\ Len(pool) \in Nat /\ Len(wire) \in Nat
  BY DEF TypeOK
<1>a. packet \in Packet /\ wire' = IF IsActive THEN Append(wire, packet) ELSE wire
  BY <1>0, <1>1 DEF SendMessageImpl, HasTask, Packet
<1>b. \A y \in Conns : \A i \in 1..Len(tasks'[y]) :
         \E j \in 1..Len(tasks[y]) : tasks'[y][i] = tasks[y][j]
  BY <1>0, DoneSubset
<1>2. /\ Len(pool') = Len(pool) + 1 /\ pool'[Len(pool) + 1] = last + 1
      /\ \A i \in 1..Len(pool) : pool'[i] = pool[i]
  BY <1>0, <1>1, last + 1 \in Nat \ {0}, AppendElements
<1>3. Numbered'
  <2>0. /\ \A i \in 1..Len(pool) : pool[i] \in 1..last
        /\ \A i, j \in 1..Len(pool) : i < j => pool[i] < pool[j]
        /\ \A n \in 1..last : n \in got \/ \E i \in 1..Len(pool) : pool[i] = n
    BY DEF Numbered
  <2>1. \A y \in Conns : stamp'[y] = 0
    BY <1>0, <1>1
  <2>2. \A i \in 1..Len(pool') : pool'[i] \in 1..last'
    BY <1>0, <1>1, <1>2 DEF Numbered
  <2>3. \A i, j \in 1..Len(pool') : i < j => pool'[i] < pool'[j]
    BY <1>0, <1>1, <2>0, AppendOrdered
  <2>4. got' \subseteq 1..last'
    BY <1>0, <1>1 DEF Numbered
  <2>5. \A n \in 1..last' : n \in got' \/ \E i \in 1..Len(pool') : pool'[i] = n
    <3>1. SUFFICES ASSUME NEW n \in 1..last', n \notin got
                   PROVE  \E i \in 1..Len(pool') : pool'[i] = n
      BY <1>0
    <3>2. CASE n = last + 1
      BY <1>1, <1>2, <3>2
    <3>3. CASE n # last + 1
      <4>1. PICK i \in 1..Len(pool) : pool[i] = n
        BY <1>0, <1>1, <2>0, <3>1, <3>3
      <4> QED
        BY <1>1, <1>2, <4>1
    <3> QED
      BY <3>2, <3>3
  <2> QED
    BY <2>1, <2>2, <2>3, <2>4, <2>5 DEF Numbered
<1>4. Backed'
  BY <1>0, <1>b, FewerTasks
<1>5. CASE ~IsActive
  <2>1. wire' = wire /\ wire = <<>> /\ session' = session
    BY <1>0, <1>a, <1>5 DEF Followed
  <2> QED
    <3>1. ~IsActive' /\ wire' = <<>>
      BY <1>5, <2>1 DEF IsActive
    <3>2. InOrder'
      BY <3>1 DEF InOrder
    <3>3. Followed'
      BY <3>1, <3>2, Zenon DEF Followed
    <3> QED
      BY <1>3, <1>4, <3>3
<1>6. CASE IsActive
  <2>1. /\ Len(wire') = Len(wire) + 1 /\ wire'[Len(wire) + 1] = packet
        /\ \A i \in 1..Len(wire) : wire'[i] = wire[i]
    BY <1>a, <1>1, <1>6, AppendElements
  <2>2. packet.id = last + 1 /\ packet.op = tasks[x][1].op
    BY <1>0, DoneTasks
  <2>3. InOrder'
    <3>1. /\ \A i \in 1..Len(wire) : wire[i].id \in 1..last
          /\ \A i, j \in 1..Len(wire) : i < j => wire[i].id < wire[j].id
      BY DEF Followed, InOrder
    <3>2. /\ \A i \in 1..Len(wire) : wire'[i].id = wire[i].id
          /\ wire'[Len(wire) + 1].id = last + 1
      BY <2>1, <2>2
    <3>3. ASSUME NEW i \in 1..Len(wire') PROVE wire'[i].id \in 1..last'
      <4>1. CASE i \in 1..Len(wire)
        BY <1>0, <1>1, <3>1, <3>2, <4>1
      <4>2. CASE i = Len(wire) + 1
        BY <1>0, <1>1, <3>2, <4>2
      <4> QED
        BY <1>1, <2>1, <4>1, <4>2
    <3>4. ASSUME NEW i \in 1..Len(wire'), NEW j \in 1..Len(wire'), i < j
          PROVE  wire'[i].id < wire'[j].id
      <4>0. i \in 1..Len(wire)
        <5>1. Len(wire') = Len(wire) + 1
          BY <2>1
        <5> QED
          BY <1>1, <3>4, <5>1
      <4>1. i \in 1..Len(wire) /\ wire'[i].id \in 1..last
        BY <3>1, <3>2, <4>0
      <4>2. CASE j \in 1..Len(wire)
        <5>1. wire[i].id < wire[j].id
          BY <3>1, <3>4, <4>1, <4>2
        <5> QED
          BY <3>2, <4>1, <4>2, <5>1
      <4>3. CASE j = Len(wire) + 1
        BY <1>1, <3>2, <4>1, <4>3
      <4> QED
        BY <1>1, <2>1, <4>2, <4>3
    <3> QED
      BY <3>3, <3>4 DEF InOrder
  <2>4. Covered => Covered'
    <3>1. SUFFICES ASSUME Covered, NEW n \in 1..(last + 1) PROVE n \in got \/ OnWire(n)'
      BY <1>0 DEF Covered
    <3>2. CASE n = last + 1
      BY <1>1, <2>1, <2>2, <3>2 DEF OnWire
    <3>3. CASE n \in 1..last
      BY <1>1, <2>1, <3>1, <3>3 DEF OnWire, Covered
    <3> QED
      BY <1>1, <3>2, <3>3
  <2>5. Answering' => Answering
    <3>1. ASSUME NEW i \in 1..Len(wire'), wire'[i].op = "answer" PROVE Answering
      <4>1. CASE i \in 1..Len(wire)
        BY <2>1, <3>1, <4>1 DEF Answering
      <4>2. CASE i = Len(wire) + 1
        <5>1. tasks[x][1].op = "answer" /\ tasks[x][1] \in Task
          BY <1>0, <2>1, <2>2, <3>1, <4>2, DoneTasks
        <5>2. tasks[x][1].n = opened
          BY <1>0, <5>1, DoneTasks DEF SendMessageImpl, Late, HasTask
        <5>3. tasks[x][1] = AnswerTask(opened)
          BY <5>1, <5>2 DEF Task, AnswerTask
        <5>4. 1 \in 1..Len(tasks[x])
          BY <1>0 DEF TypeOK
        <5> QED
          BY <5>3, <5>4 DEF Answering
      <4> QED
        BY <1>1, <2>1, <4>1, <4>2
    <3>2. ASSUME NEW y \in Conns, NEW i \in 1..Len(tasks'[y]), tasks'[y][i] = AnswerTask(opened)
          PROVE Answering
      BY <1>b, <3>2 DEF Answering
    <3> QED
      BY <1>0, <3>1, <3>2 DEF Answering, AnswerTask
  <2> QED
    <3>1. IsActive'
      BY <1>0, <1>6 DEF IsActive
    <3>2. Answering' => Covered'
      BY <1>6, <2>4, <2>5 DEF Followed
    <3>3. Followed'
      BY <2>3, <3>1, <3>2, Zenon DEF Followed
    <3> QED
      BY <1>3, <1>4, <3>3
<1> QED
  BY <1>5, <1>6

LEMMA DiscardInv ==
    ASSUME TypeOK, Stamped, Numbered, Backed, Followed, flaw' = {},
           NEW x \in Conns, DiscardServerMessage(x)
    PROVE  Numbered' /\ Backed' /\ Followed'
<1>0. /\ UNCHANGED <<link, session, opened, stamp, last, wire, received, got, client>>
      /\ tasks[x] # <<>> /\ Done(x) /\ HasTask(x, {"ack"}) /\ stamp[x] = 0
  BY DEF DiscardServerMessage, sessionVars, clientVars, HasTask, Stamped
<1>1. PICK k \in 0..Len(pool) :
         Consumed(k, tasks[x][1].n) /\ pool' = SubSeq(pool, k + 1, Len(pool))
  BY <1>0, DoneTasks DEF DiscardServerMessage
<1>2. tasks[x][1].op = "ack" /\ tasks[x][1].n \in Nat /\ 1 \in 1..Len(tasks[x])
  BY <1>0, DoneTasks DEF HasTask, TypeOK, Task
<1>3. 1..tasks[x][1].n \subseteq got
  BY <1>2 DEF Backed
<1>4. pool \in Seq(Nat \ {0}) /\ Len(pool) \in Nat /\ last \in Nat
  BY DEF TypeOK
<1>5. /\ Len(pool') = Len(pool) - k
      /\ \A i \in 1..(Len(pool) - k) : pool'[i] = pool[i + k]
  BY <1>1, <1>4, SuffixElements
<1>6. \A i \in 1..k : pool[i] \in got
  <2>1. SUFFICES ASSUME NEW i \in 1..k PROVE pool[i] \in got
    OBVIOUS
  <2>2. pool[i] \in Nat \ {0} /\ pool[i] <= tasks[x][1].n
    BY <1>1, <1>4 DEF Consumed
  <2> QED
    BY <1>2, <1>3, <2>2
<1>b. \A y \in Conns : \A i \in 1..Len(tasks'[y]) :
         \E j \in 1..Len(tasks[y]) : tasks'[y][i] = tasks[y][j]
  BY <1>0, DoneSubset
<1>7. Numbered'
  <2>1. \A i \in 1..Len(pool') : i + k \in 1..Len(pool) /\ pool'[i] = pool[i + k]
    BY <1>4, <1>5
  <2>2. \A i \in 1..Len(pool') : pool'[i] \in 1..last
    BY <2>1 DEF Numbered
  <2>3. \A i, j \in 1..Len(pool') : i < j => pool'[i] < pool'[j]
    <3>1. \A i, j \in 1..Len(pool) : i < j => pool[i] < pool[j]
      BY DEF Numbered
    <3> QED
      <4>1. SUFFICES ASSUME NEW i \in 1..Len(pool'), NEW j \in 1..Len(pool'), i < j
                     PROVE  pool'[i] < pool'[j]
        OBVIOUS
      <4>2. i + k < j + k /\ i + k \in 1..Len(pool) /\ j + k \in 1..Len(pool)
        BY <1>4, <1>5, <2>1, <4>1
      <4>3. pool[i + k] < pool[j + k]
        BY <3>1, <4>2
      <4> QED
        BY <2>1, <4>3
  <2>4. ASSUME NEW n \in 1..last, n \notin got PROVE \E i \in 1..Len(pool') : pool'[i] = n
    <3>1. PICK j \in 1..Len(pool) : pool[j] = n
      BY <2>4 DEF Numbered
    <3>2. j > k
      BY <1>6, <2>4, <3>1
    <3>3. j - k \in 1..Len(pool') /\ pool'[j - k] = n
      BY <1>4, <1>5, <3>1, <3>2
    <3> QED
      BY <3>3
  <2>5. \A y \in Conns : stamp'[y] # 0 =>
           /\ stamp'[y] = last + 1 /\ HasTask(y, {"send", "answer"})'
           /\ \A z \in Conns \ {y} : stamp'[z] = 0
    BY <1>0, DoneKeepsHead DEF Numbered
  <2> QED
    BY <1>0, <2>2, <2>3, <2>4, <2>5 DEF Numbered
<1>8. Backed'
  BY <1>0, <1>b, FewerTasks
<1>9. Covered => Covered'
  BY <1>0 DEF Covered, OnWire
<1>10. Answering' => Answering
  <2>1. (\E y \in Conns : \E i \in 1..Len(tasks'[y]) : tasks'[y][i] = AnswerTask(opened)) => Answering
    BY <1>0, <1>b, FewerTasks
  <2> QED
    BY <1>0, <2>1 DEF Answering, AnswerTask
<1>11. Followed'
  BY <1>0, <1>9, <1>10 DEF Followed, IsActive, InOrder
<1> QED
  BY <1>7, <1>8, <1>11

LEMMA AnswerInv ==
    ASSUME TypeOK, Numbered, Backed, Followed, AnswerReconnection
    PROVE  Numbered' /\ Backed' /\ Followed'
<1>0. UNCHANGED <<sessionVars, stamp, last, pool, wire, clientVars>>
  BY DEF AnswerReconnection
<1>1. CASE Readable /\ Execute(link, AnswerTask(opened))
  <2>1. pool = <<>> /\ Len(pool) = 0
    BY <1>1 DEF Readable
  <2>2. Covered
    BY <2>1 DEF Numbered, Covered
  <2>3. /\ link \in Conns /\ AnswerTask(opened) \in Task
        /\ AnswerTask(opened).op = "answer" /\ AnswerTask(opened).n = opened
        /\ opened <= opened
    BY PoolAssumption, TasksAreTasks DEF TypeOK, AnswerTask
  <2> QED
    BY <1>0, <1>1, <2>2, <2>3, ExecuteInv
<1>2. CASE UNCHANGED tasks
  BY <1>0, <1>2 DEF sessionVars, clientVars, Numbered, HasTask, Backed, Followed, InOrder,
     Answering, Covered, OnWire, IsActive, AnswerTask
<1> QED
  BY <1>1, <1>2 DEF AnswerReconnection

LEMMA ClientReceivesInv ==
    ASSUME TypeOK, Numbered, Backed, Followed, ClientReceives
    PROVE  Numbered' /\ Backed' /\ Followed'
<1>0. /\ UNCHANGED <<link, session, opened, tasks, stamp, last, pool>>
      /\ wire # <<>> /\ wire' = Tail(wire)
      /\ wire \in Seq(Packet) /\ last \in Nat
      /\ IsActive
  BY DEF ClientReceives, sessionVars, TypeOK, Followed
<1>1. /\ Len(wire) \in Nat \ {0} /\ Head(wire) = wire[1] /\ wire[1] \in Packet
      /\ Len(wire') = Len(wire) - 1
      /\ \A i \in 1..(Len(wire) - 1) : wire'[i] = wire[i + 1]
  BY <1>0, TailElements
<1>2. /\ received' = wire[1].id /\ got' = got \cup {wire[1].id}
      /\ client' = IF wire[1].op = "answer" THEN "playing" ELSE client
  BY <1>1 DEF ClientReceives
<1>3. /\ \A i \in 1..Len(wire) : wire[i].id \in 1..last
      /\ \A i, j \in 1..Len(wire) : i < j => wire[i].id < wire[j].id
      /\ 1 \in 1..Len(wire)
  BY <1>1 DEF Followed, InOrder
<1>4. \A i \in 1..Len(wire') : i + 1 \in 1..Len(wire) /\ wire'[i] = wire[i + 1]
  BY <1>1
<1>5. Numbered'
  <2>1. wire[1].id \in 1..last
    BY <1>3
  <2> QED
    BY <1>0, <1>2, <2>1 DEF Numbered, HasTask
<1>6. InOrder'
  <2>1. \A i \in 1..Len(wire') : wire'[i].id \in 1..last'
    BY <1>0, <1>3, <1>4
  <2>2. ASSUME NEW i \in 1..Len(wire'), NEW j \in 1..Len(wire'), i < j
        PROVE  wire'[i].id < wire'[j].id
    <3>1. i + 1 < j + 1 /\ i + 1 \in 1..Len(wire) /\ j + 1 \in 1..Len(wire)
      BY <1>1, <1>4, <2>2
    <3>2. wire[i + 1].id < wire[j + 1].id
      BY <1>3, <3>1
    <3> QED
      BY <1>4, <3>2
  <2> QED
    BY <2>1, <2>2 DEF InOrder
<1>7. Answering' => Answering
  <2>1. client' = "playing" => Answering
    BY <1>2, <1>3 DEF Answering
  <2>2. ASSUME NEW i \in 1..Len(wire'), wire'[i].op = "answer" PROVE Answering
    BY <1>4, <2>2 DEF Answering
  <2> QED
    BY <1>0, <2>1, <2>2 DEF Answering, AnswerTask
<1>8. Covered => Covered'
  <2>1. SUFFICES ASSUME Covered, NEW n \in 1..last, n \notin got'
                 PROVE  \E i \in 1..Len(wire') : wire'[i].id = n
    BY <1>0 DEF Covered, OnWire
  <2>2. PICK j \in 1..Len(wire) : wire[j].id = n
    BY <1>2, <2>1 DEF Covered, OnWire
  <2>3. j # 1
    BY <1>2, <2>1, <2>2
  <2>4. j - 1 \in 1..Len(wire') /\ wire'[j - 1] = wire[(j - 1) + 1] /\ (j - 1) + 1 = j
    BY <1>1, <1>4, <2>3
  <2> QED
    BY <2>2, <2>4
<1>9. Followed'
  <2>1. IsActive'
    BY <1>0 DEF IsActive
  <2>2. Answering' => Covered'
    BY <1>0, <1>7, <1>8 DEF Followed
  <2> QED
    BY <1>6, <2>1, <2>2, Zenon DEF Followed
<1>10. client' = "playing" => 1..received' \subseteq got'
  <2>1. SUFFICES ASSUME client' = "playing", NEW n \in 1..wire[1].id, n # wire[1].id
                 PROVE  n \in got
    BY <1>2, <1>3
  <2>2. Answering
    BY <1>2, <1>3, <2>1 DEF Answering
  <2>3. Covered /\ n \in 1..last
    BY <1>0, <1>3, <2>2 DEF Followed
  <2>4. ASSUME NEW j \in 1..Len(wire) PROVE wire[j].id # n
    <3>1. CASE j = 1
      BY <2>1, <3>1
    <3>2. CASE j # 1
      <4>1. 1 < j /\ wire[1].id < wire[j].id /\ wire[1].id \in Nat /\ wire[j].id \in Nat
        BY <1>3, <3>2
      <4> QED
        BY <2>1, <4>1
    <3> QED
      BY <3>1, <3>2
  <2> QED
    BY <2>3, <2>4 DEF Covered, OnWire
<1>11. Backed'
  BY <1>0, <1>2, <1>10 DEF Backed
<1> QED
  BY <1>5, <1>9, <1>11

LEMMA LossInv ==
    ASSUME TypeOK, Numbered, Backed, Followed, ConnectionLost \/ SessionDestroyed
    PROVE  Numbered' /\ Backed' /\ Followed'
<1>0. /\ UNCHANGED <<opened, tasks, stamp, last, pool, received, got, client>>
      /\ ~IsActive'
      /\ wire' = <<>>
  BY DEF ConnectionLost, SessionDestroyed, clientVars, IsActive, Followed
<1>1. Numbered'
  BY <1>0 DEF Numbered, HasTask
<1>2. Backed'
  BY <1>0 DEF Backed
<1>3. InOrder'
  BY <1>0 DEF InOrder
<1>4. Followed'
  BY <1>0, <1>3, Zenon DEF Followed
<1> QED
  BY <1>1, <1>2, <1>4

LEMMA ReconnectionInv ==
    ASSUME TypeOK, Numbered, Backed, Followed, NEW y \in Conns, Reconnection(y)
    PROVE  Numbered' /\ Backed' /\ Followed'
<1>0. /\ UNCHANGED <<tasks, stamp, last, pool, received, got>>
      /\ opened' = opened + 1 /\ opened \in Nat
      /\ client' = "waiting" /\ wire' = <<>> /\ IsActive'
  BY PoolAssumption DEF Reconnection, IsActive, TypeOK
<1>1. Numbered'
  BY <1>0 DEF Numbered, HasTask
<1>2. Backed'
  <2>1. ASSUME NEW x \in Conns, NEW i \in 1..Len(tasks[x]), tasks[x][i].op = "answer"
        PROVE  tasks[x][i].n <= opened + 1
    <3>0. tasks[x] \in Seq(Task)
      BY DEF TypeOK
    <3>a. tasks[x][i] \in Task
      BY <3>0
    <3>1. tasks[x][i].n <= opened /\ tasks[x][i].n \in Nat
      BY <2>1, <3>a DEF Backed, Task
    <3> QED
      BY <1>0, <3>1
  <2> QED
    BY <1>0, <2>1 DEF Backed
<1>3. InOrder'
  BY <1>0 DEF InOrder
<1>4. ~Answering'
  <2>1. ASSUME NEW x \in Conns, NEW i \in 1..Len(tasks[x])
        PROVE  tasks[x][i] # AnswerTask(opened + 1)
    <3>1. SUFFICES ASSUME tasks[x][i] = AnswerTask(opened + 1) PROVE FALSE
      OBVIOUS
    <3>2. tasks[x][i].op = "answer" /\ tasks[x][i].n = opened + 1
      BY <3>1 DEF AnswerTask
    <3>3. tasks[x][i].n <= opened
      BY <2>1, <3>2 DEF Backed
    <3> QED
      BY <1>0, <3>2, <3>3
  <2>2. Len(wire') = 0
    BY <1>0
  <2> QED
    BY <1>0, <2>1, <2>2 DEF Answering, AnswerTask
<1>5. Followed'
  BY <1>0, <1>3, <1>4, Zenon DEF Followed
<1> QED
  BY <1>1, <1>2, <1>5

LEMMA InvStep ==
    ASSUME TypeOK, Stamped, Inv, [Next]_vars
    PROVE  Inv'
<1>1. SUFFICES ASSUME flaw' = {} PROVE Numbered' /\ Backed' /\ Followed'
  BY DEF Inv
<1>2. flaw = {}
  BY <1>1 DEF Next, vars, SendMessage, BeginSend, SendMessageImpl, DiscardServerMessage, Validate,
     ClientReceives, ConnectionLost, SessionDestroyed, Rebind, Reconnection, AnswerReconnection
<1>3. Numbered /\ Backed /\ Followed
  BY <1>2 DEF Inv
<1>4. link \in Conns /\ received \in Nat
  BY DEF TypeOK
<1>5. CASE SendMessage
  <2>1. SendTask \in Task /\ SendTask.op = "send"
    BY TasksAreTasks DEF SendTask
  <2> QED
    BY <1>3, <1>4, <1>5, <2>1, ExecuteInv DEF SendMessage
<1>6. ASSUME NEW x \in Conns, BeginSend(x) PROVE Numbered' /\ Backed' /\ Followed'
  BY <1>1, <1>3, <1>6, BeginSendInv
<1>7. ASSUME NEW x \in Conns, SendMessageImpl(x) PROVE Numbered' /\ Backed' /\ Followed'
  BY <1>1, <1>3, <1>7, SendMessageImplInv
<1>8. ASSUME NEW x \in Conns, DiscardServerMessage(x) PROVE Numbered' /\ Backed' /\ Followed'
  BY <1>1, <1>3, <1>8, DiscardInv
<1>9. CASE Validate
  <2>1. /\ AckTask(received) \in Task /\ AckTask(received).op = "ack"
        /\ AckTask(received).n = received
    BY <1>4, TasksAreTasks DEF AckTask
  <2>2. 1..received \subseteq got
    BY <1>3, <1>9 DEF Validate, Backed
  <2> QED
    BY <1>3, <1>4, <1>9, <2>1, <2>2, ExecuteInv DEF Validate
<1>10. CASE ClientReceives
  BY <1>3, <1>10, ClientReceivesInv
<1>11. CASE ConnectionLost \/ SessionDestroyed
  BY <1>3, <1>11, LossInv
<1>12. ASSUME NEW y \in Conns, Rebind(y) PROVE FALSE
  BY <1>1, <1>12 DEF Rebind
<1>13. ASSUME NEW y \in Conns, Reconnection(y) PROVE Numbered' /\ Backed' /\ Followed'
  BY <1>3, <1>13, ReconnectionInv
<1>14. CASE AnswerReconnection
  BY <1>3, <1>14, AnswerInv
<1>15. CASE UNCHANGED vars
  BY <1>3, <1>15 DEF vars, sessionVars, clientVars, Numbered, HasTask, Backed, Followed, InOrder,
     Answering, Covered, OnWire, IsActive, AnswerTask
<1> QED
  BY <1>5, <1>6, <1>7, <1>8, <1>9, <1>10, <1>11, <1>12, <1>13, <1>14, <1>15 DEF Next

LEMMA InvInit == Init => TypeOK /\ Stamped /\ Inv
<1>1. ASSUME Init PROVE TypeOK /\ Stamped
  BY <1>1, PoolAssumption DEF Init, TypeOK, Stamped
<1>2. ASSUME Init PROVE Inv
  <2>1. Numbered
    BY <1>2 DEF Init, Numbered
  <2>2. Backed
    BY <1>2 DEF Init, Backed
  <2>3. Followed
    BY <1>2 DEF Init, Followed, InOrder, Covered, IsActive
  <2> QED
    BY <2>1, <2>2, <2>3 DEF Inv
<1> QED
  BY <1>1, <1>2

\* Whatever connections are lost and however the client reconnects, a
\* message sendMessageImpl has numbered is pooled or was received, except
\* after one of the three flaws.
THEOREM NothingLost == Spec => []NoneLost
<1>1. Inv => NoneLost
  BY DEF Inv, Numbered, NoneLost, Pooled
<1> QED
  BY <1>1, InvInit, InvStep, TypeStep, PTL DEF Spec

-----------------------------------------------------------------------------
\* Once there is a flaw, every step is one Outbox excuses.
LEMMA FlawStays ==
    ASSUME [Next]_vars
    PROVE  flaw \subseteq flaw'
BY DEF Next, vars, SendMessage, BeginSend, SendMessageImpl, DiscardServerMessage, Validate,
   ClientReceives, ConnectionLost, SessionDestroyed, Rebind, Reconnection, AnswerReconnection

\* What discardServerMessage takes from the pool is what it has consumed.
LEMMA DiscardReleases ==
    ASSUME TypeOK, Stamped, Numbered, Backed, NEW x \in Conns, DiscardServerMessage(x)
    PROVE  \E N \in SUBSET got : Pooled' = Pooled \ N
<1>0. tasks[x] # <<>> /\ Done(x) /\ HasTask(x, {"ack"})
  BY DEF DiscardServerMessage, HasTask
<1>1. PICK k \in 0..Len(pool) :
         Consumed(k, tasks[x][1].n) /\ pool' = SubSeq(pool, k + 1, Len(pool))
  BY <1>0, DoneTasks DEF DiscardServerMessage
<1>2. tasks[x][1].op = "ack" /\ tasks[x][1].n \in Nat /\ 1 \in 1..Len(tasks[x])
  BY <1>0, DoneTasks DEF HasTask, TypeOK, Task
<1>3. 1..tasks[x][1].n \subseteq got
  BY <1>2 DEF Backed
<1>4. pool \in Seq(Nat \ {0}) /\ Len(pool) \in Nat
  BY DEF TypeOK
<1>5. /\ Len(pool') = Len(pool) - k
      /\ \A i \in 1..(Len(pool) - k) : pool'[i] = pool[i + k]
  BY <1>1, <1>4, SuffixElements
<1>6. \A i, j \in 1..Len(pool) : i < j => pool[i] < pool[j]
  BY DEF Numbered
<1> DEFINE N == {pool[i] : i \in 1..k}
<1>7. N \subseteq got
  <2>1. SUFFICES ASSUME NEW i \in 1..k PROVE pool[i] \in got
    OBVIOUS
  <2>2. pool[i] \in Nat \ {0} /\ pool[i] <= tasks[x][1].n
    BY <1>1, <1>4 DEF Consumed
  <2> QED
    BY <1>2, <1>3, <2>2
<1>8. ASSUME NEW i \in 1..Len(pool') PROVE pool'[i] \in Pooled \ N
  <2>1. i + k \in 1..Len(pool) /\ pool'[i] = pool[i + k]
    BY <1>4, <1>5
  <2>2. ASSUME NEW j \in 1..k PROVE pool[j] # pool[i + k]
    <3>1. j \in 1..Len(pool) /\ j < i + k
      BY <1>4
    <3>2. pool[j] < pool[i + k]
      BY <1>6, <2>1, <3>1
    <3>3. pool[j] \in Nat /\ pool[i + k] \in Nat
      BY <1>4, <2>1, <3>1
    <3> QED
      BY <3>2, <3>3
  <2> QED
    BY <2>1, <2>2 DEF Pooled
<1>9. ASSUME NEW j \in 1..Len(pool), pool[j] \notin N
      PROVE  \E i \in 1..Len(pool') : pool'[i] = pool[j]
  <2>1. j \notin 1..k
    BY <1>9
  <2>2. j - k \in 1..Len(pool') /\ pool'[j - k] = pool[(j - k) + k] /\ (j - k) + k = j
    BY <1>4, <1>5, <2>1
  <2> QED
    BY <2>2
<1>10. Pooled' = Pooled \ N
  BY <1>8, <1>9 DEF Pooled
<1> QED
  BY <1>7, <1>10

LEMMA OutboxStep ==
    ASSUME TypeOK, Stamped, Inv, [Next]_vars
    PROVE  [O!Next]_(O!vars)
<1>1. CASE flaw' # {}
  BY <1>1 DEF O!Next, O!Excuse
<1>2. CASE flaw' = {}
  <2>1. flaw = {} /\ flaw' = flaw /\ Numbered /\ Backed /\ Followed
    BY <1>2, FlawStays DEF Inv
  <2>2. UNCHANGED <<last, pool, got>> => UNCHANGED O!vars
    BY <2>1 DEF O!vars, Pooled
  <2>3. ASSUME NEW x \in Conns, SendMessageImpl(x) PROVE O!Post
    <3>1. /\ stamp[x] = last + 1 /\ last' = last + 1
          /\ pool' = Append(pool, last + 1) /\ got' = got
      BY <2>1, <2>3 DEF SendMessageImpl, Numbered, clientVars
    <3>2. pool \in Seq(Nat \ {0}) /\ last + 1 \in Nat \ {0} /\ Len(pool) \in Nat
      BY DEF TypeOK
    <3>3. /\ Len(pool') = Len(pool) + 1 /\ pool'[Len(pool) + 1] = last + 1
          /\ \A i \in 1..Len(pool) : pool'[i] = pool[i]
      BY <3>1, <3>2, AppendElements
    <3>4. Pooled' = Pooled \cup {last + 1}
      <4>1. ASSUME NEW i \in 1..Len(pool') PROVE pool'[i] \in Pooled \cup {last + 1}
        <5>1. i \in 1..Len(pool) \/ i = Len(pool) + 1
          BY <3>2, <3>3
        <5> QED
          BY <3>3, <5>1 DEF Pooled
      <4>2. Len(pool) + 1 \in 1..Len(pool') /\ \A i \in 1..Len(pool) : i \in 1..Len(pool')
        BY <3>2, <3>3
      <4> QED
        BY <3>3, <4>1, <4>2 DEF Pooled
    <3> QED
      BY <2>1, <3>1, <3>4 DEF O!Post
  <2>4. ASSUME NEW x \in Conns, DiscardServerMessage(x)
        PROVE  \E N \in SUBSET got : O!Release(N)
    <3>1. PICK N \in SUBSET got : Pooled' = Pooled \ N
      BY <2>1, <2>4, DiscardReleases
    <3>2. UNCHANGED <<last, got>>
      BY <2>4 DEF DiscardServerMessage, clientVars
    <3> QED
      BY <2>1, <3>1, <3>2 DEF O!Release
  <2>5. ASSUME ClientReceives PROVE \E n \in 1..last : O!Learn(n)
    <3>1. wire # <<>> /\ wire \in Seq(Packet) /\ UNCHANGED <<last, pool>>
      BY <2>5 DEF ClientReceives, TypeOK
    <3>2. Head(wire) = wire[1] /\ 1 \in 1..Len(wire)
      BY <3>1, TailElements
    <3>3. wire[1].id \in 1..last /\ got' = got \cup {wire[1].id}
      BY <2>1, <2>5, <3>2 DEF ClientReceives, Followed, InOrder
    <3>4. Pooled' = Pooled
      BY <3>1 DEF Pooled
    <3> QED
      BY <2>1, <3>1, <3>3, <3>4 DEF O!Learn
  <2>6. \/ UNCHANGED <<last, pool, got>>
        \/ \E x \in Conns : SendMessageImpl(x) \/ DiscardServerMessage(x)
        \/ ClientReceives
    BY DEF Next, vars, clientVars, SendMessage, BeginSend, Validate, ConnectionLost,
       SessionDestroyed, Rebind, Reconnection, AnswerReconnection
  <2> QED
    BY <2>2, <2>3, <2>4, <2>5, <2>6 DEF O!Next
<1> QED
  BY <1>1, <1>2

\* MessageController implements Outbox: as long as there is no flaw its
\* steps number the next message, let the client learn of one, or take from
\* messagePool what the client has.
THEOREM Refinement == Spec => ImplementsOutbox
<1>1. Init => O!Init
  BY DEF Init, O!Init, Pooled
<1> QED
  BY <1>1, InvInit, InvStep, TypeStep, OutboxStep, PTL DEF Spec, ImplementsOutbox, O!Spec
=============================================================================
