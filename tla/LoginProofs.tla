---------------------------- MODULE LoginProofs -----------------------------
(***************************************************************************)
(* Proofs about Login for any sets of sessions and tokens and any bounds:  *)
(* types, the token index, one client at a time, a player that can be      *)
(* reached, and no object that stays online outside the cache.             *)
(*                                                                         *)
(* The layers of the invariant are Base (types, and only what has been     *)
(* created is referred to), Current (which object may be online), Retired  *)
(* (what is left of a controller that was replaced) and Served (what a     *)
(* player that is online needs of controllers and sessions).  Each layer   *)
(* is shown to survive the few effects a step can have (Effect), and       *)
(* StepEffect shows that there are no others.                              *)
(***************************************************************************)
EXTENDS Login, SequenceTheorems, TLAPS

\* Tasks about controllers that have been created.
Known(n) == {e \in Task : e.op \in {"verify", "enter", "load", "offline"} => e.c <= n}

\* Verifications and loads.
Work(n) == {e \in Known(n) : e.op \in {"verify", "load"}}

\* What is referred to has been created.
Born ==
    /\ online \subseteq 1..objs
    /\ cached \in 0..objs
    /\ \A o \in Obj : o > objs => ctrl[o] = 0
    /\ \A o \in Obj : ctrl[o] <= ctls
    /\ \A o \in online : ctrl[o] # 0
    /\ pid \subseteq 1..ctls
    /\ \A s \in Sessions : cache[s] <= ctls
    /\ queue \in Seq(Known(ctls))
    /\ jobs \in Seq(Work(ctls))

Base == TypeOK /\ Born

-----------------------------------------------------------------------------
\* Tasks and sequences of tasks

Elems(q) == {q[i] : i \in 1..Len(q)}

\* A task appended is the only new element.
LEMMA AppendElems ==
    ASSUME NEW S, NEW q \in Seq(S), NEW e \in S
    PROVE  Elems(Append(q, e)) = Elems(q) \cup {e}
<1> DEFINE a == Append(q, e)
<1>1. /\ Len(a) = Len(q) + 1 /\ Len(q) \in Nat
      /\ \A i \in 1..Len(q) : a[i] = q[i]
      /\ a[Len(q) + 1] = e
  OBVIOUS
<1>2. \A x : x \in Elems(a) => x \in Elems(q) \cup {e}
  BY <1>1 DEF Elems
<1>3. \A x : x \in Elems(q) \cup {e} => x \in Elems(a)
  BY <1>1 DEF Elems
<1> QED
  BY <1>2, <1>3

\* The elements of a concatenation are those of its parts.
LEMMA ConcatElems ==
    ASSUME NEW S, NEW q \in Seq(S), NEW r \in Seq(S)
    PROVE  Elems(q \o r) = Elems(q) \cup Elems(r)
<1> DEFINE a == q \o r
<1>1. /\ Len(a) = Len(q) + Len(r) /\ Len(q) \in Nat /\ Len(r) \in Nat
      /\ \A i \in 1..Len(q) : a[i] = q[i]
      /\ \A i \in 1..Len(r) : a[Len(q) + i] = r[i]
  BY ConcatProperties
<1>2. \A i \in 1..Len(a) : i \in 1..Len(q) \/ (i - Len(q) \in 1..Len(r) /\ Len(q) + (i - Len(q)) = i)
  BY <1>1
<1> HIDE DEF a
<1>3. \A x : x \in Elems(a) => x \in Elems(q) \cup Elems(r)
  <2> SUFFICES ASSUME NEW i \in 1..Len(a) PROVE a[i] \in Elems(q) \cup Elems(r)
    BY DEF Elems
  <2>1. CASE i \in 1..Len(q)
    BY <2>1, <1>1 DEF Elems
  <2>2. CASE i \notin 1..Len(q)
    <3> DEFINE k == i - Len(q)
    <3>1. k \in 1..Len(r) /\ Len(q) + k = i
      BY <2>2, <1>2
    <3>2. a[i] = r[k]
      BY <3>1, <1>1
    <3> QED
      BY <3>1, <3>2 DEF Elems
  <2> QED
    BY <2>1, <2>2
<1>4. \A x : x \in Elems(q) => x \in Elems(a)
  BY <1>1 DEF Elems
<1>5. \A x : x \in Elems(r) => x \in Elems(a)
  BY <1>1 DEF Elems
<1> QED
  BY <1>3, <1>4, <1>5 DEF a

\* Taking the first task away leaves the others.
LEMMA TailElems ==
    ASSUME NEW S, NEW q \in Seq(S), q # <<>>
    PROVE  /\ Head(q) \in S /\ Tail(q) \in Seq(S)
           /\ Elems(q) = {Head(q)} \cup Elems(Tail(q))
<1>1. /\ Len(Tail(q)) = Len(q) - 1 /\ Len(q) \in Nat \ {0}
      /\ \A i \in 1..Len(Tail(q)) : Tail(q)[i] = q[i + 1]
      /\ Head(q) = q[1] /\ Head(q) \in S /\ Tail(q) \in Seq(S)
  BY HeadTailProperties, EmptySeq
<1>2. \A x : x \in Elems(q) => x \in {Head(q)} \cup Elems(Tail(q))
  <2> SUFFICES ASSUME NEW i \in 1..Len(q) PROVE q[i] \in {Head(q)} \cup Elems(Tail(q))
    BY DEF Elems
  <2>1. CASE i = 1
    BY <2>1, <1>1
  <2>2. CASE i # 1
    <3>1. i - 1 \in 1..Len(Tail(q)) /\ (i - 1) + 1 = i
      BY <2>2, <1>1
    <3> QED
      BY <3>1, <1>1 DEF Elems
  <2> QED
    BY <2>1, <2>2
<1>3. \A x : x \in {Head(q)} \cup Elems(Tail(q)) => x \in Elems(q)
  BY <1>1 DEF Elems
<1> QED
  BY <1>1, <1>2, <1>3

\* A job that is done leaves the others.
LEMMA RestOfJobs ==
    ASSUME NEW S, NEW q \in Seq(S), NEW i \in 1..Len(q)
    PROVE  SubSeq(q, 1, i - 1) \o SubSeq(q, i + 1, Len(q)) \in Seq(S) /\ q[i] \in S
<1>1. Len(q) \in Nat /\ i \in Nat /\ q[i] \in S
  BY ElementOfSeq
<1>2. SubSeq(q, 1, i - 1) \in Seq(S)
  <2>1. \A k \in 1..(i - 1) : q[k] \in S
    BY <1>1, ElementOfSeq
  <2> QED
    BY <2>1, <1>1, SubSeqProperties
<1>3. SubSeq(q, i + 1, Len(q)) \in Seq(S)
  BY <1>1, SubSeqProperties
<1> QED
  BY <1>1, <1>2, <1>3, ConcatProperties

\* A task that names a controller or an object names one that exists.
LEMMA TaskFields ==
    ASSUME Base, NEW e \in Known(ctls)
    PROVE  /\ e \in Task
           /\ e.op \in {"verify", "enter", "load", "offline"} => e.c \in Ctl /\ e.c <= ctls
           /\ e.op \in {"verify", "enter", "load"} => e.t \in Tokens
           /\ e.op = "timeout" => e.o \in Obj
<1>1. e \in Task
  BY DEF Known
<1>2. CASE e \in [op : {"verify", "enter", "load"}, c : Ctl, t : Tokens]
  BY <1>1, <1>2 DEF Known
<1>3. CASE e \in [op : {"offline"}, c : Ctl]
  BY <1>1, <1>3 DEF Known
<1>4. CASE e \in [op : {"timeout"}, o : Obj]
  BY <1>1, <1>4 DEF Known
<1>5. CASE e \in [op : {"heartbeat"}]
  BY <1>1, <1>5 DEF Known
<1> QED
  BY <1>1, <1>2, <1>3, <1>4, <1>5 DEF Task

\* The task handled next names a controller or an object that exists.
LEMMA HeadTask ==
    ASSUME Base, NEW op, Handle(op)
    PROVE  /\ Head(queue).op = op
           /\ op \in {"verify", "enter", "load", "offline"} =>
                 Head(queue).c \in Ctl /\ Head(queue).c <= ctls
           /\ op \in {"verify", "enter", "load"} => Head(queue).t \in Tokens
           /\ op = "timeout" => Head(queue).o \in Obj
           /\ Tail(queue) \in Seq(Known(ctls))
<1>1. Head(queue).op = op /\ queue # <<>> /\ queue \in Seq(Known(ctls))
  BY DEF Handle, Base, Born
<1>2. Head(queue) \in Known(ctls) /\ Tail(queue) \in Seq(Known(ctls))
  BY <1>1, TailElems
<1> QED
  BY <1>1, <1>2, TaskFields

\* The tasks that are made.
LEMMA NewTasks ==
    ASSUME NEW n \in Nat
    PROVE  /\ \A op \in {"verify", "enter", "load"}, c \in Ctl, t \in Tokens :
                 c <= n => [op |-> op, c |-> c, t |-> t] \in Known(n)
           /\ \A op \in {"verify", "load"}, c \in Ctl, t \in Tokens :
                 c <= n => [op |-> op, c |-> c, t |-> t] \in Work(n)
           /\ \A c \in Ctl : c <= n => [op |-> "offline", c |-> c] \in Known(n)
           /\ \A o \in Obj : [op |-> "timeout", o |-> o] \in Known(n)
           /\ [op |-> "heartbeat"] \in Known(n)
BY DEF Known, Work, Task

\* What is known stays known when controllers are created.
LEMMA StillKnown ==
    ASSUME Base, NEW n \in Nat, ctls <= n
    PROVE  queue \in Seq(Known(n)) /\ jobs \in Seq(Work(n))
<1>1. ctls \in Nat
  BY DEF Base, TypeOK
<1>2. Known(ctls) \subseteq Known(n)
  <2> SUFFICES ASSUME NEW e \in Known(ctls) PROVE e \in Known(n)
    OBVIOUS
  <2>1. e \in Task /\ (e.op \in {"verify", "enter", "load", "offline"} => e.c \in Ctl /\ e.c <= ctls)
    BY TaskFields
  <2>2. e.op \in {"verify", "enter", "load", "offline"} => e.c <= n
    BY <2>1, <1>1 DEF Ctl
  <2> QED
    BY <2>1, <2>2 DEF Known
<1>3. Work(ctls) \subseteq Work(n)
  BY <1>2 DEF Work
<1> QED
  BY <1>2, <1>3, SeqMonotonic DEF Base, Born

\* Sequences of known tasks are sequences of tasks.
LEMMA KnownAreTasks ==
    ASSUME NEW n
    PROVE  /\ \A q \in Seq(Known(n)) : q \in Seq(Task)
           /\ \A q \in Seq(Work(n)) : q \in Seq(Task) /\ q \in Seq(Known(n))
<1>1. Known(n) \subseteq Task /\ Work(n) \subseteq Task /\ Work(n) \subseteq Known(n)
  BY DEF Known, Work
<1> QED
  BY <1>1, SeqMonotonic

\* The task for an object taken out of the cache.
LEMMA RemovedTask ==
    ASSUME Base
    PROVE  /\ Removed \in Seq(Known(ctls))
           /\ \A q \in Seq(Known(ctls)) : q \o Removed \in Seq(Known(ctls))
<1>1. Removed \in Seq(Known(ctls))
  <2>1. CASE cached # 0 /\ expired
    <3>1. cached \in Obj /\ ctls \in Nat
      BY <2>1 DEF Base, TypeOK, Obj
    <3>2. [op |-> "timeout", o |-> cached] \in Known(ctls)
      BY <3>1, NewTasks
    <3> QED
      BY <2>1, <3>2 DEF Removed
  <2>2. CASE ~(cached # 0 /\ expired)
    BY <2>2 DEF Removed
  <2> QED
    BY <2>1, <2>2
<1> QED
  BY <1>1, ConcatProperties

-----------------------------------------------------------------------------
\* Types

\* Looking up the controller of a session, or creating it.
LEMMA ReachBase ==
    ASSUME Base, NEW s \in Sessions, NEW c \in Ctl, Reach(s, c)
    PROVE  /\ cache' \in [Sessions -> 0..MaxCtl]
           /\ \A x \in Sessions : cache'[x] <= ctls'
           /\ ctls' \in 0..MaxCtl /\ ctls <= ctls' /\ c <= ctls'
           /\ sess' \in [Ctl -> Sessions \cup {NoSession}]
           /\ cache[s] # 0 => c = cache[s] /\ cache' = cache /\ ctls' = ctls /\ sess' = sess
           /\ cache[s] = 0 => /\ c = ctls + 1 /\ ctls' = c
                              /\ cache' = [cache EXCEPT ![s] = c]
                              /\ sess' = [sess EXCEPT ![c] = s]
<1>1. MaxCtl \in Nat /\ ctls \in 0..MaxCtl /\ cache[s] \in 0..MaxCtl
  BY LoginAssumption DEF Base, TypeOK
<1>2. CASE cache[s] # 0
  <2>1. c = cache[s] /\ cache' = cache /\ ctls' = ctls /\ sess' = sess
    BY <1>2 DEF Reach, Base, TypeOK
  <2> QED
    BY <1>1, <1>2, <2>1 DEF Base, TypeOK, Born
<1>3. CASE cache[s] = 0
  <2>1. c = ctls + 1 /\ ctls' = c /\ cache' = [cache EXCEPT ![s] = c] /\ sess' = [sess EXCEPT ![c] = s]
    BY <1>3 DEF Reach
  <2>2. \A x \in Sessions : cache'[x] <= ctls'
    BY <1>1, <2>1 DEF Base, TypeOK, Born
  <2> QED
    BY <1>1, <1>3, <2>1, <2>2 DEF Base, TypeOK, Born, Ctl
<1> QED
  BY <1>2, <1>3

\* Steps that touch sessions and controllers only: what is created is new.
LEMMA GrowthBase ==
    ASSUME Base,
           session' \in [Sessions -> {"none", "open", "suspended", "dead", "closed"}],
           cache' \in [Sessions -> 0..MaxCtl],
           \A x \in Sessions : cache'[x] <= ctls',
           ctls' \in 0..MaxCtl, ctls <= ctls',
           sess' \in [Ctl -> Sessions \cup {NoSession}],
           queue' \in Seq(Known(ctls')), jobs' \in Seq(Work(ctls')),
           sent' \in 0..MaxSent, rare' \in 0..MaxRare, pi' \in BOOLEAN,
           UNCHANGED <<ctlVars, playerVars, cacheVars, flaw>>
    PROVE  Base'
<1>1. queue' \in Seq(Task) /\ jobs' \in Seq(Task)
  BY KnownAreTasks
<1>2. ctls \in Nat /\ ctls' \in Nat
  BY LoginAssumption DEF Base, TypeOK
<1>3. TypeOK'
  BY <1>1 DEF Base, TypeOK, ctlVars, playerVars, cacheVars
<1>4. pid' \subseteq 1..ctls'
  BY <1>2 DEF Base, Born, ctlVars
<1>5. \A o \in Obj : ctrl'[o] <= ctls'
  BY <1>2 DEF Base, TypeOK, Born, playerVars
<1>6. Born'
  BY <1>4, <1>5 DEF Base, Born, playerVars, cacheVars
<1> QED
  BY <1>3, <1>6 DEF Base

\* The player enters, or is turned away.
LEMMA EnterBase ==
    ASSUME Base, NEW c \in Ctl, c <= ctls, NEW t \in Tokens, NEW o \in Obj, NEW n \in 0..MaxObj,
           objs <= n, o <= n, EnterWith(c, t, o)
    PROVE  /\ online' \subseteq 1..n /\ mapped' \subseteq Tokens
           /\ ctrl' \in [Obj -> 0..MaxCtl]
           /\ \A x \in Obj : (x > n => ctrl'[x] = 0) /\ ctrl'[x] <= ctls
           /\ \A x \in online' : ctrl'[x] # 0
           /\ otok' \in [Obj -> Tokens \cup {NoToken}]
           /\ pid' \subseteq Ctl /\ pid' \subseteq 1..ctls
           /\ dying' \subseteq Ctl
           /\ flaw' \subseteq {"survived", "self", "revived", "expired", "replaced"}
           /\ UNCHANGED <<session, cache, ctls, sess>>
<1>1. /\ MaxCtl \in Nat /\ MaxObj \in Nat /\ ctls \in 0..MaxCtl /\ objs \in 0..MaxObj
      /\ ctrl \in [Obj -> 0..MaxCtl] /\ otok \in [Obj -> Tokens \cup {NoToken}]
      /\ mapped \subseteq Tokens /\ online \subseteq Obj /\ pid \subseteq Ctl /\ dying \subseteq Ctl
  BY LoginAssumption DEF Base, TypeOK
<1>2. online' \in {online \ {o}, online \cup {o}}
  BY DEF EnterWith
<1>3. online' \subseteq 1..n
  BY <1>1, <1>2 DEF Base, Born, Obj
<1>4. /\ mapped' \subseteq Tokens
      /\ pid' \subseteq Ctl /\ pid' \subseteq 1..ctls
  <2>1. pid' = pid \/ pid' = pid \cup {c}
    BY DEF EnterWith
  <2>2. c \in 1..ctls /\ pid \subseteq 1..ctls
    BY <1>1 DEF Base, Born, Ctl
  <2>3. mapped' \subseteq Tokens
    BY <1>1 DEF EnterWith
  <2> QED
    BY <1>1, <2>1, <2>2, <2>3
<1>5. dying' \subseteq Ctl
  <2>1. o \in online => ctrl[o] \in Ctl
    BY <1>1 DEF Base, Born, Ctl
  <2> QED
    BY <1>1, <2>1 DEF EnterWith, Destroy
<1>6. flaw' \subseteq {"survived", "self", "revived", "expired", "replaced"}
  BY DEF EnterWith, Base, TypeOK
<1>7. CASE UNCHANGED <<ctrl, otok, pid>> /\ online' = online \ {o}
  BY <1>1, <1>3, <1>4, <1>5, <1>6, <1>7 DEF EnterWith, Base, Born, Obj
<1>8. CASE ctrl' = [ctrl EXCEPT ![o] = c] /\ otok' = [otok EXCEPT ![o] = t] /\ online' = online \cup {o}
  <2>1. ctrl' \in [Obj -> 0..MaxCtl] /\ otok' \in [Obj -> Tokens \cup {NoToken}]
    BY <1>1, <1>8 DEF Ctl
  <2>2. \A x \in Obj : (x > n => ctrl'[x] = 0) /\ ctrl'[x] <= ctls
    BY <1>1, <1>8 DEF Base, Born, Obj, Ctl
  <2>3. \A x \in online' : ctrl'[x] # 0
    BY <1>1, <1>8 DEF Base, Born, Ctl
  <2> QED
    BY <1>3, <1>4, <1>5, <1>6, <2>1, <2>2, <2>3 DEF EnterWith
<1> QED
  BY <1>7, <1>8 DEF EnterWith

\* Putting an end to a controller.
LEMMA DestroyBase ==
    ASSUME Base, NEW c \in Ctl, DestroyController(c)
    PROVE  /\ dying' \subseteq Ctl
           /\ cache' \in [Sessions -> 0..MaxCtl]
           /\ \A x \in Sessions : cache'[x] <= ctls
<1>1. MaxCtl \in Nat /\ ctls \in Nat /\ dying \subseteq Ctl /\ cache \in [Sessions -> 0..MaxCtl]
  BY LoginAssumption DEF Base, TypeOK
<1>2. dying' \subseteq Ctl
  BY <1>1 DEF DestroyController, Destroy
<1> QED
  BY <1>1, <1>2 DEF DestroyController, Base, Born

\* The player goes offline.
LEMMA OfflineBase ==
    ASSUME Base, NEW o \in Obj, Offline(o)
    PROVE  /\ online' = online \ {o} /\ mapped' \subseteq mapped
           /\ ctrl' = [ctrl EXCEPT ![o] = 0] /\ otok' = otok
           /\ dying' \subseteq Ctl
           /\ cache' \in [Sessions -> 0..MaxCtl]
           /\ \A x \in Sessions : cache'[x] <= ctls
<1>1. ctrl[o] # 0 => ctrl[o] \in Ctl
  BY DEF Base, TypeOK, Ctl
<1>2. CASE ctrl[o] # 0 /\ DestroyController(ctrl[o])
  BY <1>1, <1>2, DestroyBase DEF Offline
<1>3. CASE UNCHANGED <<dying, cache>>
  BY <1>3 DEF Offline, Base, TypeOK, Born
<1> QED
  BY <1>2, <1>3 DEF Offline

\* A message on a session, and the end of the session.
LEMMA ConnectionBase ==
    ASSUME Base, NEW s \in Sessions,
           \/ Open(s) \/ PI(s) \/ Suspend(s) \/ Close(s)
           \/ \E t \in Tokens : VerifySign(s, t) \/ EnterGame(s, t)
    PROVE  Base'
<1> USE LoginAssumption
<1>0. /\ queue \in Seq(Known(ctls)) /\ jobs \in Seq(Work(ctls)) /\ ctls \in 0..MaxCtl
      /\ sent \in 0..MaxSent /\ rare \in 0..MaxRare /\ pi \in BOOLEAN
      /\ session \in [Sessions -> {"none", "open", "suspended", "dead", "closed"}]
      /\ pid \subseteq Ctl
  BY DEF Base, TypeOK, Born
<1>1. ASSUME NEW c \in Ctl, Reach(s, c), NEW w \in {"open", "closed"},
             session' = [session EXCEPT ![s] = w],
             queue' \in Seq(Known(ctls')), jobs' \in Seq(Work(ctls')),
             sent' \in 0..MaxSent, rare' \in 0..MaxRare, pi' \in BOOLEAN,
             UNCHANGED <<ctlVars, playerVars, cacheVars, flaw>>
      PROVE  Base'
  <2>1. session' \in [Sessions -> {"none", "open", "suspended", "dead", "closed"}]
    BY <1>0, <1>1
  <2> QED
    BY <1>1, <2>1, ReachBase, GrowthBase
<1>2. ASSUME NEW c \in Ctl, Reach(s, c)
      PROVE  ctls' \in Nat /\ c <= ctls' /\ queue \in Seq(Known(ctls')) /\ jobs \in Seq(Work(ctls'))
  BY <1>2, ReachBase, StillKnown
<1>3. CASE Open(s)
  <2>1. PICK c \in Ctl : Reach(s, c)
    BY <1>3 DEF Open
  <2> QED
    BY <1>0, <1>1, <1>2, <1>3, <2>1 DEF Open, bounds
<1>4. CASE PI(s)
  <2>1. PICK c \in Ctl : Arrive(s, c) /\ pi' = (pi \/ (c \in pid /\ InCache))
    BY <1>4 DEF PI
  <2>2. pi' \in BOOLEAN
    BY <2>1
  <2> QED
    BY <1>0, <1>1, <1>2, <1>4, <2>1, <2>2 DEF PI, bounds, Arrive
<1>5. CASE Close(s)
  <2>1. PICK c \in Ctl : Reach(s, c) /\ pi' = (pi \/ c \in pid)
    BY <1>5 DEF Close
  <2>2. pi' \in BOOLEAN
    BY <2>1
  <2> QED
    BY <1>0, <1>1, <1>2, <1>5, <2>1, <2>2 DEF Close, bounds
<1>6. CASE Suspend(s)
  <2>1. /\ session' \in [Sessions -> {"none", "open", "suspended", "dead", "closed"}]
        /\ rare' \in 0..MaxRare
    BY <1>0, <1>6 DEF Suspend, Rare
  <2>2. /\ cache' \in [Sessions -> 0..MaxCtl] /\ \A x \in Sessions : cache'[x] <= ctls'
        /\ sess' \in [Ctl -> Sessions \cup {NoSession}]
        /\ ctls' \in 0..MaxCtl /\ ctls <= ctls'
        /\ queue' \in Seq(Known(ctls')) /\ jobs' \in Seq(Work(ctls'))
    BY <1>0, <1>6 DEF Suspend, Base, TypeOK, Born
  <2> QED
    BY <1>0, <1>6, <2>1, <2>2, GrowthBase DEF Suspend, Rare
<1>7. ASSUME NEW t \in Tokens, VerifySign(s, t)
      PROVE  Base'
  <2>1. PICK c \in Ctl : Arrive(s, c) /\ jobs' = Append(jobs, [op |-> "verify", c |-> c, t |-> t])
    BY <1>7 DEF VerifySign
  <2>2. Reach(s, c) /\ session' = [session EXCEPT ![s] = "open"]
    BY <2>1 DEF Arrive
  <2>3. [op |-> "verify", c |-> c, t |-> t] \in Work(ctls')
    BY <1>2, <2>2, NewTasks
  <2>4. jobs' \in Seq(Work(ctls'))
    BY <1>2, <2>1, <2>2, <2>3
  <2>5. sent' \in 0..MaxSent /\ rare' \in 0..MaxRare
    BY <1>0, <1>7 DEF VerifySign, Sent
  <2> QED
    BY <1>0, <1>1, <1>2, <1>7, <2>2, <2>4, <2>5 DEF VerifySign
<1>8. ASSUME NEW t \in Tokens, EnterGame(s, t)
      PROVE  Base'
  <2>1. PICK c \in Ctl : Arrive(s, c) /\ queue' = Append(queue, [op |-> "enter", c |-> c, t |-> t])
    BY <1>8 DEF EnterGame
  <2>2. Reach(s, c) /\ session' = [session EXCEPT ![s] = "open"]
    BY <2>1 DEF Arrive
  <2>3. [op |-> "enter", c |-> c, t |-> t] \in Known(ctls')
    BY <1>2, <2>2, NewTasks
  <2>4. queue' \in Seq(Known(ctls'))
    BY <1>2, <2>1, <2>2, <2>3
  <2>5. sent' \in 0..MaxSent /\ rare' \in 0..MaxRare
    BY <1>0, <1>8 DEF EnterGame, Sent
  <2> QED
    BY <1>0, <1>1, <1>2, <1>8, <2>2, <2>4, <2>5 DEF EnterGame
<1> QED
  BY <1>3, <1>4, <1>5, <1>6, <1>7, <1>8

\* Tasks that are queued, handled without an effect or under way.
LEMMA QueueBase ==
    ASSUME Base, queue' \in Seq(Known(ctls)), jobs' \in Seq(Work(ctls)),
           tok' \in [Ctl -> Tokens \cup {NoToken}],
           sent' \in 0..MaxSent, rare' \in 0..MaxRare, pi' \in BOOLEAN, querying' \in BOOLEAN,
           objs' \in 0..MaxObj, objs <= objs', cached' \in 0..objs', expired' \in BOOLEAN,
           flaw' \subseteq {"survived", "self", "revived", "expired", "replaced"},
           UNCHANGED <<sessionVars, pid, dying, playerVars>>
    PROVE  Base'
<1>1. queue' \in Seq(Task) /\ jobs' \in Seq(Task)
  BY KnownAreTasks
<1>2. MaxObj \in Nat /\ objs \in 0..MaxObj
  BY LoginAssumption DEF Base, TypeOK
<1>3. cached' \in 0..MaxObj
  BY <1>2
<1>4. {expired', pi', querying'} \subseteq BOOLEAN
  OBVIOUS
<1>5. TypeOK'
  BY <1>1, <1>3, <1>4 DEF Base, TypeOK, sessionVars, playerVars
<1>6. online' \subseteq 1..objs' /\ (\A o \in Obj : o > objs' => ctrl'[o] = 0)
  BY <1>2 DEF Base, Born, playerVars, Obj
<1>7. Born'
  BY <1>6 DEF Base, Born, playerVars, sessionVars
<1> QED
  BY <1>5, <1>7 DEF Base

\* The player goes offline, or a controller is put to an end.
LEMMA LeaveBase ==
    ASSUME Base, queue' \in Seq(Known(ctls)), dying' \subseteq Ctl,
           cache' \in [Sessions -> 0..MaxCtl], \A x \in Sessions : cache'[x] <= ctls,
           \/ UNCHANGED playerVars
           \/ \E o \in Obj : /\ online' = online \ {o} /\ mapped' \subseteq mapped
                             /\ ctrl' = [ctrl EXCEPT ![o] = 0] /\ otok' = otok,
           UNCHANGED <<session, ctls, sess, pid, tok, jobs, cacheVars, pi, bounds, flaw>>
    PROVE  Base'
<1>1. queue' \in Seq(Task)
  BY KnownAreTasks
<1>2. MaxCtl \in Nat /\ ctls \in Nat
  BY LoginAssumption DEF Base, TypeOK
<1>3. /\ online' \subseteq online /\ mapped' \subseteq mapped /\ otok' = otok
      /\ ctrl' \in [Obj -> 0..MaxCtl]
      /\ \A x \in Obj : ctrl'[x] \in {0, ctrl[x]} /\ (x \in online' => ctrl'[x] = ctrl[x])
  <2>1. CASE UNCHANGED playerVars
    BY <2>1 DEF playerVars, Base, TypeOK
  <2>2. ASSUME NEW o \in Obj, online' = online \ {o}, mapped' \subseteq mapped,
               ctrl' = [ctrl EXCEPT ![o] = 0], otok' = otok
        PROVE  <1>3!:
    BY <1>2, <2>2 DEF Base, TypeOK
  <2> QED
    BY <2>1, <2>2
<1>4. TypeOK'
  BY <1>1, <1>3 DEF Base, TypeOK, cacheVars, bounds
<1>5. (\A x \in Obj : x > objs => ctrl'[x] = 0) /\ (\A x \in Obj : ctrl'[x] <= ctls)
  <2> SUFFICES ASSUME NEW x \in Obj PROVE (x > objs => ctrl'[x] = 0) /\ ctrl'[x] <= ctls
    OBVIOUS
  <2>1. ctrl'[x] = 0 \/ ctrl'[x] = ctrl[x]
    BY <1>3
  <2>2. (x > objs => ctrl[x] = 0) /\ ctrl[x] <= ctls
    BY DEF Base, Born
  <2> QED
    BY <1>2, <2>1, <2>2
<1>6. \A x \in online' : ctrl'[x] # 0
  BY <1>3 DEF Base, TypeOK, Born
<1>7. Born'
  BY <1>3, <1>5, <1>6 DEF Base, Born, cacheVars
<1> QED
  BY <1>4, <1>7 DEF Base

\* The player enters with the object in the cache or with a new one.
LEMMA ArriveBase ==
    ASSUME Base, NEW c \in Ctl, c <= ctls, NEW t \in Tokens, NEW o \in Obj, EnterWith(c, t, o),
           objs' \in 0..MaxObj, objs <= objs', o <= objs', cached' \in 0..objs', expired' \in BOOLEAN,
           queue' \in Seq(Known(ctls)), UNCHANGED <<tok, jobs, pi, bounds, querying>>
    PROVE  Base'
<1>1. queue' \in Seq(Task)
  BY KnownAreTasks
<1>2. /\ online' \subseteq 1..objs' /\ mapped' \subseteq Tokens
      /\ ctrl' \in [Obj -> 0..MaxCtl]
      /\ \A x \in Obj : (x > objs' => ctrl'[x] = 0) /\ ctrl'[x] <= ctls
      /\ \A x \in online' : ctrl'[x] # 0
      /\ otok' \in [Obj -> Tokens \cup {NoToken}]
      /\ pid' \subseteq Ctl /\ pid' \subseteq 1..ctls
      /\ dying' \subseteq Ctl
      /\ flaw' \subseteq {"survived", "self", "revived", "expired", "replaced"}
      /\ UNCHANGED <<session, cache, ctls, sess>>
  BY EnterBase
<1>3. 1..objs' \subseteq Obj /\ cached' \in 0..MaxObj
  BY LoginAssumption DEF Obj
<1>4. {expired', pi', querying'} \subseteq BOOLEAN
  BY DEF Base, TypeOK
<1>5. TypeOK'
  BY <1>1, <1>2, <1>3, <1>4 DEF Base, TypeOK, bounds
<1>6. Born'
  BY <1>2 DEF Base, Born
<1> QED
  BY <1>5, <1>6 DEF Base

\* A reconnection.
LEMMA ReconnectBase ==
    ASSUME Base, NEW c \in Ctl, cached \in Obj, Reconnection(c, cached),
           queue' \in Seq(Known(ctls)),
           UNCHANGED <<pid, dying, jobs, playerVars, tok, cacheVars, pi, bounds>>
    PROVE  Base'
<1>1. queue' \in Seq(Task)
  BY KnownAreTasks
<1> DEFINE old == ctrl[cached]
<1>2. MaxCtl \in Nat /\ ctls \in Nat /\ old \in 0..MaxCtl /\ old <= ctls
  BY LoginAssumption DEF Base, TypeOK, Born
<1>3. /\ session' \in [Sessions -> {"none", "open", "suspended", "dead", "closed"}]
      /\ cache' \in [Sessions -> 0..MaxCtl]
      /\ \A x \in Sessions : cache'[x] <= ctls
      /\ ctls' = ctls
      /\ sess' \in [Ctl -> Sessions \cup {NoSession}]
      /\ flaw' \subseteq {"survived", "self", "revived", "expired", "replaced"}
  <2>1. CASE UNCHANGED <<sessionVars, flaw>>
    BY <2>1 DEF Base, TypeOK, Born, sessionVars
  <2>2. CASE old # 0 /\ sess[old] # NoSession /\ ~UNCHANGED <<sessionVars, flaw>>
    <3>1. /\ ctls' = ctls
          /\ session' = IF session[sess[old]] = "open" THEN [session EXCEPT ![sess[old]] = "dead"] ELSE session
          /\ cache' = [x \in Sessions |->
                         IF x = sess[c] THEN old ELSE IF x = sess[old] THEN 0 ELSE cache[x]]
          /\ sess' = [sess EXCEPT ![old] = sess[c]]
          /\ flaw' = flaw \cup (IF sess[old] = sess[c] THEN {"self"} ELSE {})
                          \cup (IF Gone(c) THEN {"revived"} ELSE {})
      BY <2>2 DEF Reconnection
    <3>2. old \in Ctl /\ sess[old] \in Sessions
      BY <2>2, <1>2 DEF Base, TypeOK, Ctl
    <3>3. /\ cache' \in [Sessions -> 0..MaxCtl] /\ \A x \in Sessions : cache'[x] <= ctls
      BY <1>2, <3>1 DEF Base, TypeOK, Born
    <3>4. session' \in [Sessions -> {"none", "open", "suspended", "dead", "closed"}]
      BY <3>1, <3>2 DEF Base, TypeOK
    <3>5. sess' \in [Ctl -> Sessions \cup {NoSession}]
      BY <3>1, <3>2 DEF Base, TypeOK
    <3>6. flaw' \subseteq {"survived", "self", "revived", "expired", "replaced"}
      BY <3>1 DEF Base, TypeOK
    <3> QED
      BY <3>1, <3>3, <3>4, <3>5, <3>6
  <2> QED
    BY <2>1, <2>2 DEF Reconnection
<1>4. TypeOK'
  BY <1>1, <1>3 DEF Base, TypeOK, playerVars, cacheVars, bounds
<1>5. Born'
  BY <1>3 DEF Base, Born, playerVars, cacheVars
<1> QED
  BY <1>4, <1>5 DEF Base

\* The tasks of the game thread.
LEMMA GameThreadBase ==
    ASSUME Base, GameThread
    PROVE  Base'
<1> USE LoginAssumption
<1>0. /\ ctls \in 0..MaxCtl /\ objs \in 0..MaxObj /\ cached \in 0..objs /\ jobs \in Seq(Work(ctls))
      /\ sent \in 0..MaxSent /\ rare \in 0..MaxRare /\ tok \in [Ctl -> Tokens \cup {NoToken}]
      /\ pi \in BOOLEAN /\ querying \in BOOLEAN /\ expired \in BOOLEAN
      /\ flaw \subseteq {"survived", "self", "revived", "expired", "replaced"}
      /\ dying \subseteq Ctl /\ cache \in [Sessions -> 0..MaxCtl] /\ \A x \in Sessions : cache[x] <= ctls
  BY DEF Base, TypeOK, Born
<1>1. InCache => cached \in Obj /\ cached <= objs
  BY <1>0 DEF InCache, Obj
<1>2. CASE VerifySuc
  <2>1. Handle("verify") /\ queue' = Tail(queue) /\ tok' = [tok EXCEPT ![Head(queue).c] = Head(queue).t]
    BY <1>2 DEF VerifySuc
  <2>2. tok' \in [Ctl -> Tokens \cup {NoToken}] /\ queue' \in Seq(Known(ctls))
    BY <2>1, <1>0, HeadTask
  <2> QED
    BY <1>0, <1>2, <2>2, QueueBase DEF VerifySuc, cacheVars, bounds
<1>3. CASE HandleEnter
  <2> DEFINE c == Head(queue).c
             t == Head(queue).t
  <2>1. Handle("enter") /\ queue' = Tail(queue) /\ UNCHANGED <<tok, cacheVars, pi, bounds>>
    BY <1>3 DEF HandleEnter
  <2>2. c \in Ctl /\ c <= ctls /\ t \in Tokens /\ queue' \in Seq(Known(ctls))
    BY <2>1, HeadTask
  <2>3. CASE InCache /\ Reconnection(c, cached) /\ UNCHANGED <<pid, dying, jobs, playerVars>>
    BY <1>1, <2>1, <2>2, <2>3, ReconnectBase
  <2>4. CASE UNCHANGED <<sessionVars, pid, dying, jobs, playerVars, flaw>>
    BY <1>0, <2>1, <2>2, <2>3, <2>4, QueueBase DEF cacheVars, bounds
  <2>5. CASE InCache /\ EnterWith(c, t, cached) /\ UNCHANGED jobs
    <3>1. objs' = objs /\ cached' = cached /\ expired' = expired /\ querying' = querying
      BY <2>1 DEF cacheVars
    <3> QED
      BY <1>0, <1>1, <2>1, <2>2, <2>5, <3>1, ArriveBase
  <2>6. CASE /\ jobs' = Append(jobs, [op |-> "load", c |-> c, t |-> t])
             /\ UNCHANGED <<sessionVars, pid, dying, playerVars, flaw>>
    <3>1. [op |-> "load", c |-> c, t |-> t] \in Work(ctls)
      BY <1>0, <2>2, NewTasks
    <3>2. jobs' \in Seq(Work(ctls))
      BY <1>0, <2>6, <3>1
    <3> QED
      BY <1>0, <2>1, <2>2, <2>6, <3>2, QueueBase DEF cacheVars, bounds
  <2> QED
    BY <1>3, <2>3, <2>4, <2>5, <2>6 DEF HandleEnter
<1>4. CASE LoadSuc
  <2> DEFINE c == Head(queue).c
             t == Head(queue).t
  <2>1. Handle("load") /\ UNCHANGED <<tok, jobs, pi, bounds>>
    BY <1>4 DEF LoadSuc
  <2>2. c \in Ctl /\ c <= ctls /\ t \in Tokens /\ Tail(queue) \in Seq(Known(ctls))
    BY <2>1, HeadTask
  <2>3. CASE InCache /\ EnterWith(c, t, cached) /\ queue' = Tail(queue) /\ UNCHANGED cacheVars
    <3>1. objs' = objs /\ cached' = cached /\ expired' = expired /\ querying' = querying
      BY <2>3 DEF cacheVars
    <3> QED
      BY <1>0, <1>1, <2>1, <2>2, <2>3, <3>1, ArriveBase
  <2>4. CASE /\ objs < MaxObj /\ objs' = objs + 1 /\ cached' = objs + 1 /\ expired' = FALSE
             /\ queue' = Tail(queue) \o Removed /\ EnterWith(c, t, objs + 1) /\ UNCHANGED querying
    <3>1. queue' \in Seq(Known(ctls))
      BY <2>2, <2>4, RemovedTask
    <3>2. /\ objs' \in 0..MaxObj /\ objs <= objs' /\ objs + 1 <= objs' /\ cached' \in 0..objs'
          /\ objs + 1 \in Obj
      BY <1>0, <2>4 DEF Obj
    <3> QED
      BY <2>1, <2>2, <2>4, <3>1, <3>2, ArriveBase
  <2>5. CASE queue' = Tail(queue) /\ UNCHANGED <<sessionVars, pid, dying, playerVars, cacheVars, flaw>>
    BY <1>0, <2>1, <2>2, <2>5, QueueBase DEF cacheVars, bounds
  <2> QED
    BY <1>4, <2>3, <2>4, <2>5 DEF LoadSuc
<1>5. ASSUME queue' = Tail(queue), Tail(queue) \in Seq(Known(ctls)),
             UNCHANGED <<session, ctls, sess, pid, tok, jobs, cacheVars, pi, bounds, flaw>>,
             \/ \E o \in Obj : Offline(o)
             \/ \E c \in Ctl : DestroyController(c) /\ UNCHANGED playerVars
             \/ UNCHANGED <<playerVars, dying, cache>>
      PROVE  Base'
  <2>1. ASSUME NEW o \in Obj, Offline(o)
        PROVE  Base'
    BY <1>5, <2>1, OfflineBase, LeaveBase
  <2>2. ASSUME NEW c \in Ctl, DestroyController(c), UNCHANGED playerVars
        PROVE  Base'
    BY <1>5, <2>2, DestroyBase, LeaveBase
  <2>3. CASE UNCHANGED <<playerVars, dying, cache>>
    BY <1>0, <1>5, <2>3, LeaveBase
  <2> QED
    BY <1>5, <2>1, <2>2, <2>3
<1>6. CASE HandleOffline
  <2>1. Head(queue).c \in Ctl /\ Tail(queue) \in Seq(Known(ctls))
    BY <1>6, HeadTask DEF HandleOffline
  <2> QED
    BY <1>1, <1>5, <1>6, <2>1 DEF HandleOffline
<1>7. CASE HandleHeartbeat
  <2>1. Tail(queue) \in Seq(Known(ctls))
    BY <1>7, HeadTask DEF HandleHeartbeat
  <2> QED
    BY <1>1, <1>5, <1>7, <2>1 DEF HandleHeartbeat
<1>8. CASE HandleTimeout
  <2>1. Head(queue).o \in Obj /\ Tail(queue) \in Seq(Known(ctls))
    BY <1>8, HeadTask DEF HandleTimeout
  <2> QED
    BY <1>5, <1>8, <2>1 DEF HandleTimeout
<1> QED
  BY <1>2, <1>3, <1>4, <1>6, <1>7, <1>8 DEF GameThread

\* The steps of the other threads.
LEMMA OthersBase ==
    ASSUME Base,
           \/ \E o \in Obj : Kick(o)
           \/ \E i \in 1..Len(jobs) : JobDone(i)
           \/ HeartbeatExpires \/ Expire \/ CleanUp \/ QueryMisses \/ QueryLoaded
    PROVE  Base'
<1> USE LoginAssumption
<1>0. /\ ctls \in 0..MaxCtl /\ objs \in 0..MaxObj /\ cached \in 0..objs /\ jobs \in Seq(Work(ctls))
      /\ queue \in Seq(Known(ctls))
      /\ sent \in 0..MaxSent /\ rare \in 0..MaxRare /\ tok \in [Ctl -> Tokens \cup {NoToken}]
      /\ pi \in BOOLEAN /\ querying \in BOOLEAN /\ expired \in BOOLEAN
      /\ flaw \subseteq {"survived", "self", "revived", "expired", "replaced"}
  BY DEF Base, TypeOK, Born
<1>1. ASSUME NEW o \in Obj, Kick(o)
      PROVE  Base'
  <2>1. ctrl[o] \in Ctl /\ ctrl[o] <= ctls
    BY <1>1 DEF Kick, Base, TypeOK, Born, Ctl
  <2>2. [op |-> "offline", c |-> ctrl[o]] \in Known(ctls)
    BY <1>0, <2>1, NewTasks
  <2>3. queue' \in Seq(Known(ctls))
    BY <1>0, <1>1, <2>2 DEF Kick
  <2>4. sent' \in 0..MaxSent /\ rare' \in 0..MaxRare
    BY <1>0, <1>1 DEF Kick, Rare
  <2> QED
    BY <1>0, <1>1, <2>3, <2>4, QueueBase DEF Kick, cacheVars, ctlVars
<1>2. ASSUME NEW i \in 1..Len(jobs), JobDone(i)
      PROVE  Base'
  <2>1. jobs' \in Seq(Work(ctls)) /\ jobs[i] \in Work(ctls)
    BY <1>0, <1>2, RestOfJobs DEF JobDone
  <2>2. queue' \in Seq(Known(ctls))
    BY <1>0, <1>2, <2>1 DEF JobDone, Work
  <2> QED
    BY <1>0, <1>2, <2>1, <2>2, QueueBase DEF JobDone, cacheVars, ctlVars, bounds
<1>3. CASE HeartbeatExpires
  <2>1. queue' \in Seq(Known(ctls))
    BY <1>0, <1>3, NewTasks DEF HeartbeatExpires
  <2>2. pi' \in BOOLEAN
    BY <1>3 DEF HeartbeatExpires
  <2> QED
    BY <1>0, <1>3, <2>1, <2>2, QueueBase DEF HeartbeatExpires, cacheVars, ctlVars, bounds
<1>4. CASE Expire
  <2>1. flaw' \subseteq {"survived", "self", "revived", "expired", "replaced"}
    BY <1>0, <1>4 DEF Expire
  <2> QED
    BY <1>0, <1>4, <2>1, QueueBase DEF Expire, ctlVars, bounds
<1>5. CASE CleanUp
  <2>1. queue' \in Seq(Known(ctls))
    BY <1>0, <1>5, RemovedTask DEF CleanUp
  <2>2. expired' \in BOOLEAN
    BY <1>5 DEF CleanUp
  <2>3. cached' \in 0..objs'
    BY <1>0, <1>5 DEF CleanUp
  <2> QED
    BY <1>0, <1>5, <2>1, <2>2, <2>3, QueueBase DEF CleanUp, ctlVars, bounds
<1>6. CASE QueryMisses
  <2>1. sent' \in 0..MaxSent /\ rare' \in 0..MaxRare
    BY <1>0, <1>6 DEF QueryMisses, Rare
  <2> QED
    BY <1>0, <1>6, <2>1, QueueBase DEF QueryMisses, ctlVars
<1>7. CASE QueryLoaded
  <2>1. queue' \in Seq(Known(ctls))
    BY <1>0, <1>7, RemovedTask DEF QueryLoaded
  <2>2. /\ flaw' \subseteq {"survived", "self", "revived", "expired", "replaced"}
        /\ objs' \in 0..MaxObj /\ objs <= objs' /\ cached' \in 0..objs'
    <3>1. flaw' \subseteq flaw \cup {"replaced"}
      BY <1>7 DEF QueryLoaded
    <3>2. CASE objs < MaxObj /\ objs' = objs + 1 /\ cached' = objs + 1
      BY <1>0, <3>1, <3>2
    <3>3. CASE UNCHANGED <<objs, cached, expired, queue, flaw>>
      BY <1>0, <3>3
    <3> QED
      BY <1>7, <3>2, <3>3 DEF QueryLoaded
  <2>3. querying' \in BOOLEAN
    BY <1>7 DEF QueryLoaded
  <2>4. expired' \in BOOLEAN
    <3>1. CASE expired' = FALSE
      BY <3>1
    <3>2. CASE UNCHANGED <<objs, cached, expired, queue, flaw>>
      BY <1>0, <3>2
    <3> QED
      BY <1>7, <3>1, <3>2 DEF QueryLoaded
  <2> QED
    BY <1>0, <1>7, <2>1, <2>2, <2>3, <2>4, QueueBase DEF QueryLoaded, ctlVars, bounds
<1> QED
  BY <1>1, <1>2, <1>3, <1>4, <1>5, <1>6, <1>7

\* The destruction of a controller.
LEMMA DestroyedBase ==
    ASSUME Base, NEW c \in Ctl, Destroyed(c)
    PROVE  Base'
<1>1. /\ sess' \in [Ctl -> Sessions \cup {NoSession}] /\ tok' \in [Ctl -> Tokens \cup {NoToken}]
      /\ pid' \subseteq pid /\ dying' \subseteq dying
  BY DEF Destroyed, Base, TypeOK
<1>2. UNCHANGED <<session, cache, ctls, queue, jobs, playerVars, cacheVars, pi, bounds, flaw>>
  BY DEF Destroyed
<1>3. TypeOK'
  BY <1>1, <1>2 DEF Base, TypeOK, playerVars, cacheVars, bounds
<1>4. Born'
  BY <1>1, <1>2 DEF Base, Born, playerVars, cacheVars
<1> QED
  BY <1>3, <1>4 DEF Base

LEMMA InitBase == Init => Base
<1> SUFFICES ASSUME Init PROVE Base
  OBVIOUS
<1>1. queue = <<>> /\ jobs = <<>>
  BY DEF Init
<1>2. {expired, pi, querying} \subseteq BOOLEAN
  BY DEF Init
<1>3. TypeOK
  BY <1>1, <1>2, LoginAssumption DEF Init, TypeOK
<1>4. Born
  BY <1>1, LoginAssumption DEF Init, Born
<1> QED
  BY <1>3, <1>4 DEF Base

LEMMA NextBase == Base /\ [Next]_vars => Base'
<1> SUFFICES ASSUME Base, [Next]_vars PROVE Base'
  OBVIOUS
<1>1. CASE UNCHANGED vars
  <2>1. TypeOK'
    BY <1>1 DEF Base, TypeOK, vars, sessionVars, ctlVars, playerVars, cacheVars, bounds
  <2>2. Born'
    BY <1>1 DEF Base, Born, vars, sessionVars, ctlVars, playerVars, cacheVars
  <2> QED
    BY <2>1, <2>2 DEF Base
<1>2. CASE Next
  BY <1>2, ConnectionBase, DestroyedBase, GameThreadBase, OthersBase DEF Next
<1> QED
  BY <1>1, <1>2

LEMMA BaseAlways == Spec => []Base
<1>1. Init => Base
  BY InitBase
<1>2. Base /\ [Next]_vars => Base'
  BY NextBase
<1> QED
  BY <1>1, <1>2, PTL DEF Spec

\* The variables of PlayerBOImpl, the caches and the controllers keep their
\* types; a controller or object a task names exists when the task is handled.
THEOREM TypeCorrect == Spec => []TypeOK
<1>1. Base => TypeOK
  BY DEF Base
<1> QED
  BY <1>1, BaseAlways, PTL

-----------------------------------------------------------------------------
\* The effects of steps

\* Controllers a waiting task takes offline, and objects one will check.
LogsOut == {c \in Ctl : [op |-> "offline", c |-> c] \in Elems(queue)}
Checked == {o \in Obj : [op |-> "timeout", o |-> o] \in Elems(queue)}

\* No controller is to be taken offline that was not, and no check is dropped.
Queued == LogsOut' \subseteq LogsOut /\ Checked \subseteq Checked'

objVars == <<objs, cached, expired>>

Hears(s, c) ==
    /\ Reach(s, c)
    /\ \/ session[s] \notin {"dead", "closed"} /\ session' = [session EXCEPT ![s] = "open"]
       \/ session' = [session EXCEPT ![s] = "closed"]
    /\ Queued
    /\ UNCHANGED <<pid, dying, playerVars, objVars, flaw>>

Suspends(s) ==
    /\ session[s] # "closed"
    /\ session' = [session EXCEPT ![s] = "suspended"]
    /\ Queued
    /\ UNCHANGED <<cache, ctls, sess, pid, dying, playerVars, objVars, flaw>>

Ends(c) ==
    /\ c \in dying
    /\ dying' = dying \ {c}
    /\ sess' = [sess EXCEPT ![c] = NoSession]
    /\ pid' = pid \ {c}
    /\ Queued
    /\ UNCHANGED <<session, cache, ctls, playerVars, objVars, flaw>>

\* Only tasks and jobs; the operator's task is for a player that is online.
Waits ==
    /\ LogsOut' \subseteq LogsOut \cup {ctrl[o] : o \in online}
    /\ Checked \cap online \subseteq Checked'
    /\ UNCHANGED <<sessionVars, pid, dying, playerVars, objVars, flaw>>

Reconnects(c) ==
    /\ mapped # {} /\ InCache
    /\ Reconnection(c, cached)
    /\ Queued
    /\ UNCHANGED <<pid, dying, playerVars, objVars>>

Enters(c, t) ==
    /\ InCache
    /\ EnterWith(c, t, cached)
    /\ Queued
    /\ UNCHANGED objVars

\* A new object takes the place of the one in the cache, which is checked.
Replaced ==
    /\ objs < MaxObj
    /\ objs' = objs + 1
    /\ cached' = objs + 1
    /\ expired' = FALSE
    /\ cached # 0 /\ expired => cached \in Checked'
    /\ Queued

EntersNew(c, t) == ~InCache /\ Replaced /\ EnterWith(c, t, objs + 1)

Leaves(o) ==
    /\ o \in online \/ o = cached
    /\ Offline(o)
    /\ LogsOut' \subseteq LogsOut
    /\ Checked \subseteq Checked' \cup {o}
    /\ UNCHANGED <<session, ctls, sess, pid, objVars, flaw>>

Dismisses(c) ==
    /\ c \in LogsOut
    /\ ~(c \in pid /\ InCache)
    /\ DestroyController(c)
    /\ Queued
    /\ UNCHANGED <<session, ctls, sess, pid, playerVars, objVars, flaw>>

Expires ==
    /\ expired' = TRUE
    /\ flaw' = flaw \cup (IF cached \in online THEN {"expired"} ELSE {})
    /\ Queued
    /\ UNCHANGED <<sessionVars, pid, dying, playerVars, objs, cached>>

Cleans ==
    /\ expired
    /\ cached' = 0
    /\ expired' = FALSE
    /\ cached # 0 => cached \in Checked'
    /\ Queued
    /\ UNCHANGED <<sessionVars, pid, dying, playerVars, objs, flaw>>

Loads ==
    /\ Replaced
    /\ flaw' = flaw \cup (IF InCache /\ cached \in online THEN {"replaced"} ELSE {})
    /\ UNCHANGED <<sessionVars, pid, dying, playerVars>>

Effect ==
    \/ \E s \in Sessions : Suspends(s) \/ \E c \in Ctl : Hears(s, c)
    \/ \E c \in Ctl : Ends(c) \/ Reconnects(c) \/ Dismisses(c)
    \/ \E c \in Ctl, t \in Tokens : c <= ctls /\ (Enters(c, t) \/ EntersNew(c, t))
    \/ \E o \in Obj : Leaves(o)
    \/ Waits \/ Expires \/ Cleans \/ Loads

\* Tasks that are the same mean the same waiting.
LEMMA QueueSame ==
    ASSUME queue' = queue
    PROVE  LogsOut' = LogsOut /\ Checked' = Checked
BY DEF LogsOut, Checked, Elems

\* A task for a controller or an object that joins the queue.
LEMMA QueueAppend ==
    ASSUME NEW S, queue \in Seq(S), NEW e \in S, queue' = Append(queue, e)
    PROVE  /\ e.op # "offline" => LogsOut' = LogsOut
           /\ LogsOut' \subseteq LogsOut \cup {c \in Ctl : e = [op |-> "offline", c |-> c]}
           /\ Checked \subseteq Checked'
<1>1. Elems(queue') = Elems(queue) \cup {e}
  BY AppendElems
<1>2. \A c \in Ctl : c \in LogsOut' <=> c \in LogsOut \/ e = [op |-> "offline", c |-> c]
  BY <1>1 DEF LogsOut
<1>3. \A c : c \in LogsOut \/ c \in LogsOut' => c \in Ctl
  BY DEF LogsOut
<1>4. Checked \subseteq Checked'
  BY <1>1 DEF Checked
<1>5. \A c \in Ctl : e = [op |-> "offline", c |-> c] => e.op = "offline"
  OBVIOUS
<1> QED
  BY <1>2, <1>3, <1>4, <1>5

\* A task that is handled leaves the queue.
LEMMA QueueTail ==
    ASSUME Base, NEW op, Handle(op), queue' = Tail(queue)
    PROVE  /\ LogsOut' \subseteq LogsOut
           /\ op # "timeout" => Queued
           /\ op = "timeout" => Checked \subseteq Checked' \cup {Head(queue).o}
           /\ op = "offline" => Head(queue).c \in LogsOut
<1>1. queue # <<>> /\ Head(queue).op = op /\ queue \in Seq(Known(ctls))
  BY DEF Handle, Base, Born
<1>2. Elems(queue) = {Head(queue)} \cup Elems(queue') /\ Head(queue) \in Known(ctls)
  BY <1>1, TailElems
<1>3. LogsOut' \subseteq LogsOut
  BY <1>2 DEF LogsOut
<1>4. \A o \in Checked : o \in Checked' \/ (op = "timeout" /\ o = Head(queue).o)
  <2> SUFFICES ASSUME NEW o \in Checked, o \notin Checked'
               PROVE  op = "timeout" /\ o = Head(queue).o
    OBVIOUS
  <2>1. [op |-> "timeout", o |-> o] = Head(queue)
    BY <1>2 DEF Checked
  <2> QED
    BY <1>1, <2>1
<1>5. op = "offline" => Head(queue).c \in LogsOut
  <2> SUFFICES ASSUME op = "offline" PROVE Head(queue).c \in LogsOut
    OBVIOUS
  <2>1. Head(queue) \in Task /\ Head(queue).op = "offline" /\ Head(queue).c \in Ctl
    BY <1>1, <1>2, TaskFields
  <2>2. Head(queue) = [op |-> "offline", c |-> Head(queue).c]
    BY <2>1 DEF Task
  <2> QED
    BY <1>2, <2>1, <2>2 DEF LogsOut
<1> QED
  BY <1>3, <1>4, <1>5 DEF Queued

\* The object that is taken out of the cache will be checked.
LEMMA QueueRemoved ==
    ASSUME Base, queue' = queue \o Removed \/ (Handle("load") /\ queue' = Tail(queue) \o Removed)
    PROVE  /\ Queued
           /\ cached # 0 /\ expired => cached \in Checked'
<1>1. PICK q \in Seq(Known(ctls)) :
         /\ queue' = q \o Removed
         /\ \A x \in Elems(q) : x \in Elems(queue)
         /\ \A x \in Elems(queue) : x.op # "load" => x \in Elems(q)
  <2>1. CASE queue' = queue \o Removed
    BY <2>1 DEF Base, Born
  <2>2. CASE Handle("load") /\ queue' = Tail(queue) \o Removed
    <3>1. queue # <<>> /\ Head(queue).op = "load" /\ queue \in Seq(Known(ctls))
      BY <2>2 DEF Handle, Base, Born
    <3>2. Tail(queue) \in Seq(Known(ctls)) /\ Elems(queue) = {Head(queue)} \cup Elems(Tail(queue))
      BY <3>1, TailElems
    <3> QED
      BY <2>2, <3>1, <3>2
  <2> QED
    BY <2>1, <2>2
<1>2. Elems(queue') = Elems(q) \cup Elems(Removed)
  BY <1>1, RemovedTask, ConcatElems
<1>3. \A x \in Elems(Removed) : x = [op |-> "timeout", o |-> cached]
  BY DEF Elems, Removed
<1>4. cached # 0 /\ expired => [op |-> "timeout", o |-> cached] \in Elems(Removed)
  BY DEF Elems, Removed
<1>5. LogsOut' \subseteq LogsOut
  <2> SUFFICES ASSUME NEW c \in LogsOut' PROVE c \in LogsOut
    OBVIOUS
  <2>1. c \in Ctl /\ [op |-> "offline", c |-> c] \in Elems(queue')
    BY DEF LogsOut
  <2>2. [op |-> "offline", c |-> c].op # [op |-> "timeout", o |-> cached].op
    OBVIOUS
  <2>3. [op |-> "offline", c |-> c] \in Elems(q)
    BY <1>2, <1>3, <2>1, <2>2
  <2> QED
    BY <1>1, <2>1, <2>3 DEF LogsOut
<1>6. Checked \subseteq Checked'
  <2> SUFFICES ASSUME NEW o \in Checked PROVE o \in Checked'
    OBVIOUS
  <2>1. o \in Obj /\ [op |-> "timeout", o |-> o] \in Elems(queue) /\ [op |-> "timeout", o |-> o].op # "load"
    BY DEF Checked
  <2> QED
    BY <1>1, <1>2, <2>1 DEF Checked
<1>7. cached # 0 => cached \in Obj
  BY DEF Base, TypeOK, Obj
<1> QED
  BY <1>2, <1>4, <1>5, <1>6, <1>7 DEF Queued, Checked

\* What messages and the loss of connections do.
LEMMA ConnectionEffect ==
    ASSUME Base, NEW s \in Sessions,
           \/ Open(s) \/ PI(s) \/ Suspend(s) \/ Close(s)
           \/ \E t \in Tokens : VerifySign(s, t) \/ EnterGame(s, t)
    PROVE  Suspends(s) \/ \E c \in Ctl : Hears(s, c)
<1> USE DEF ctlVars, cacheVars, objVars
<1>0. queue' = queue => Queued
  BY QueueSame DEF Queued
<1>1. CASE Open(s)
  BY <1>0, <1>1 DEF Open, Hears
<1>2. CASE PI(s)
  BY <1>0, <1>2 DEF PI, Arrive, Hears
<1>3. CASE Close(s)
  BY <1>0, <1>3 DEF Close, Hears
<1>4. CASE Suspend(s)
  BY <1>0, <1>4 DEF Suspend, Suspends
<1>5. ASSUME NEW t \in Tokens, VerifySign(s, t)
      PROVE  \E c \in Ctl : Hears(s, c)
  BY <1>0, <1>5 DEF VerifySign, Arrive, Hears
<1>6. ASSUME NEW t \in Tokens, EnterGame(s, t)
      PROVE  \E c \in Ctl : Hears(s, c)
  <2>1. PICK c \in Ctl : Arrive(s, c) /\ queue' = Append(queue, [op |-> "enter", c |-> c, t |-> t])
    BY <1>6 DEF EnterGame
  <2>2. [op |-> "enter", c |-> c, t |-> t] \in Task /\ [op |-> "enter", c |-> c, t |-> t].op # "offline"
    BY DEF Task
  <2>3. queue \in Seq(Task)
    BY DEF Base, TypeOK
  <2>4. Queued
    BY <2>1, <2>2, <2>3, QueueAppend DEF Queued
  <2> QED
    BY <1>6, <2>1, <2>4 DEF EnterGame, Arrive, Hears
<1> QED
  BY <1>1, <1>2, <1>3, <1>4, <1>5, <1>6

\* What the tasks of the game thread do.
LEMMA GameThreadEffect ==
    ASSUME Base, GameThread
    PROVE  Effect
<1> USE DEF objVars, cacheVars
<1>0. ASSUME Queued, UNCHANGED <<sessionVars, pid, dying, playerVars, objVars, flaw>>
      PROVE  Effect
  BY <1>0 DEF Queued, Waits, Effect
<1>1. CASE VerifySuc
  <2>1. Queued
    BY <1>1, QueueTail DEF VerifySuc
  <2> QED
    BY <1>0, <1>1, <2>1 DEF VerifySuc
<1>2. CASE HandleEnter
  <2> DEFINE c == Head(queue).c
             t == Head(queue).t
  <2>1. Handle("enter") /\ queue' = Tail(queue) /\ UNCHANGED objVars
    BY <1>2 DEF HandleEnter
  <2>2. Queued /\ c \in Ctl /\ c <= ctls /\ t \in Tokens
    BY <2>1, HeadTask, QueueTail
  <2>3. CASE t \in mapped /\ InCache /\ Reconnection(c, cached) /\ UNCHANGED <<pid, dying, jobs, playerVars>>
    <3>1. Reconnects(c)
      BY <2>1, <2>2, <2>3 DEF Reconnects
    <3> QED
      BY <2>2, <3>1 DEF Effect
  <2>4. CASE UNCHANGED <<sessionVars, pid, dying, playerVars, flaw>>
    BY <1>0, <2>1, <2>2, <2>4
  <2>5. CASE InCache /\ EnterWith(c, t, cached)
    <3>1. Enters(c, t)
      BY <2>1, <2>2, <2>5 DEF Enters
    <3> QED
      BY <2>2, <3>1 DEF Effect
  <2> QED
    BY <1>2, <2>3, <2>4, <2>5 DEF HandleEnter
<1>3. CASE LoadSuc
  <2> DEFINE c == Head(queue).c
             t == Head(queue).t
  <2>1. Handle("load")
    BY <1>3 DEF LoadSuc
  <2>2. c \in Ctl /\ c <= ctls /\ t \in Tokens
    BY <2>1, HeadTask
  <2>3. CASE InCache /\ EnterWith(c, t, cached) /\ queue' = Tail(queue) /\ UNCHANGED cacheVars
    <3>1. Enters(c, t)
      BY <2>1, <2>3, QueueTail DEF Enters
    <3> QED
      BY <2>2, <3>1 DEF Effect
  <2>4. CASE /\ ~InCache /\ objs < MaxObj /\ objs' = objs + 1 /\ cached' = objs + 1 /\ expired' = FALSE
             /\ queue' = Tail(queue) \o Removed /\ EnterWith(c, t, objs + 1)
    <3>1. EntersNew(c, t)
      BY <2>1, <2>4, QueueRemoved DEF EntersNew, Replaced
    <3> QED
      BY <2>2, <3>1 DEF Effect
  <2>5. CASE queue' = Tail(queue) /\ UNCHANGED <<sessionVars, pid, dying, playerVars, cacheVars, flaw>>
    BY <1>0, <2>1, <2>5, QueueTail
  <2> QED
    BY <1>3, <2>3, <2>4, <2>5 DEF LoadSuc
<1>4. InCache => cached \in Obj
  BY DEF InCache, Base, TypeOK, Obj
<1>5. CASE HandleOffline
  <2> DEFINE c == Head(queue).c
  <2>1. Handle("offline") /\ queue' = Tail(queue) /\ UNCHANGED <<session, ctls, sess, pid, objVars, flaw>>
    BY <1>5 DEF HandleOffline
  <2>2. Queued /\ c \in LogsOut /\ c \in Ctl
    BY <2>1, QueueTail, HeadTask
  <2>3. CASE InCache /\ Offline(cached)
    <3>1. Leaves(cached)
      BY <2>1, <2>2, <2>3 DEF Leaves, Queued
    <3> QED
      BY <1>4, <2>3, <3>1 DEF Effect
  <2>4. CASE ~(c \in pid /\ InCache) /\ DestroyController(c) /\ UNCHANGED playerVars
    <3>1. Dismisses(c)
      BY <2>1, <2>2, <2>4 DEF Dismisses
    <3> QED
      BY <2>2, <3>1 DEF Effect
  <2> QED
    BY <1>5, <2>3, <2>4 DEF HandleOffline
<1>6. CASE HandleHeartbeat
  <2>1. Handle("heartbeat") /\ queue' = Tail(queue) /\ UNCHANGED <<session, ctls, sess, pid, objVars, flaw>>
    BY <1>6 DEF HandleHeartbeat
  <2>2. Queued
    BY <2>1, QueueTail
  <2>3. CASE InCache /\ Offline(cached)
    <3>1. Leaves(cached)
      BY <2>1, <2>2, <2>3 DEF Leaves, Queued
    <3> QED
      BY <1>4, <2>3, <3>1 DEF Effect
  <2>4. CASE UNCHANGED <<playerVars, dying, cache>>
    BY <1>0, <2>1, <2>2, <2>4 DEF sessionVars
  <2> QED
    BY <1>6, <2>3, <2>4 DEF HandleHeartbeat
<1>7. CASE HandleTimeout
  <2> DEFINE o == Head(queue).o
  <2>1. Handle("timeout") /\ queue' = Tail(queue) /\ UNCHANGED <<session, ctls, sess, pid, objVars, flaw>>
    BY <1>7 DEF HandleTimeout
  <2>2. LogsOut' \subseteq LogsOut /\ Checked \subseteq Checked' \cup {o} /\ o \in Obj
    BY <2>1, QueueTail, HeadTask
  <2>3. CASE o \in online /\ Offline(o)
    <3>1. Leaves(o)
      BY <2>1, <2>2, <2>3 DEF Leaves
    <3> QED
      BY <2>2, <3>1 DEF Effect
  <2>4. CASE o \notin online /\ UNCHANGED <<playerVars, dying, cache>>
    <3>1. Waits
      BY <2>1, <2>2, <2>4 DEF Waits, sessionVars
    <3> QED
      BY <3>1 DEF Effect
  <2> QED
    BY <1>7, <2>3, <2>4 DEF HandleTimeout
<1> QED
  BY <1>1, <1>2, <1>3, <1>5, <1>6, <1>7 DEF GameThread

\* What the other threads and time do.
LEMMA OthersEffect ==
    ASSUME Base,
           \/ \E c \in Ctl : Destroyed(c)
           \/ \E o \in Obj : Kick(o)
           \/ \E i \in 1..Len(jobs) : JobDone(i)
           \/ HeartbeatExpires \/ Expire \/ CleanUp \/ QueryMisses \/ QueryLoaded
    PROVE  Effect
<1> USE DEF objVars, cacheVars, ctlVars
<1>0. queue' = queue => Queued
  BY QueueSame DEF Queued
<1>1. queue \in Seq(Known(ctls)) /\ ctls \in Nat
  BY DEF Base, TypeOK, Born
<1>2. ASSUME Queued, UNCHANGED <<sessionVars, pid, dying, playerVars, objVars, flaw>>
      PROVE  Effect
  BY <1>2 DEF Queued, Waits, Effect
<1>3. ASSUME NEW c \in Ctl, Destroyed(c)
      PROVE  Effect
  <2>1. Ends(c)
    BY <1>0, <1>3 DEF Destroyed, Ends
  <2> QED
    BY <2>1 DEF Effect
<1>4. ASSUME NEW o \in Obj, Kick(o)
      PROVE  Effect
  <2> DEFINE e == [op |-> "offline", c |-> ctrl[o]]
  <2>1. o \in online /\ queue' = Append(queue, e)
    BY <1>4 DEF Kick
  <2>2. ctrl[o] \in Ctl /\ ctrl[o] <= ctls
    BY <2>1 DEF Base, TypeOK, Born, Ctl
  <2>3. e \in Known(ctls)
    BY <1>1, <2>2, NewTasks
  <2>4. /\ LogsOut' \subseteq LogsOut \cup {c \in Ctl : e = [op |-> "offline", c |-> c]}
        /\ Checked \subseteq Checked'
    <3> HIDE DEF e
    <3> QED
      BY <1>1, <2>1, <2>3, QueueAppend
  <2>5. \A c \in Ctl : e = [op |-> "offline", c |-> c] => c = ctrl[o]
    OBVIOUS
  <2>6. Waits
    <3> HIDE DEF e
    <3> QED
      BY <1>4, <2>1, <2>4, <2>5 DEF Kick, Waits
  <2> QED
    BY <2>6 DEF Effect
<1>5. ASSUME NEW i \in 1..Len(jobs), JobDone(i)
      PROVE  Effect
  <2>1. jobs[i] \in Work(ctls)
    BY RestOfJobs DEF Base, Born
  <2>2. jobs[i] \in Known(ctls) /\ jobs[i].op # "offline"
    BY <2>1 DEF Work
  <2>3. Queued
    BY <1>1, <1>5, <2>2, QueueAppend DEF JobDone, Queued
  <2> QED
    BY <1>2, <1>5, <2>3 DEF JobDone
<1>6. CASE HeartbeatExpires
  <2> DEFINE e == [op |-> "heartbeat"]
  <2>1. e \in Known(ctls) /\ e.op # "offline"
    BY <1>1, NewTasks
  <2>2. Queued
    <3>1. queue' = Append(queue, e)
      BY <1>6 DEF HeartbeatExpires
    <3> HIDE DEF e
    <3> QED
      BY <1>1, <2>1, <3>1, QueueAppend DEF Queued
  <2> QED
    BY <1>2, <1>6, <2>2 DEF HeartbeatExpires
<1>7. CASE Expire
  <2>1. Expires
    BY <1>0, <1>7 DEF Expire, Expires
  <2> QED
    BY <2>1 DEF Effect
<1>8. CASE CleanUp
  <2>1. Cleans
    BY <1>8, QueueRemoved DEF CleanUp, Cleans
  <2> QED
    BY <2>1 DEF Effect
<1>9. CASE QueryMisses
  BY <1>0, <1>2, <1>9 DEF QueryMisses
<1>10. CASE QueryLoaded
  <2>1. CASE UNCHANGED <<objs, cached, expired, queue, flaw>>
    BY <1>0, <1>2, <1>10, <2>1 DEF QueryLoaded
  <2>2. CASE ~UNCHANGED <<objs, cached, expired, queue, flaw>>
    <3>1. Loads
      BY <1>10, <2>2, QueueRemoved DEF QueryLoaded, Loads, Replaced
    <3> QED
      BY <3>1 DEF Effect
  <2> QED
    BY <2>1, <2>2
<1> QED
  BY <1>3, <1>4, <1>5, <1>6, <1>7, <1>8, <1>9, <1>10

\* Every step has one of the effects.
LEMMA StepEffect == Base /\ [Next]_vars => Effect
<1> SUFFICES ASSUME Base, [Next]_vars PROVE Effect
  OBVIOUS
<1>1. CASE UNCHANGED vars
  <2>1. LogsOut' = LogsOut /\ Checked' = Checked
    BY <1>1, QueueSame DEF vars
  <2>2. Waits
    BY <1>1, <2>1 DEF Waits, vars, ctlVars, cacheVars, objVars
  <2> QED
    BY <2>2 DEF Effect
<1>2. CASE Next
  <2>1. CASE \E s \in Sessions :
                \/ Open(s) \/ PI(s) \/ Suspend(s) \/ Close(s)
                \/ \E t \in Tokens : VerifySign(s, t) \/ EnterGame(s, t)
    BY <2>1, ConnectionEffect DEF Effect
  <2>2. CASE GameThread
    BY <2>2, GameThreadEffect
  <2> QED
    BY <1>2, <2>1, <2>2, OthersEffect DEF Next
<1> QED
  BY <1>1, <1>2

-----------------------------------------------------------------------------
\* The object that is online

\* An object that expires while it is online is a flaw, and without one that
\* left the cache only the object in the cache is online.
Current ==
    /\ cached \in online /\ expired => "expired" \in flaw
    /\ flaw \cap {"expired", "replaced"} = {} => online \subseteq {cached}

\* tokenMappingPlayer leads to nobody who is not online.
Indexed == mapped \subseteq {otok[o] : o \in online}

\* What entering changes, and what it leaves alone.
LEMMA EnterFacts ==
    ASSUME Base, NEW c \in Ctl, c <= ctls, NEW t \in Tokens, NEW o \in Obj, EnterWith(c, t, o)
    PROVE  /\ flaw \subseteq flaw' /\ flaw' \subseteq flaw \cup {"survived", "self", "revived"}
           /\ UNCHANGED sessionVars
           /\ \/ /\ online' = online \ {o}
                 /\ mapped' = IF o \in online THEN mapped \ {otok[o]} ELSE mapped
                 /\ UNCHANGED <<ctrl, otok, pid>>
              \/ /\ online' = online \cup {o}
                 /\ mapped' = (IF o \in online THEN mapped \ {otok[o]} ELSE mapped) \cup {t}
                 /\ ctrl' = [ctrl EXCEPT ![o] = c]
                 /\ otok' = [otok EXCEPT ![o] = t]
                 /\ pid' = pid \cup {c}
BY DEF EnterWith, sessionVars

\* Each effect keeps Current.
LEMMA CurrentStep ==
    ASSUME Base, Current, Effect
    PROVE  Current'
<1> USE DEF playerVars, objVars
<1>0. online \subseteq 1..objs /\ cached \in 0..objs /\ objs \in Nat /\ objs + 1 \notin online /\ 0 \notin online
  BY LoginAssumption DEF Base, TypeOK, Born
<1>1. CASE UNCHANGED <<online, cached, expired, flaw>>
  BY <1>1 DEF Current
<1>2. ASSUME NEW c \in Ctl, Reconnects(c)
      PROVE  Current'
  <2>1. UNCHANGED <<online, cached, expired>> /\ flaw \subseteq flaw'
        /\ flaw' \subseteq flaw \cup {"self", "revived"}
    BY <1>2 DEF Reconnects, Reconnection
  <2> QED
    BY <2>1 DEF Current
<1>3. ASSUME NEW c \in Ctl, NEW t \in Tokens, c <= ctls, Enters(c, t)
      PROVE  Current'
  <2>1. cached \in Obj /\ ~expired
    BY <1>3 DEF Enters, InCache, Base, TypeOK, Obj
  <2>2. /\ online' = online \ {cached} \/ online' = online \cup {cached}
        /\ flaw \subseteq flaw' /\ UNCHANGED <<cached, expired>>
    BY <1>3, <2>1, EnterFacts DEF Enters
  <2> QED
    BY <2>1, <2>2 DEF Current
<1>4. ~InCache /\ flaw \cap {"expired", "replaced"} = {} => online = {}
  BY <1>0 DEF InCache, Current
<1>5. ASSUME NEW c \in Ctl, NEW t \in Tokens, c <= ctls, EntersNew(c, t)
      PROVE  Current'
  <2>1. objs + 1 \in Obj
    BY <1>0, <1>5, LoginAssumption DEF EntersNew, Replaced, Obj, Base, TypeOK
  <2>2. /\ online' = online \ {objs + 1} \/ online' = online \cup {objs + 1}
        /\ flaw \subseteq flaw' /\ cached' = objs + 1 /\ expired' = FALSE /\ ~InCache
    BY <1>5, <2>1, EnterFacts DEF EntersNew, Replaced
  <2> QED
    BY <1>4, <2>2 DEF Current
<1>6. ASSUME NEW o \in Obj, Leaves(o)
      PROVE  Current'
  <2>1. online' \subseteq online /\ UNCHANGED <<cached, expired, flaw>>
    BY <1>6 DEF Leaves, Offline
  <2> QED
    BY <2>1 DEF Current
<1>7. CASE Expires
  BY <1>7 DEF Expires, Current
<1>8. CASE Cleans
  <2>1. ~InCache /\ cached' = 0 /\ expired' = FALSE /\ UNCHANGED <<online, flaw>>
    BY <1>8 DEF Cleans, InCache
  <2> QED
    BY <1>4, <2>1 DEF Current
<1>9. CASE Loads
  <2>1. /\ cached' = objs + 1 /\ expired' = FALSE /\ online' = online /\ flaw \subseteq flaw'
        /\ InCache /\ cached \in online => "replaced" \in flaw'
    BY <1>9 DEF Loads, Replaced
  <2>2. flaw' \cap {"expired", "replaced"} = {} => online = {}
    BY <1>4, <2>1 DEF Current
  <2> QED
    BY <2>1, <2>2 DEF Current
<1>10. ASSUME \/ \E s \in Sessions : Suspends(s) \/ \E c \in Ctl : Hears(s, c)
              \/ \E c \in Ctl : Ends(c) \/ Dismisses(c)
              \/ Waits
       PROVE  Current'
  BY <1>1, <1>10 DEF Suspends, Hears, Ends, Dismisses, Waits
<1> QED
  BY <1>2, <1>3, <1>5, <1>6, <1>7, <1>8, <1>9, <1>10 DEF Effect

\* A token that leaves the index with its object leaves the others there.
LEMMA IndexedWithout ==
    ASSUME Indexed, NEW o
    PROVE  mapped \ {otok[o]} \subseteq {otok[x] : x \in online \ {o}}
BY DEF Indexed

\* Each effect keeps both halves of TokensFollowPlayers.
LEMMA TokensStep ==
    ASSUME Base, Current, TokensFollowPlayers, Effect
    PROVE  TokensFollowPlayers'
<1> USE DEF playerVars, objVars
<1>0. Indexed /\ otok \in [Obj -> Tokens \cup {NoToken}] /\ online \subseteq Obj
  BY DEF TokensFollowPlayers, Indexed, Base, TypeOK
<1>1. ASSUME UNCHANGED <<online, otok, mapped>>, flaw \subseteq flaw'
      PROVE  TokensFollowPlayers'
  <2>1. flaw' \cap {"expired", "replaced"} = {} => flaw \cap {"expired", "replaced"} = {}
    BY <1>1
  <2> QED
    BY <1>1, <2>1 DEF TokensFollowPlayers
<1>2. ASSUME NEW c \in Ctl, NEW t \in Tokens, c <= ctls, NEW o \in Obj, EnterWith(c, t, o),
             flaw' \cap {"expired", "replaced"} = {} => online \subseteq {o}
      PROVE  TokensFollowPlayers'
  <2> DEFINE left == IF o \in online THEN mapped \ {otok[o]} ELSE mapped
  <2>1. left \subseteq {otok[x] : x \in online \ {o}}
    <3>1. CASE o \in online
      BY <3>1, <1>0, IndexedWithout
    <3>2. CASE o \notin online
      <4>1. online \ {o} = online
        BY <3>2
      <4> QED
        BY <3>2, <4>1, <1>0 DEF Indexed
    <3> QED
      BY <3>1, <3>2
  <2>2. flaw' \cap {"expired", "replaced"} = {} => left = {} /\ online \ {o} = {}
    BY <1>2, <2>1
  <2> HIDE DEF left
  <2>3. CASE online' = online \ {o} /\ mapped' = left /\ UNCHANGED otok
    BY <2>1, <2>2, <2>3 DEF TokensFollowPlayers
  <2>4. CASE online' = online \cup {o} /\ mapped' = left \cup {t} /\ otok' = [otok EXCEPT ![o] = t]
    <3>1. \A x \in online \ {o} : otok'[x] = otok[x] /\ x \in online'
      BY <1>0, <2>4
    <3>2. otok'[o] = t /\ o \in online'
      BY <1>0, <2>4
    <3>3. mapped' \subseteq {otok'[x] : x \in online'}
      BY <2>1, <2>4, <3>1, <3>2
    <3>4. flaw' \cap {"expired", "replaced"} = {} => online' = {o} /\ mapped' = {t}
      BY <2>2, <2>4
    <3> QED
      BY <3>2, <3>3, <3>4 DEF TokensFollowPlayers
  <2> QED
    BY <1>2, <2>3, <2>4, EnterFacts DEF left
<1>3. ASSUME NEW c \in Ctl, NEW t \in Tokens, c <= ctls, Enters(c, t)
      PROVE  TokensFollowPlayers'
  <2>1. cached \in Obj
    BY <1>3 DEF Enters, InCache, Base, TypeOK, Obj
  <2>2. EnterWith(c, t, cached) /\ flaw \subseteq flaw'
    BY <1>3, <2>1, EnterFacts DEF Enters
  <2>3. flaw' \cap {"expired", "replaced"} = {} => online \subseteq {cached}
    BY <2>2 DEF Current
  <2> QED
    BY <1>2, <1>3, <2>1, <2>2, <2>3
<1>4. ASSUME NEW c \in Ctl, NEW t \in Tokens, c <= ctls, EntersNew(c, t)
      PROVE  TokensFollowPlayers'
  <2>1. objs + 1 \in Obj /\ objs + 1 \notin online /\ 0 \notin online
    BY <1>4, LoginAssumption DEF EntersNew, Replaced, Obj, Base, TypeOK, Born
  <2>2. EnterWith(c, t, objs + 1) /\ flaw \subseteq flaw' /\ ~InCache
    BY <1>4, <2>1, EnterFacts DEF EntersNew
  <2>3. flaw' \cap {"expired", "replaced"} = {} => online \subseteq {objs + 1}
    BY <2>1, <2>2 DEF Current, InCache
  <2> QED
    BY <1>2, <1>4, <2>1, <2>2, <2>3
<1>5. ASSUME NEW o \in Obj, Leaves(o)
      PROVE  TokensFollowPlayers'
  <2>1. /\ online' = online \ {o} /\ mapped' = mapped \ {otok[o]} /\ otok' = otok
        /\ flaw' = flaw /\ (o \in online \/ o = cached)
    BY <1>5 DEF Leaves, Offline
  <2>2. mapped' \subseteq {otok'[x] : x \in online'}
    BY <1>0, <2>1, IndexedWithout
  <2>3. flaw \cap {"expired", "replaced"} = {} => online' = {}
    BY <2>1 DEF Current
  <2> QED
    BY <2>1, <2>2, <2>3 DEF TokensFollowPlayers
<1>6. ASSUME \/ \E s \in Sessions : Suspends(s) \/ \E c \in Ctl : Hears(s, c)
             \/ \E c \in Ctl : Ends(c) \/ Dismisses(c) \/ Reconnects(c)
             \/ Waits \/ Expires \/ Cleans \/ Loads
      PROVE  TokensFollowPlayers'
  BY <1>1, <1>6 DEF Suspends, Hears, Ends, Dismisses, Waits, Reconnects, Reconnection, Expires, Cleans, Loads
<1> QED
  BY <1>3, <1>4, <1>5, <1>6 DEF Effect

\* An object that is online is cached, or will be checked.
Watched == "replaced" \notin flaw => \A o \in online : o = cached \/ o \in Checked

LEMMA WatchedIsNoGhost ==
    ASSUME Base
    PROVE  Watched <=> NoGhost
<1>1. \A o \in Obj : o \in Checked <=> \E i \in 1..Len(queue) : queue[i] = [op |-> "timeout", o |-> o]
  BY DEF Checked, Elems
<1>2. online \subseteq Obj
  BY DEF Base, TypeOK
<1> QED
  BY <1>1, <1>2 DEF Watched, NoGhost

\* Each effect keeps Watched.
LEMMA WatchedStep ==
    ASSUME Base, Watched, Effect
    PROVE  Watched'
<1> USE DEF playerVars, objVars
<1>0. online \subseteq Obj /\ cached \in 0..MaxObj
  BY DEF Base, TypeOK
<1>1. ASSUME online' \subseteq online, flaw \subseteq flaw', cached' = cached,
             Checked \cap online' \subseteq Checked'
      PROVE  Watched'
  BY <1>1 DEF Watched
<1>2. ASSUME \/ \E s \in Sessions : Suspends(s) \/ \E c \in Ctl : Hears(s, c)
             \/ \E c \in Ctl : Ends(c) \/ Dismisses(c) \/ Reconnects(c)
             \/ Waits \/ Expires
      PROVE  Watched'
  BY <1>1, <1>2 DEF Suspends, Hears, Ends, Dismisses, Waits, Reconnects, Reconnection, Expires, Queued
<1>3. ASSUME NEW c \in Ctl, NEW t \in Tokens, c <= ctls, Enters(c, t)
      PROVE  Watched'
  <2>1. cached \in Obj
    BY <1>3 DEF Enters, InCache, Base, TypeOK, Obj
  <2>2. online' \subseteq online \cup {cached} /\ flaw \subseteq flaw' /\ cached' = cached /\ Checked \subseteq Checked'
    BY <1>3, <2>1, EnterFacts DEF Enters, Queued
  <2> QED
    BY <2>2 DEF Watched
<1>4. ASSUME NEW x, online' \subseteq online \cup {x}, flaw \subseteq flaw', cached' = x,
             Checked \subseteq Checked', cached \in online => "replaced" \in flaw' \/ cached \in Checked'
      PROVE  Watched'
  BY <1>4 DEF Watched
<1>5. cached \in online => cached # 0
  BY <1>0, LoginAssumption DEF Obj
<1>6. ASSUME NEW c \in Ctl, NEW t \in Tokens, c <= ctls, EntersNew(c, t)
      PROVE  Watched'
  <2>1. objs + 1 \in Obj
    BY <1>6, LoginAssumption DEF EntersNew, Replaced, Obj, Base, TypeOK
  <2>2. online' \subseteq online \cup {objs + 1} /\ flaw \subseteq flaw' /\ cached' = objs + 1 /\ Checked \subseteq Checked'
    BY <1>6, <2>1, EnterFacts DEF EntersNew, Replaced, Queued
  <2>3. cached \in online => cached \in Checked'
    BY <1>5, <1>6 DEF EntersNew, Replaced, InCache
  <2> QED
    BY <1>4, <2>2, <2>3
<1>7. CASE Loads
  <2>1. online' \subseteq online \cup {objs + 1} /\ flaw \subseteq flaw' /\ cached' = objs + 1 /\ Checked \subseteq Checked'
    BY <1>7 DEF Loads, Replaced, Queued
  <2>2. cached \in online => "replaced" \in flaw' \/ cached \in Checked'
    BY <1>5, <1>7 DEF Loads, Replaced, InCache
  <2> QED
    BY <1>4, <2>1, <2>2
<1>8. CASE Cleans
  BY <1>4, <1>5, <1>8 DEF Cleans, Queued
<1>9. ASSUME NEW o \in Obj, Leaves(o)
      PROVE  Watched'
  BY <1>1, <1>9 DEF Leaves, Offline
<1> QED
  BY <1>2, <1>3, <1>6, <1>7, <1>8, <1>9 DEF Effect

-----------------------------------------------------------------------------
\* Controllers of clients that were replaced

\* Unless one survived, a controller that is logged in is the player's, or no
\* session leads to it; that of an object that is not online is done with.
Retired ==
    "survived" \notin flaw =>
        /\ \A c \in pid \ dying :
              (\E o \in online : ctrl[o] = c) \/ sess[c] = NoSession \/ cache[sess[c]] # c
        /\ cached # 0 /\ cached \notin online => ctrl[cached] \notin pid \ dying

LEMMA RetiredIsOneClient == Retired => OneClient
BY DEF Retired, OneClient, IsActive

\* Each effect keeps Retired.
LEMMA RetiredStep ==
    ASSUME Base, Retired, Effect
    PROVE  Retired'
<1> USE DEF playerVars, objVars, sessionVars
<1>0. /\ online \subseteq 1..objs /\ cached \in 0..objs /\ objs \in 0..MaxObj /\ ctls \in 0..MaxCtl
      /\ pid \subseteq 1..ctls /\ pid \subseteq Ctl /\ ctrl \in [Obj -> 0..MaxCtl]
      /\ cache \in [Sessions -> 0..MaxCtl] /\ sess \in [Ctl -> Sessions \cup {NoSession}]
      /\ online \subseteq Obj /\ (cached # 0 => cached \in Obj) /\ 0 \notin pid
      /\ \A x \in Obj : x > objs => ctrl[x] = 0
  BY LoginAssumption DEF Base, TypeOK, Born, Obj, Ctl
<1>1. ASSUME UNCHANGED <<online, ctrl, sess, cache>>, pid' \ dying' \subseteq pid \ dying, flaw \subseteq flaw',
             cached' # 0 /\ cached' \notin online =>
                 (cached # 0 /\ cached' = cached) \/ ctrl[cached'] = 0
      PROVE  Retired'
  BY <1>0, <1>1 DEF Retired
<1>2. ASSUME NEW s \in Sessions, NEW c \in Ctl, Hears(s, c)
      PROVE  Retired'
  <2>1. UNCHANGED <<online, ctrl, pid, dying, flaw, cached>> /\ Reach(s, c)
    BY <1>2 DEF Hears
  <2>2. CASE cache[s] # 0
    BY <1>1, <2>1, <2>2, ReachBase
  <2>3. CASE cache[s] = 0
    <3>1. c = ctls + 1 /\ cache' = [cache EXCEPT ![s] = c] /\ sess' = [sess EXCEPT ![c] = s] /\ c \notin pid
      BY <1>0, <2>1, <2>3, ReachBase
    <3>2. ASSUME NEW d \in pid, sess[d] # NoSession, cache[sess[d]] # d
          PROVE  sess'[d] = sess[d] /\ cache'[sess'[d]] # d
      BY <1>0, <3>1, <3>2
    <3>3. \A d \in pid : sess'[d] = sess[d]
      BY <1>0, <3>1
    <3> QED
      BY <2>1, <3>2, <3>3 DEF Retired
  <2> QED
    BY <2>2, <2>3
<1>3. ASSUME NEW c \in Ctl, Ends(c)
      PROVE  Retired'
  <2>1. pid' \ dying' \subseteq pid \ dying /\ \A d \in pid' : sess'[d] = sess[d]
    BY <1>0, <1>3 DEF Ends
  <2> QED
    BY <1>3, <2>1 DEF Ends, Retired
<1>4. ASSUME NEW c \in Ctl, Reconnects(c)
      PROVE  Retired'
  <2> DEFINE old == ctrl[cached]
  <2>1. InCache /\ UNCHANGED <<pid, dying, online, ctrl, cached>> /\ cached # 0 /\ cached \in Obj
    BY <1>0, <1>4 DEF Reconnects, InCache
  <2>2. CASE UNCHANGED <<sessionVars, flaw>>
    BY <1>1, <2>1, <2>2
  <2>3. CASE ~UNCHANGED <<sessionVars, flaw>>
    <3>1. /\ old # 0 /\ sess[old] # NoSession /\ flaw \subseteq flaw'
          /\ sess' = [sess EXCEPT ![old] = sess[c]]
          /\ cache' = [x \in Sessions |->
                         IF x = sess[c] THEN old ELSE IF x = sess[old] THEN 0 ELSE cache[x]]
      BY <1>4, <2>3 DEF Reconnects, Reconnection
    <3>2. ASSUME "survived" \notin flaw', NEW d \in pid \ dying
          PROVE  (\E o \in online : ctrl[o] = d) \/ sess'[d] = NoSession \/ cache'[sess'[d]] # d
      <4>1. CASE d = old
        BY <2>1, <3>1, <3>2, <4>1 DEF Retired
      <4>2. CASE d # old
        <5>1. d \in Ctl /\ d # 0 /\ sess'[d] = sess[d] /\ sess[d] \in Sessions \cup {NoSession}
          BY <1>0, <3>1, <4>2
        <5>2. (\E o \in online : ctrl[o] = d) \/ sess[d] = NoSession \/ cache[sess[d]] # d
          BY <3>1, <3>2 DEF Retired
        <5> QED
          BY <3>1, <4>2, <5>1, <5>2
      <4> QED
        BY <4>1, <4>2
    <3>3. "survived" \notin flaw' => (cached # 0 /\ cached \notin online => ctrl[cached] \notin pid \ dying)
      BY <3>1 DEF Retired
    <3> QED
      BY <2>1, <3>2, <3>3 DEF Retired
  <2> QED
    BY <2>2, <2>3
<1>5. ASSUME NEW c \in Ctl, NEW t \in Tokens, c <= ctls, NEW o \in Obj, EnterWith(c, t, o), cached' = o,
             o \notin online => o = cached \/ ctrl[o] = 0
      PROVE  Retired'
  <2> DEFINE old == ctrl[o]
  <2>1. /\ UNCHANGED <<session, cache, ctls, sess>> /\ flaw \subseteq flaw'
        /\ dying' = IF o \in online THEN Destroy(old) ELSE dying
        /\ o \in online /\ ~IsActive(old) /\ old \in pid => "survived" \in flaw'
    BY <1>5 DEF EnterWith
  <2>2. dying \subseteq dying'
    BY <2>1 DEF Destroy
  <2>3. "survived" \notin flaw' /\ o \in online => old \notin pid \ dying'
    BY <2>1 DEF Destroy
  <2>4. o # 0
    BY DEF Obj
  <2>5. ASSUME "survived" \notin flaw', NEW d \in pid \ dying', d # old
        PROVE  (\E x \in online \ {o} : ctrl[x] = d) \/ sess[d] = NoSession \/ cache[sess[d]] # d
    BY <2>1, <2>2, <2>5 DEF Retired
  <2>6. CASE online' = online \ {o} /\ UNCHANGED <<ctrl, otok, pid>>
    <3>1. "survived" \notin flaw' => old \notin pid \ dying' \/ (o \notin online /\ o = cached)
      BY <1>0, <1>5, <2>3
    <3>2. "survived" \notin flaw' => old \notin pid \ dying'
      BY <2>1, <2>2, <2>4, <3>1 DEF Retired
    <3> QED
      BY <1>5, <2>1, <2>5, <2>6, <3>2 DEF Retired
  <2>7. CASE online' = online \cup {o} /\ ctrl' = [ctrl EXCEPT ![o] = c] /\ pid' = pid \cup {c}
    <3>1. \A x \in online \ {o} : ctrl'[x] = ctrl[x]
      BY <1>0, <2>7
    <3>2. ctrl'[o] = c /\ o \in online'
      BY <1>0, <2>7
    <3>3. ASSUME "survived" \notin flaw', NEW d \in pid' \ dying'
          PROVE  (\E x \in online' : ctrl'[x] = d) \/ sess[d] = NoSession \/ cache[sess[d]] # d
      <4>1. CASE d = c
        BY <3>2, <4>1
      <4>2. CASE d # c /\ d # old
        BY <2>5, <2>7, <3>1, <3>3, <4>2
      <4>3. CASE d # c /\ d = old
        <5>1. o \notin online /\ d \in pid \ dying
          BY <2>2, <2>3, <2>7, <3>3, <4>3
        <5>2. o = cached
          BY <1>0, <1>5, <5>1, <4>3
        <5> QED
          BY <2>1, <2>4, <3>3, <4>3, <5>1, <5>2 DEF Retired
      <4> QED
        BY <4>1, <4>2, <4>3
    <3> QED
      BY <1>5, <2>1, <3>2, <3>3 DEF Retired
  <2> QED
    BY <1>5, <2>6, <2>7 DEF EnterWith
<1>6. ASSUME NEW c \in Ctl, NEW t \in Tokens, c <= ctls, Enters(c, t)
      PROVE  Retired'
  BY <1>0, <1>5, <1>6 DEF Enters, InCache
<1>7. ASSUME NEW c \in Ctl, NEW t \in Tokens, c <= ctls, EntersNew(c, t)
      PROVE  Retired'
  <2>1. objs + 1 \in Obj /\ ctrl[objs + 1] = 0
    BY <1>0, <1>7, LoginAssumption DEF EntersNew, Replaced, Obj
  <2> QED
    BY <1>5, <1>7, <2>1 DEF EntersNew, Replaced
<1>8. ASSUME NEW c \in Ctl, DestroyController(c), UNCHANGED <<sess, session>>
      PROVE  /\ dying \subseteq dying'
             /\ \A d \in pid : sess[d] # NoSession /\ cache[sess[d]] # d => cache'[sess[d]] # d
             /\ c \in pid \ dying' => sess[c] = NoSession \/ cache'[sess[c]] # c
  <2>1. dying' = Destroy(c) /\ dying \subseteq dying'
    BY <1>8 DEF DestroyController, Destroy
  <2>2. CASE cache' = [s \in Sessions |-> IF s = sess[c] THEN 0 ELSE cache[s]]
    BY <1>0, <2>1, <2>2
  <2>3. CASE IsActive(c) /\ UNCHANGED cache
    BY <2>1, <2>3 DEF Destroy
  <2> QED
    BY <1>8, <2>2, <2>3 DEF DestroyController
<1>9. ASSUME NEW c \in Ctl, Dismisses(c)
      PROVE  Retired'
  <2>1. DestroyController(c) /\ UNCHANGED <<session, sess, pid, online, ctrl, cached, flaw>>
    BY <1>9 DEF Dismisses
  <2> QED
    BY <1>8, <2>1 DEF Retired
<1>10. ASSUME NEW o \in Obj, Leaves(o)
       PROVE  Retired'
  <2>1. /\ online' = online \ {o} /\ ctrl' = [ctrl EXCEPT ![o] = 0]
        /\ UNCHANGED <<session, sess, pid, cached, flaw>>
        /\ (ctrl[o] # 0 /\ DestroyController(ctrl[o])) \/ (ctrl[o] = 0 /\ UNCHANGED <<dying, cache>>)
    BY <1>10 DEF Leaves, Offline
  <2>2. /\ dying \subseteq dying'
        /\ \A d \in pid : sess[d] # NoSession /\ cache[sess[d]] # d => cache'[sess[d]] # d
        /\ ctrl[o] \in pid \ dying' => sess[ctrl[o]] = NoSession \/ cache'[sess[ctrl[o]]] # ctrl[o]
    <3>1. CASE ctrl[o] # 0 /\ DestroyController(ctrl[o])
      <4>1. ctrl[o] \in Ctl
        BY <1>0, <3>1, LoginAssumption DEF Ctl
      <4> QED
        BY <1>8, <2>1, <3>1, <4>1
    <3>2. CASE ctrl[o] = 0 /\ UNCHANGED <<dying, cache>>
      BY <1>0, <3>2
    <3> QED
      BY <2>1, <3>1, <3>2
  <2>3. ASSUME "survived" \notin flaw', NEW d \in pid \ dying'
        PROVE  (\E x \in online' : ctrl'[x] = d) \/ sess[d] = NoSession \/ cache'[sess[d]] # d
    <3>1. CASE d = ctrl[o]
      BY <2>2, <2>3, <3>1
    <3>2. CASE d # ctrl[o]
      <4>1. (\E x \in online : ctrl[x] = d) \/ sess[d] = NoSession \/ cache[sess[d]] # d
        BY <2>1, <2>2, <2>3 DEF Retired
      <4>2. \A x \in online : ctrl[x] = d => x \in online' /\ ctrl'[x] = d
        BY <1>0, <2>1, <3>2
      <4> QED
        BY <2>2, <4>1, <4>2
    <3> QED
      BY <3>1, <3>2
  <2>4. ASSUME "survived" \notin flaw', cached # 0, cached \notin online'
        PROVE  ctrl'[cached] \notin pid \ dying'
    <3>1. CASE cached = o
      BY <1>0, <2>1, <3>1
    <3>2. CASE cached # o
      BY <1>0, <2>1, <2>2, <2>4, <3>2 DEF Retired
    <3> QED
      BY <3>1, <3>2
  <2> QED
    BY <2>1, <2>3, <2>4 DEF Retired
<1>11. CASE Loads
  <2>1. objs + 1 \in Obj /\ ctrl[objs + 1] = 0
    BY <1>0, <1>11, LoginAssumption DEF Loads, Replaced, Obj
  <2> QED
    BY <1>1, <1>11, <2>1 DEF Loads, Replaced
<1>12. ASSUME Waits \/ Expires \/ Cleans \/ \E s \in Sessions : Suspends(s)
       PROVE  Retired'
  BY <1>1, <1>12 DEF Waits, Expires, Cleans, Suspends
<1> QED
  BY <1>2, <1>3, <1>4, <1>6, <1>7, <1>9, <1>10, <1>11, <1>12 DEF Effect

-----------------------------------------------------------------------------
\* The player that is online can be reached

\* As long as nothing went wrong: the player's controller is logged in, a
\* session put to an end leads nowhere, and the operator's tasks are for
\* controllers that are logged in or destroyed.
Served ==
    flaw = {} =>
        /\ \A o \in online : ctrl[o] \in pid
        /\ \A s \in Sessions : session[s] = "dead" => cache[s] = 0
        /\ \A c \in LogsOut : c \in pid \/ sess[c] = NoSession

\* Each effect keeps Reachable and Served.
LEMMA ReachableStep ==
    ASSUME Base, Current, TokensFollowPlayers, Served, Reachable, Effect
    PROVE  Reachable' /\ Served'
<1> USE DEF playerVars, objVars, sessionVars
<1>0. /\ session \in [Sessions -> {"none", "open", "suspended", "dead", "closed"}]
      /\ cache \in [Sessions -> 0..MaxCtl] /\ sess \in [Ctl -> Sessions \cup {NoSession}]
      /\ ctrl \in [Obj -> 0..MaxCtl] /\ ctls \in 0..MaxCtl /\ pid \subseteq Ctl /\ pid \subseteq 1..ctls
      /\ online \subseteq Obj /\ NoSession \notin Sessions /\ 0 \notin pid /\ 0 \notin online
      /\ \A o \in online : ctrl[o] <= ctls /\ ctrl[o] # 0 /\ ctrl[o] \in Ctl
  BY LoginAssumption DEF Base, TypeOK, Born, Obj, Ctl
<1>1. LogsOut \subseteq 1..ctls
  <2> SUFFICES ASSUME NEW c \in LogsOut PROVE c \in 1..ctls
    OBVIOUS
  <2>1. c \in Ctl /\ [op |-> "offline", c |-> c] \in Elems(queue)
    BY DEF LogsOut
  <2>2. [op |-> "offline", c |-> c] \in Known(ctls)
    BY <2>1, ElementOfSeq DEF Elems, Base, Born
  <2>3. c <= ctls
    BY <2>2 DEF Known
  <2> QED
    BY <1>0, <2>1, <2>3 DEF Ctl
<1>2. ASSUME flaw' # {}
      PROVE  Reachable' /\ Served'
  BY <1>2 DEF Reachable, Served
<1>3. ASSUME UNCHANGED <<session, cache, sess, pid, dying, online, ctrl>>, flaw \subseteq flaw',
             LogsOut' \subseteq LogsOut \cup {ctrl[o] : o \in online}
      PROVE  Reachable' /\ Served'
  BY <1>3 DEF Reachable, Served
<1>4. ASSUME NEW s \in Sessions, NEW c \in Ctl, Hears(s, c)
      PROVE  Reachable' /\ Served'
  <2> SUFFICES ASSUME flaw = {} PROVE Reachable' /\ Served'
    BY <1>2, <1>4 DEF Hears
  <2>1. /\ UNCHANGED <<pid, dying, online, ctrl, flaw>> /\ LogsOut' \subseteq LogsOut /\ Reach(s, c)
        /\ \/ session[s] \notin {"dead", "closed"} /\ session' = [session EXCEPT ![s] = "open"]
           \/ session' = [session EXCEPT ![s] = "closed"]
    BY <1>4 DEF Hears, Queued
  <2>2. /\ cache[s] # 0 => cache' = cache /\ sess' = sess
        /\ cache[s] = 0 => c = ctls + 1 /\ cache' = [cache EXCEPT ![s] = c] /\ sess' = [sess EXCEPT ![c] = s]
    BY <2>1, ReachBase
  <2>3. \A d \in 1..ctls : sess'[d] = sess[d]
    <3>1. \A d \in 1..ctls : d \in Ctl /\ d # ctls + 1
      BY <1>0, LoginAssumption DEF Ctl
    <3> QED
      BY <1>0, <2>2, <3>1
  <2>4. \A x \in Sessions : cache'[x] = cache[x] \/ (x = s /\ cache[s] = 0)
    BY <1>0, <2>2
  <2>5. \A x \in Sessions : session'[x] = session[x] \/ x = s
    BY <1>0, <2>1
  <2>6. session'[s] # "dead" /\ (session[s] = "closed" => session'[s] = "closed")
    BY <1>0, <2>1
  <2>7. ASSUME NEW o \in online
        PROVE  /\ ctrl[o] \notin dying /\ sess'[ctrl[o]] # NoSession
               /\ session'[sess'[ctrl[o]]] # "dead"
               /\ session'[sess'[ctrl[o]]] # "closed" => cache'[sess'[ctrl[o]]] = ctrl[o]
    <3> DEFINE y == sess[ctrl[o]]
    <3>1. /\ ctrl[o] # 0 /\ ctrl[o] \notin dying /\ y # NoSession /\ session[y] # "dead"
          /\ session[y] # "closed" => cache[y] = ctrl[o]
      BY DEF Reachable
    <3>2. sess'[ctrl[o]] = y /\ y \in Sessions
      BY <1>0, <2>3, <3>1
    <3> HIDE DEF y
    <3>3. session'[y] # "dead"
      BY <2>5, <2>6, <3>1, <3>2
    <3>4. session'[y] # "closed" => session[y] # "closed"
      BY <2>5, <2>6, <3>2
    <3>5. session[y] # "closed" => cache'[y] = ctrl[o]
      BY <2>4, <3>1, <3>2
    <3> QED
      BY <3>1, <3>2, <3>3, <3>4, <3>5
  <2>8. Reachable'
    BY <1>0, <2>1, <2>7 DEF Reachable
  <2>9. \A x \in Sessions : session'[x] = "dead" => cache'[x] = 0
    BY <2>4, <2>5, <2>6 DEF Served
  <2>10. \A d \in LogsOut' : d \in pid \/ sess'[d] = NoSession
    BY <1>1, <2>1, <2>3 DEF Served
  <2>11. \A o \in online : ctrl[o] \in pid
    BY DEF Served
  <2> QED
    BY <2>1, <2>8, <2>9, <2>10, <2>11 DEF Served
<1>5. ASSUME NEW s \in Sessions, Suspends(s)
      PROVE  Reachable' /\ Served'
  <2>1. /\ UNCHANGED <<cache, sess, pid, dying, online, ctrl, flaw>> /\ LogsOut' \subseteq LogsOut
        /\ session' = [session EXCEPT ![s] = "suspended"]
    BY <1>5 DEF Suspends, Queued
  <2>2. \A x \in Sessions : session'[x] = "dead" => session[x] = "dead"
    BY <1>0, <2>1
  <2>3. Served'
    BY <2>1, <2>2 DEF Served
  <2>4. \A x \in Sessions : session'[x] # "closed" => session[x] # "closed"
    BY <1>0, <1>5, <2>1 DEF Suspends
  <2>5. \A o \in online : sess[ctrl[o]] \in Sessions \cup {NoSession}
    BY <1>0
  <2>6. Reachable'
    BY <2>1, <2>2, <2>4, <2>5 DEF Reachable
  <2> QED
    BY <2>3, <2>6
<1>6. ASSUME NEW c \in Ctl, Ends(c)
      PROVE  Reachable' /\ Served'
  <2>1. /\ UNCHANGED <<session, cache, online, ctrl, flaw>> /\ LogsOut' \subseteq LogsOut
        /\ c \in dying /\ dying' = dying \ {c} /\ pid' = pid \ {c}
        /\ sess'[c] = NoSession /\ \A d \in Ctl \ {c} : sess'[d] = sess[d]
    BY <1>0, <1>6 DEF Ends, Queued
  <2>2. flaw = {} => \A o \in online : ctrl[o] # c /\ sess'[ctrl[o]] = sess[ctrl[o]]
    BY <1>0, <2>1 DEF Reachable
  <2>3. Reachable'
    BY <2>1, <2>2 DEF Reachable
  <2>4. flaw = {} => \A d \in LogsOut : d \in pid' \/ sess'[d] = NoSession
    BY <2>1 DEF Served, LogsOut
  <2>5. Served'
    BY <2>1, <2>2, <2>4 DEF Served
  <2> QED
    BY <2>3, <2>5
<1>7. ASSUME NEW c \in Ctl, Reconnects(c)
      PROVE  Reachable' /\ Served'
  <2> DEFINE old == ctrl[cached]
             s   == sess[old]
             new == sess[c]
  <2>1. /\ mapped # {} /\ InCache /\ LogsOut' \subseteq LogsOut
        /\ UNCHANGED <<pid, dying, online, ctrl>>
    BY <1>7 DEF Reconnects, Queued
  <2>2. CASE UNCHANGED <<sessionVars, flaw>>
    BY <1>3, <2>1, <2>2
  <2>3. CASE ~UNCHANGED <<sessionVars, flaw>> /\ flaw' = {}
    <3>1. /\ s # NoSession
          /\ session' = IF session[s] = "open" THEN [session EXCEPT ![s] = "dead"] ELSE session
          /\ sess' = [sess EXCEPT ![old] = new]
          /\ cache' = [x \in Sessions |-> IF x = new THEN old ELSE IF x = s THEN 0 ELSE cache[x]]
          /\ flaw = {} /\ s # new /\ ~Gone(c)
      BY <1>7, <2>3 DEF Reconnects, Reconnection
    <3>2. online = {cached}
      BY <2>1, <3>1 DEF TokensFollowPlayers, Current
    <3>3. old \in Ctl /\ old \in pid /\ old \notin dying /\ old # 0
      BY <1>0, <3>1, <3>2 DEF Reachable, Served
    <3>4. c \notin dying /\ new \in Sessions /\ cache[new] = c /\ s \in Sessions /\ c # 0
      BY <1>0, <3>1, <3>3 DEF Gone, Ctl
    <3>5. session[new] # "dead"
      BY <3>1, <3>4 DEF Served
    <3>6. sess'[old] = new /\ cache'[new] = old /\ session'[new] = session[new]
      BY <1>0, <3>1, <3>3, <3>4
    <3> HIDE DEF old, s, new
    <3>7. Reachable'
      <4>1. \A o \in online' : ctrl'[o] = old
        BY <2>1, <3>2 DEF old
      <4> QED
        BY <1>0, <2>1, <3>3, <3>4, <3>5, <3>6, <4>1 DEF Reachable
    <3>8. \A x \in Sessions : session'[x] = "dead" => cache'[x] = 0
      <4> SUFFICES ASSUME NEW x \in Sessions, session'[x] = "dead" PROVE cache'[x] = 0
        OBVIOUS
      <4>1. CASE x = new
        BY <3>5, <3>6, <4>1
      <4>2. CASE x # new /\ x = s
        BY <3>1, <4>2
      <4>3. CASE x # new /\ x # s
        <5>1. session[x] = "dead"
          BY <1>0, <3>1, <4>3
        <5>2. cache[x] = 0
          BY <3>1, <5>1 DEF Served
        <5> QED
          BY <3>1, <4>3, <5>2
      <4> QED
        BY <4>1, <4>2, <4>3
    <3>9. \A d \in LogsOut' : d \in pid' \/ sess'[d] = NoSession
      BY <1>0, <2>1, <3>1, <3>3 DEF Served, LogsOut
    <3>10. \A o \in online' : ctrl'[o] \in pid'
      BY <2>1, <3>1 DEF Served
    <3> QED
      BY <3>7, <3>8, <3>9, <3>10 DEF Served
  <2> QED
    BY <1>2, <2>2, <2>3
<1>8. ASSUME NEW c \in Ctl, NEW t \in Tokens, c <= ctls, NEW o \in Obj, EnterWith(c, t, o),
             flaw = {} => online \subseteq {o}, LogsOut' \subseteq LogsOut, flaw' = {}
      PROVE  Reachable' /\ Served'
  <2>1. /\ UNCHANGED <<session, cache, ctls, sess>> /\ flaw = {} /\ ~Gone(c)
        /\ o \in online => ctrl[o] # c
        /\ dying' = IF o \in online THEN Destroy(ctrl[o]) ELSE dying
    BY <1>8 DEF EnterWith
  <2>2. c \notin dying' /\ sess[c] \in Sessions /\ cache[sess[c]] = c /\ c # 0
    BY <1>0, <2>1 DEF Gone, Destroy, Ctl
  <2>3. session[sess[c]] # "dead"
    BY <2>1, <2>2 DEF Served
  <2>4. pid \subseteq pid' /\ (online' = {} \/ (online' = {o} /\ ctrl'[o] = c /\ c \in pid'))
    BY <1>0, <1>8, <2>1, EnterFacts
  <2>5. Reachable'
    BY <1>0, <2>1, <2>2, <2>3, <2>4 DEF Reachable
  <2>6. \A d \in LogsOut' : d \in pid' \/ sess[d] = NoSession
    BY <1>8, <2>1, <2>4 DEF Served
  <2>7. Served'
    BY <2>1, <2>4, <2>6 DEF Served
  <2> QED
    BY <2>5, <2>7
<1>9. ASSUME NEW c \in Ctl, NEW t \in Tokens, c <= ctls, Enters(c, t) \/ EntersNew(c, t)
      PROVE  Reachable' /\ Served'
  <2>1. CASE Enters(c, t)
    <3>1. cached \in Obj
      BY <2>1 DEF Enters, InCache, Base, TypeOK, Obj
    <3>2. flaw = {} => online \subseteq {cached}
      BY DEF Current
    <3> QED
      BY <1>2, <1>8, <1>9, <2>1, <3>1, <3>2 DEF Enters, Queued
  <2>2. CASE EntersNew(c, t)
    <3>1. objs + 1 \in Obj
      BY <2>2, LoginAssumption DEF EntersNew, Replaced, Obj, Base, TypeOK
    <3>2. flaw = {} => online \subseteq {objs + 1}
      BY <1>0, <2>2 DEF EntersNew, Current, InCache
    <3> QED
      BY <1>2, <1>8, <1>9, <2>2, <3>1, <3>2 DEF EntersNew, Replaced, Queued
  <2> QED
    BY <1>9, <2>1, <2>2
<1>10. ASSUME NEW c, DestroyController(c), flaw = {}
       PROVE  \A s \in Sessions : session[s] = "dead" => cache'[s] = 0
  BY <1>10 DEF DestroyController, Served
<1>11. ASSUME NEW o \in Obj, Leaves(o)
       PROVE  Reachable' /\ Served'
  <2> SUFFICES ASSUME flaw = {} PROVE Reachable' /\ Served'
    BY <1>2, <1>11 DEF Leaves
  <2>1. /\ UNCHANGED <<session, sess, pid, flaw>> /\ LogsOut' \subseteq LogsOut
        /\ online' = online \ {o} /\ (o \in online \/ o = cached)
        /\ DestroyController(ctrl[o]) \/ UNCHANGED <<dying, cache>>
    BY <1>11 DEF Leaves, Offline
  <2>2. online' = {}
    BY <2>1 DEF Current
  <2>3. \A s \in Sessions : session[s] = "dead" => cache'[s] = 0
    BY <1>10, <2>1 DEF Served
  <2> QED
    BY <2>1, <2>2, <2>3 DEF Reachable, Served
<1>12. ASSUME NEW c \in Ctl, Dismisses(c)
       PROVE  Reachable' /\ Served'
  <2> SUFFICES ASSUME flaw = {} PROVE Reachable' /\ Served'
    BY <1>2, <1>12 DEF Dismisses
  <2>1. /\ UNCHANGED <<session, sess, pid, online, ctrl, flaw>> /\ LogsOut' \subseteq LogsOut
        /\ c \in LogsOut /\ ~(c \in pid /\ InCache) /\ DestroyController(c)
    BY <1>12 DEF Dismisses, Queued
  <2>2. \A s \in Sessions : session[s] = "dead" => cache'[s] = 0
    BY <1>10, <2>1
  <2>3. online # {} => InCache
    BY <1>0 DEF Current, InCache
  <2>4. online # {} => sess[c] = NoSession
    BY <2>1, <2>3 DEF Served
  <2>5. sess[c] = NoSession => UNCHANGED <<dying, cache>>
    BY <1>0, <2>1 DEF DestroyController, Destroy, IsActive
  <2>6. Reachable'
    BY <2>1, <2>4, <2>5 DEF Reachable
  <2> QED
    BY <2>1, <2>2, <2>6 DEF Served
<1>13. ASSUME Waits \/ Expires \/ Cleans \/ Loads
       PROVE  Reachable' /\ Served'
  BY <1>3, <1>13 DEF Waits, Expires, Cleans, Loads, Replaced, Queued
<1> QED
  BY <1>4, <1>5, <1>6, <1>7, <1>9, <1>11, <1>12, <1>13 DEF Effect

-----------------------------------------------------------------------------
\* The properties

LEMMA InitLayers == Init => Current /\ TokensFollowPlayers /\ Watched /\ Retired /\ Reachable /\ Served
<1> SUFFICES ASSUME Init PROVE Current /\ TokensFollowPlayers /\ Watched /\ Retired /\ Reachable /\ Served
  OBVIOUS
<1>1. online = {} /\ mapped = {} /\ cached = 0 /\ pid = {} /\ queue = <<>> /\ expired = FALSE
      /\ \A s \in Sessions : session[s] = "none"
  BY DEF Init
<1>2. LogsOut = {}
  BY <1>1 DEF LogsOut, Elems
<1> QED
  BY <1>1, <1>2 DEF Current, TokensFollowPlayers, Watched, Retired, Reachable, Served

LEMMA CurrentAlways == Spec => []Current
<1>1. Init => Current
  BY InitLayers
<1>2. Base /\ Current /\ [Next]_vars => Current'
  BY CurrentStep, StepEffect
<1> QED
  BY <1>1, <1>2, BaseAlways, PTL DEF Spec

\* tokenMappingPlayer leads to nobody who is not online, and to everybody who
\* is unless an object that left the cache took its token along, for any
\* interleaving of entering, reconnection, going offline and expiry.
THEOREM TokensAreCurrent == Spec => []TokensFollowPlayers
<1>1. Init => TokensFollowPlayers
  BY InitLayers
<1>2. Base /\ Current /\ TokensFollowPlayers /\ [Next]_vars => TokensFollowPlayers'
  BY TokensStep, StepEffect
<1> QED
  BY <1>1, <1>2, BaseAlways, CurrentAlways, PTL DEF Spec

\* An object that is online and not cached is about to be taken offline by the
\* task the removal listener of CachePlayer has queued, unless a query put
\* another object in its place.
THEOREM NoGhostStays == Spec => []NoGhost
<1>1. Init => Watched
  BY InitLayers
<1>2. Base /\ Watched /\ [Next]_vars => Watched'
  BY WatchedStep, StepEffect
<1>3. Base /\ Watched => NoGhost
  BY WatchedIsNoGhost
<1> QED
  BY <1>1, <1>2, <1>3, BaseAlways, PTL DEF Spec

\* Unless a suspended client's controller survived its replacement, whoever is
\* logged in and heard on its session is the player that is online: enterGame
\* and offline leave nobody playing on.
THEOREM OneClientPlays == Spec => []OneClient
<1>1. Init => Retired
  BY InitLayers
<1>2. Base /\ Retired /\ [Next]_vars => Retired'
  BY RetiredStep, StepEffect
<1>3. Retired => OneClient
  BY RetiredIsOneClient
<1> QED
  BY <1>1, <1>2, <1>3, BaseAlways, PTL DEF Spec

\* As long as none of the flaws has happened, the player that is online has a
\* controller that is not about to be destroyed, on a session that is not
\* dead and that leads to it until the client is gone.
THEOREM PlayerIsReachable == Spec => []Reachable
<1>1. Init => Reachable /\ Served
  BY InitLayers
<1>2. Base /\ Current /\ TokensFollowPlayers /\ Reachable /\ Served /\ [Next]_vars => Reachable' /\ Served'
  BY ReachableStep, StepEffect
<1> QED
  BY <1>1, <1>2, BaseAlways, CurrentAlways, TokensAreCurrent, PTL DEF Spec
=============================================================================
