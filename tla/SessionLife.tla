---------------------------- MODULE SessionLife ----------------------------
(***************************************************************************)
(* What the game logic may rely on for each client session, whatever       *)
(* happens to the connections between gateway and game server: it is       *)
(* opened once, then messages come with growing numbers, and after it was  *)
(* closed, once, nothing comes any more.                                   *)
(***************************************************************************)
EXTENDS Naturals

CONSTANTS
    Client,
    MaxMsg    \* largest message number

VARIABLES
    life,      \* what the game logic was told about the session
    arrived    \* number of the last message handed to the game logic

vars == <<life, arrived>>

Init ==
    /\ life = [k \in Client |-> "none"]
    /\ arrived = [k \in Client |-> 0]

Open(k) ==
    /\ life[k] = "none"
    /\ life' = [life EXCEPT ![k] = "open"]
    /\ UNCHANGED arrived

Receive(k) ==
    /\ life[k] = "open"
    /\ \E n \in (arrived[k] + 1)..MaxMsg : arrived' = [arrived EXCEPT ![k] = n]
    /\ UNCHANGED life

Close(k) ==
    /\ life[k] = "open"
    /\ life' = [life EXCEPT ![k] = "closed"]
    /\ UNCHANGED arrived

Next == \E k \in Client : Open(k) \/ Receive(k) \/ Close(k)

Spec == Init /\ [][Next]_vars
=============================================================================
