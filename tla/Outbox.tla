------------------------------- MODULE Outbox -------------------------------
(***************************************************************************)
(* What a message controller promises for the messages it has numbered:    *)
(* as long as nothing excuses it, each of them is held until the client is *)
(* known to have it.  Nothing is promised once it is excused.              *)
(***************************************************************************)
EXTENDS Naturals

VARIABLES
    sent,      \* number of the last message
    held,      \* numbers the server still holds
    known,     \* numbers the client has
    excused    \* the promise no longer binds

vars == <<sent, held, known, excused>>

Init ==
    /\ sent = 0
    /\ held = {}
    /\ known = {}
    /\ excused = FALSE

Post ==
    /\ sent' = sent + 1
    /\ held' = held \cup {sent + 1}
    /\ UNCHANGED <<known, excused>>

\* The client may learn only what was sent.
Learn(n) ==
    /\ n \in 1..sent
    /\ known' = known \cup {n}
    /\ UNCHANGED <<sent, held, excused>>

\* The server may let go only of what the client has.
Release(N) ==
    /\ N \subseteq known
    /\ held' = held \ N
    /\ UNCHANGED <<sent, known, excused>>

Excuse == excused'

Next ==
    \/ Post
    \/ \E n \in 1..sent : Learn(n)
    \/ \E N \in SUBSET known : Release(N)
    \/ Excuse

Spec == Init /\ [][Next]_vars
=============================================================================
