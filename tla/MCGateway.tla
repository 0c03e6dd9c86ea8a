----------------------------- MODULE MCGateway -----------------------------
(* Instances of Gateway for TLC.                                           *)
EXTENDS Gateway, TLC

CONSTANTS k1, k2

OneClient  == {k1}
TwoClients == {k1, k2}

ClientSymmetry == Permutations(Client)
=============================================================================
