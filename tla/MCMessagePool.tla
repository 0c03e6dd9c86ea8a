--------------------------- MODULE MCMessagePool ---------------------------
(* Instances of MessagePool for TLC.                                       *)
EXTENDS MessagePool, TLC

CONSTANTS x1, x2

OneConnection  == {x1}
TwoConnections == {x1, x2}

ConnSymmetry == Permutations(Conns)
=============================================================================
