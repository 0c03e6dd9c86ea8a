----------------------------- MODULE MCFriends ------------------------------
(* Instances of Friends for TLC.                                            *)
EXTENDS Friends, TLC

CONSTANTS p1, p2, p3

TwoPlayers   == {p1, p2}
ThreePlayers == {p1, p2, p3}

PlayerSymmetry == Permutations(Player)
=============================================================================
