------------------------------ MODULE MCGuild ------------------------------
(* Instances of Guild for TLC: the configuration tables of CacheDisGuild    *)
(* and the symmetry sets the configurations refer to.                       *)
EXTENDS Guild, TLC

PlayerSymmetry == Permutations(Player)
Symmetry       == PlayerSymmetry \cup Permutations(Guild)

\* Tables by guild level: two seats at the only level, one officer each ...
OneLevel   == [l \in 1..1 |-> 2]
OneOfLevel == [l \in 1..1 |-> 1]
\* ... or as many seats as the level says, and officers without a limit.
TwoLevels  == [l \in 1..2 |-> l]
NoLimit    == [l \in 1..2 |-> 0]
=============================================================================
