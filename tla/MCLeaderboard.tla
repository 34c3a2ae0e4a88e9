--------------------------- MODULE MCLeaderboard ---------------------------
(* Constants for model checking Leaderboard. *)
EXTENDS Leaderboard, TLC

\* Nothing tells topics, or request slots, apart.
Symmetry == Permutations(Topics) \cup Permutations(Requests)

=============================================================================
