--------------------------- MODULE MCMatchmaking ---------------------------
(* Symmetry for the safety runs of Matchmaking; the instances are in the   *)
(* .cfg files.                                                             *)
EXTENDS Matchmaking, TLC

Symmetry == Permutations(Users) \cup Permutations(Rooms) \cup Permutations(Stamps)
=============================================================================
