---------------------------- MODULE MCModeration ----------------------------
(* Moderation on small bounds; the tabs are interchangeable.               *)
EXTENDS Moderation, TLC

CONSTANTS t1, t2

Symmetry == Permutations(Tab)
=============================================================================
