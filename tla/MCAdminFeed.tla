----------------------------- MODULE MCAdminFeed -----------------------------
(* AdminFeed on small bounds; the users are interchangeable.                *)
EXTENDS AdminFeed, TLC

CONSTANTS u1, u2

Symmetry == Permutations(User)
=============================================================================
