--------------------------- MODULE MCSessionResume ---------------------------
(* SessionResume on small sets; users are interchangeable.                    *)
EXTENDS SessionResume, TLC

CONSTANTS u1, u2, u3, s1, s2, s3, s4, s5, r1, r2

Symmetry == Permutations(Users)
=============================================================================
