------------------------------ MODULE MCBotPool ------------------------------
(* BotPool with the men as model values.                                    *)
EXTENDS BotPool, TLC

CONSTANTS u1, u2

Symmetry == Permutations(User)
=============================================================================
