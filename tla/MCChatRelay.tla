------------------------------ MODULE MCChatRelay -----------------------------
(* Two people, one of whom writes, and the bot. *)
EXTENDS ChatRelay

CONSTANTS u1, u2, bot
=============================================================================
