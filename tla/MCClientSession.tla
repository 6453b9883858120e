-------------------------- MODULE MCClientSession --------------------------
(* ClientSession on small bounds.                                           *)
EXTENDS ClientSession, TLC
=============================================================================
