------------------------- MODULE MCPeerNegotiation -------------------------
(* PeerNegotiation with its two peers as model values.                      *)
EXTENDS PeerNegotiation, TLC

CONSTANTS o, a
=============================================================================
