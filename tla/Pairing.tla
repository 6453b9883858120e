------------------------------ MODULE Pairing ------------------------------
(***************************************************************************)
(* What matchmaking promises, without saying how.  Users are bound to room *)
(* ids two at a time; the room of a pair opens at most once, for exactly   *)
(* those two; a binding ends before the room opens or together with it.    *)
(*                                                                         *)
(* bound is the Redis mapping 'user:room:<uid>', open the keys 'room:<id>'.*)
(***************************************************************************)
CONSTANTS Users, Rooms, None

VARIABLES bound, open

vars == <<bound, open>>

Members(r) == {u \in Users : bound[u] = r}

Init ==
    /\ bound = [u \in Users |-> None]
    /\ open = [r \in Rooms |-> {}]

\* match.lua: two users nobody has a hold on are bound to an id nobody knows.
Claim(u, v, r) ==
    /\ u # v /\ bound[u] = None /\ bound[v] = None
    /\ open[r] = {} /\ Members(r) = {}
    /\ bound' = [bound EXCEPT ![u] = r, ![v] = r]
    /\ UNCHANGED open

\* releaseClaim, or the claim's TTL: only bindings to rooms that never opened.
Release(S) ==
    /\ \A u \in S : bound[u] # None /\ open[bound[u]] = {}
    /\ bound' = [u \in Users |-> IF u \in S THEN None ELSE bound[u]]
    /\ UNCHANGED open

\* createRoom: both are still bound to the id, and nobody else is.
Open(r) ==
    /\ open[r] = {}
    /\ \E u, v \in Users : /\ u # v
                          /\ Members(r) = {u, v}
                          /\ open' = [open EXCEPT ![r] = {u, v}]
    /\ UNCHANGED bound

\* deleteRoom: the room and its members' bindings go in one command.
Close(r) ==
    /\ open[r] # {}
    /\ open' = [open EXCEPT ![r] = {}]
    /\ bound' = [u \in Users |-> IF u \in open[r] THEN None ELSE bound[u]]

Next ==
    \/ \E u, v \in Users, r \in Rooms : Claim(u, v, r)
    \/ \E S \in SUBSET Users : Release(S)
    \/ \E r \in Rooms : Open(r) \/ Close(r)

Spec == Init /\ [][Next]_vars
=============================================================================
