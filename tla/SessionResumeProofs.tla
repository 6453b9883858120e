------------------------ MODULE SessionResumeProofs ------------------------
(***************************************************************************)
(* Proofs about SessionResume, for any number of users, sockets and rooms, *)
(* any number of drops, goodbyes, leaves, maintenance toggles and failed   *)
(* lookups: a drop is answered by a restore or by a teardown but not both, *)
(* and no room is left with a member nobody answers for.                   *)
(***************************************************************************)
EXTENDS SessionResume, TLAPS

\* The connections map holds exactly the connected sockets, one per user.
Registry ==
    /\ \A s \in Sockets : up[s] => owner[s] # None /\ conn[owner[s]] = s
    /\ \A u \in Users : conn[u] # None => up[conn[u]] /\ owner[conn[u]] = u

\* A socket that nobody has yet has done nothing.
Fresh ==
    \A s \in Sockets : owner[s] = None =>
        ~up[s] /\ state[s] = "idle" /\ rpc[s] = "none" /\ lpc[s] = "none"

\* Nothing is held, and no cleanup runs, for a user who never had a socket.
Newcomer ==
    \A u \in Users : (\A s \in Sockets : owner[s] # u) =>
        held[u] = None /\ \A j \in jobs : j.user # u

\* While a restore looks for its room, its user has no other socket and no held session.
Looking ==
    \A s \in Sockets : rpc[s] = "room" =>
        state[s] = "idle" /\ held[owner[s]] = None /\ conn[owner[s]] \in {s, None}

Bookkeeping == Registry /\ Fresh /\ Newcomer /\ Looking /\ HeldAlone

\* roomId and partnerId are set together.
Partnered == \A s \in Sockets : roomOf[s] # None => partnerOf[s] # None

\* A restore knows its session.
Restoring == \A s \in Sockets : rpc[s] # "none" => session[s] # None

\* A leave knows the room it ends.
Ending == \A s \in Sockets : lpc[s] = "delete" => lRoom[s] # None

\* A room has somebody else for every user.
Pairs == \A r \in Rooms : live[r] # {} => \A u \in Users : \E p \in live[r] : p # u

Marks == Partnered /\ Restoring /\ Ending /\ Pairs

\* Whatever stands for a user, its key, its held session, the session being restored or
\* its active socket, names the room it is a member of, if it is a member of one.
Mapped == \A r \in Rooms : \A u \in live[r] : userRoom[u] = r
HeldRoom ==
    \A u \in Users : held[u] # None => \A r \in Rooms : u \in live[r] => held[u].room = r
RestoredRoom ==
    \A s \in Sockets : rpc[s] = "room" =>
        \A r \in Rooms : owner[s] \in live[r] => session[s].room = r
ActiveRoom ==
    \A s \in Sockets : up[s] /\ state[s] = "active" =>
        \A r \in Rooms : owner[s] \in live[r] => roomOf[s] = r

Places == Mapped /\ HeldRoom /\ RestoredRoom /\ ActiveRoom

IInv == TypeOK /\ Bookkeeping /\ Marks /\ Places /\ RoomAttended

\* What a cleanup that has just been started is about.
LEMMA CleanupOfFields ==
    ASSUME NEW u \in Users, NEW why \in Reason
    PROVE  /\ CleanupOf(u, why) \in Job
           /\ CleanupOf(u, why).user = u /\ CleanupOf(u, why).why = why
           /\ CleanupOf(u, why).room = None
  BY DEF CleanupOf, Job

\* The partner of a member of a room is a user.
LEMMA OtherIsUser ==
    ASSUME TypeOK, Pairs, NEW r \in Rooms, live[r] # {}, NEW u \in Users
    PROVE  Other(u, r) \in Users
  BY DEF TypeOK, Pairs, Other

\* A partner that is reset is reset to something well typed.
LEMMA PartnerIdleTyped ==
    ASSUME TypeOK, NEW p, PartnerIdle(p)
    PROVE  /\ state' \in [Sockets -> {"idle", "queue", "active"}]
           /\ roomOf' \in [Sockets -> Rooms \cup {None}]
           /\ partnerOf' \in [Sockets -> Users \cup {None}]
           /\ shows' \in [Sockets -> Rooms \cup {None}]
           /\ away' \in [Sockets -> BOOLEAN]
  BY DEF TypeOK, PartnerIdle, Online

\* A step leads to a well-typed state.
LEMMA TypeNext == TypeOK /\ Registry /\ Partnered /\ Restoring /\ Pairs /\ [Next]_vars => TypeOK'
<1> SUFFICES ASSUME TypeOK /\ Registry /\ Partnered /\ Restoring /\ Pairs, [Next]_vars PROVE TypeOK'
  OBVIOUS
<1> USE DEF TypeOK, Session, Job, Reason
<1>1. ASSUME NEW u \in Users, NEW s \in Sockets, Arrive(u, s) PROVE TypeOK'
  BY <1>1 DEF Arrive, NewSocket, redisVars, clientVars, restoreVars, leaveVars,
        boundVars
<1>2. ASSUME NEW u \in Users, NEW s \in Sockets, Return(u, s) PROVE TypeOK'
  BY <1>2 DEF Return, NewSocket, redisVars, clientVars, leaveVars, boundVars
<1>3. ASSUME NEW s \in Sockets, Join(s) PROVE TypeOK'
  BY <1>3 DEF Join, redisVars, clientVars, restoreVars, leaveVars, boundVars
<1>4. ASSUME NEW s \in Sockets, Drop(s) PROVE TypeOK'
  <2>1. owner[s] \in Users => CleanupOf(owner[s], "drop") \in Job
    BY CleanupOfFields
  <2>2. owner[s] \in Users
    BY <1>4 DEF Drop, Closed, Registry
  <2>3. jobs' \subseteq Job
    BY <1>4, <2>1, <2>2 DEF Drop
  <2>4. held' \in [Users -> Session \cup {None}]
    BY <1>4, <2>2 DEF Drop, Partnered
  <2>5. /\ up' \in [Sockets -> BOOLEAN] /\ conn' \in [Users -> Sockets \cup {None}]
        /\ events' \in Nat
    BY <1>4 DEF Drop, Closed, Happens
  <2>6. away' \in [Sockets -> BOOLEAN]
    <3>1. CASE state[s] = "active" /\ roomOf[s] # None
      BY <1>4, <3>1, Zenon DEF Drop, Online
    <3>2. CASE ~(state[s] = "active" /\ roomOf[s] # None)
      BY <1>4, <3>2 DEF Drop
    <3> QED
      BY <3>1, <3>2
  <2> QED
    BY <1>4, <2>3, <2>4, <2>5, <2>6 DEF Drop, Closed, redisVars, restoreVars, leaveVars
<1>5. ASSUME NEW s \in Sockets, Bye(s) PROVE TypeOK'
  <2>1. owner[s] \in Users
    BY <1>5 DEF Bye, Closed, Registry
  <2>2. jobs' \subseteq Job
    BY <1>5, <2>1, CleanupOfFields DEF Bye
  <2>3. /\ up' \in [Sockets -> BOOLEAN] /\ conn' \in [Users -> Sockets \cup {None}]
        /\ events' \in Nat
    BY <1>5 DEF Bye, Closed, Happens
  <2> QED
    BY <1>5, <2>2, <2>3 DEF Bye, Closed, redisVars, restoreVars, leaveVars
<1>6. ASSUME NEW s \in Sockets, RestoreReads(s) PROVE TypeOK'
  <2>1. CASE live[session[s].room] = {}
    BY <1>6, <2>1 DEF RestoreReads, RestoreFindsNothing, redisVars, leaveVars, boundVars
  <2>2. CASE live[session[s].room] # {}
    <3>1. session[s] \in Session
      BY <1>6 DEF RestoreReads, Restoring
    <3>2. session[s].room \in Rooms /\ session[s].peer \in Users
      BY <3>1
    <3> QED
      BY <1>6, <2>2, <3>2 DEF RestoreReads, redisVars, leaveVars, boundVars
  <2> QED
    BY <2>1, <2>2
<1>7. ASSUME NEW s \in Sockets, RestoreTells(s) PROVE TypeOK'
  BY <1>7 DEF RestoreTells, Restoring, redisVars, socketVars, leaveVars, boundVars
<1>8. ASSUME NEW s \in Sockets, RestoreFails(s) PROVE TypeOK'
  BY <1>8 DEF RestoreFails, RestoreFindsNothing, redisVars, leaveVars
<1>9. ASSUME NEW s \in Sockets, Leave(s) PROVE TypeOK'
  <2>1. userRoom[owner[s]] \in Rooms /\ live[userRoom[owner[s]]] # {} /\ owner[s] \in Users
    BY <1>9, ConstantsAssumption DEF Leave, InRoom, Registry
  <2>2. Other(owner[s], userRoom[owner[s]]) \in Users
    BY <2>1, OtherIsUser
  <2>3. lpc' \in [Sockets -> {"none", "delete", "end"}] /\ events' \in Nat
    BY <1>9 DEF Leave, Happens
  <2>4. lRoom' \in [Sockets -> Rooms \cup {None}] /\ lPeer' \in [Sockets -> Users \cup {None}]
    BY <1>9, <2>1, <2>2 DEF Leave
  <2> QED
    BY <1>9, <2>3, <2>4 DEF Leave, redisVars, socketVars, clientVars, restoreVars
<1>10. ASSUME NEW s \in Sockets, LeaveDeletes(s) PROVE TypeOK'
  BY <1>10 DEF LeaveDeletes, DestroyRoom, PartnerIdle, restoreVars, boundVars
<1>11. ASSUME NEW s \in Sockets, LeaveEnds(s) PROVE TypeOK'
  BY <1>11 DEF LeaveEnds, redisVars, restoreVars, boundVars
<1>12. ASSUME NEW u \in Users, NEW v \in Users, NEW r \in Rooms, Match(u, v, r) PROVE TypeOK'
  <2>1. live' \in [Rooms -> SUBSET Users] /\ used' \subseteq Rooms
    BY <1>12 DEF Match
  <2>2. userRoom' \in [Users -> Rooms \cup {None}]
    BY <1>12 DEF Match
  <2>3. PICK s \in Sockets, t \in Sockets :
            /\ state' = [state EXCEPT ![s] = "active", ![t] = "active"]
            /\ roomOf' = [roomOf EXCEPT ![s] = r, ![t] = r]
            /\ partnerOf' = [partnerOf EXCEPT ![s] = v, ![t] = u]
            /\ shows' = [shows EXCEPT ![s] = r, ![t] = r]
            /\ away' = [away EXCEPT ![s] = FALSE, ![t] = FALSE]
    BY <1>12 DEF Match
  <2>4. /\ state' \in [Sockets -> {"idle", "queue", "active"}]
        /\ roomOf' \in [Sockets -> Rooms \cup {None}]
        /\ partnerOf' \in [Sockets -> Users \cup {None}]
    BY <2>3
  <2>5. shows' \in [Sockets -> Rooms \cup {None}] /\ away' \in [Sockets -> BOOLEAN]
    BY <2>3
  <2> QED
    BY <1>12, <2>1, <2>2, <2>4, <2>5 DEF Match, restoreVars, leaveVars, boundVars
<1>13. ASSUME NEW u \in Users, GraceExpires(u) PROVE TypeOK'
  BY <1>13 DEF GraceExpires, CleanupOf, redisVars, socketVars, clientVars, restoreVars,
        leaveVars, boundVars
<1>14. ASSUME NEW u \in Users, NEW why \in Reason, CleanupLooks(u, why) PROVE TypeOK'
  <2>1. jobs' \subseteq Job
    <3>1. CASE InRoom(u)
      <4>1. userRoom[u] \in Rooms /\ Other(u, userRoom[u]) \in Users
        BY <3>1, OtherIsUser DEF InRoom
      <4> QED
        BY <1>14, <3>1, <4>1 DEF CleanupLooks
    <3>2. CASE ~InRoom(u)
      BY <1>14, <3>2 DEF CleanupLooks
    <3> QED
      BY <3>1, <3>2
  <2> QED
    BY <1>14, <2>1
    DEF CleanupLooks, redisVars, socketVars, clientVars, restoreVars, leaveVars, boundVars
<1>15. ASSUME NEW j \in jobs, DeletesFor(j) PROVE TypeOK'
  <2>1. CASE live[j.room] = {}
    BY <1>15, <2>1 DEF DeletesFor, redisVars, clientVars,
        restoreVars, leaveVars, boundVars
  <2>2. CASE live[j.room] # {}
    <3>1. DestroyRoom(j.room) /\ PartnerIdle(j.peer)
      BY <1>15, <2>2 DEF DeletesFor
    <3>2. jobs' \subseteq jobs /\ UNCHANGED <<owner, up, conn, held, open, rpc, session, lpc, lRoom,
                                        lPeer, events, faults>>
      BY <1>15, <2>2 DEF DeletesFor, restoreVars, leaveVars, boundVars
    <3>3. /\ live' \in [Rooms -> SUBSET Users] /\ used' \subseteq Rooms
          /\ userRoom' \in [Users -> Rooms \cup {None}]
      BY <3>1 DEF DestroyRoom
    <3>4. /\ state' \in [Sockets -> {"idle", "queue", "active"}]
          /\ roomOf' \in [Sockets -> Rooms \cup {None}]
          /\ partnerOf' \in [Sockets -> Users \cup {None}]
          /\ shows' \in [Sockets -> Rooms \cup {None}]
          /\ away' \in [Sockets -> BOOLEAN]
      BY <3>1, PartnerIdleTyped
    <3> QED
      BY <3>2, <3>3, <3>4
  <2> QED
    BY <2>1, <2>2
<1>16. CASE CloseSite
  <2> DEFINE there == {s \in Sockets : \E u \in Users : Online(u, s)}
  <2>1. \A s \in there : owner[s] \in Users
    BY DEF Online, Registry
  <2>2. jobs' \subseteq Job
    BY <1>16, <2>1, CleanupOfFields DEF CloseSite
  <2>3. /\ state' \in [Sockets -> {"idle", "queue", "active"}]
        /\ roomOf' \in [Sockets -> Rooms \cup {None}]
        /\ partnerOf' \in [Sockets -> Users \cup {None}]
        /\ shows' \in [Sockets -> Rooms \cup {None}]
    BY <1>16 DEF CloseSite
  <2>4. open' \in BOOLEAN /\ events' \in Nat
    <3>1. events' \in Nat
      BY <1>16 DEF CloseSite, Happens
    <3>2. open' = FALSE
      BY <1>16 DEF CloseSite
    <3> QED
      BY <3>1, <3>2, Zenon
  <2>5. away' \in [Sockets -> BOOLEAN]
    <3>1. away' = [s \in Sockets |-> IF s \in there THEN FALSE ELSE away[s]]
      BY <1>16 DEF CloseSite
    <3>2. \A s \in Sockets : away[s] \in BOOLEAN
      OBVIOUS
    <3> HIDE DEF there, TypeOK
    <3>3. \A s \in Sockets : (IF s \in there THEN FALSE ELSE away[s]) \in BOOLEAN
      BY <3>2
    <3> QED
      BY <3>1, <3>3
  <2> QED
    BY <1>16, <2>2, <2>3, <2>4, <2>5 DEF CloseSite, redisVars, restoreVars, leaveVars
<1>17. CASE OpenSite
  BY <1>17 DEF OpenSite, Happens, redisVars, socketVars, clientVars, restoreVars,
        leaveVars
<1>18. CASE UNCHANGED vars
  BY <1>18 DEF vars, redisVars, socketVars, clientVars, restoreVars, leaveVars,
        boundVars
<1> QED
  BY <1>1, <1>2, <1>3, <1>4, <1>5, <1>6, <1>7, <1>8, <1>9, <1>10, <1>11, <1>12, <1>13,
        <1>14, <1>15, <1>16, <1>17, <1>18
  DEF Next, Restore, Leaving, Cleanup, CleanupDeletes

\* A step keeps the sockets, held sessions and cleanups of a user apart.
LEMMA BookkeepingNext == IInv /\ [Next]_vars => Bookkeeping'
<1> SUFFICES ASSUME IInv, [Next]_vars PROVE Bookkeeping'
  OBVIOUS
<1> USE DEF IInv, TypeOK, Bookkeeping, Registry, Fresh, Newcomer, Looking, HeldAlone
<1>1. ASSUME NEW u \in Users, NEW s \in Sockets, Arrive(u, s) PROVE Bookkeeping'
  BY <1>1, ConstantsAssumption DEF Arrive, NewSocket, restoreVars, leaveVars
<1>2. ASSUME NEW u \in Users, NEW s \in Sockets, Return(u, s) PROVE Bookkeeping'
  BY <1>2, ConstantsAssumption DEF Return, NewSocket, leaveVars
<1>3. ASSUME NEW s \in Sockets, Join(s) PROVE Bookkeeping'
  BY <1>3 DEF Join, restoreVars, leaveVars
<1>4. ASSUME NEW s \in Sockets, Drop(s) PROVE Bookkeeping'
  BY <1>4, ConstantsAssumption DEF Drop, Happens, Closed, CleanupOf, Online,
        restoreVars, leaveVars
<1>5. ASSUME NEW s \in Sockets, Bye(s) PROVE Bookkeeping'
  BY <1>5 DEF Bye, Happens, Closed, CleanupOf, restoreVars, leaveVars
<1>6. ASSUME NEW s \in Sockets, RestoreReads(s) PROVE Bookkeeping'
  BY <1>6 DEF RestoreReads, RestoreFindsNothing, leaveVars
<1>7. ASSUME NEW s \in Sockets, RestoreTells(s) PROVE Bookkeeping'
  BY <1>7 DEF RestoreTells, socketVars, leaveVars
<1>8. ASSUME NEW s \in Sockets, RestoreFails(s) PROVE Bookkeeping'
  BY <1>8 DEF RestoreFails, RestoreFindsNothing, leaveVars
<1>9. ASSUME NEW s \in Sockets, Leave(s) PROVE Bookkeeping'
  BY <1>9 DEF Leave, InRoom, socketVars, restoreVars
<1>10. ASSUME NEW s \in Sockets, LeaveDeletes(s) PROVE Bookkeeping'
  BY <1>10 DEF LeaveDeletes, DestroyRoom, PartnerIdle, restoreVars
<1>11. ASSUME NEW s \in Sockets, LeaveEnds(s) PROVE Bookkeeping'
  BY <1>11 DEF LeaveEnds, restoreVars
<1>12. ASSUME NEW u \in Users, NEW v \in Users, NEW r \in Rooms, Match(u, v, r) PROVE Bookkeeping'
  BY <1>12 DEF Match, restoreVars, leaveVars
<1>13. ASSUME NEW u \in Users, GraceExpires(u) PROVE Bookkeeping'
  BY <1>13 DEF GraceExpires, CleanupOf, socketVars, restoreVars, leaveVars
<1>14. ASSUME NEW u \in Users, NEW why \in Reason, CleanupLooks(u, why) PROVE Bookkeeping'
  BY <1>14 DEF CleanupLooks, InRoom, CleanupOf, socketVars, restoreVars, leaveVars
<1>15. ASSUME NEW j \in jobs, DeletesFor(j) PROVE Bookkeeping'
  <2>1. CASE live[j.room] = {}
    BY <1>15, <2>1 DEF DeletesFor, restoreVars, leaveVars
  <2>2. CASE live[j.room] # {}
    <3>1. DestroyRoom(j.room) /\ PartnerIdle(j.peer)
      BY <1>15, <2>2 DEF DeletesFor
    <3>2. jobs' \subseteq jobs /\ UNCHANGED <<owner, up, conn, held, rpc, lpc>>
      BY <1>15, <2>2 DEF DeletesFor, restoreVars, leaveVars
    <3>3. \A s \in Sockets : state'[s] \in {state[s], "idle"}
      BY <3>1 DEF PartnerIdle
    <3> QED
      BY <3>2, <3>3
  <2> QED
    BY <2>1, <2>2
<1>16. CASE CloseSite
  BY <1>16 DEF CloseSite, Happens, CleanupOf, Online, restoreVars, leaveVars
<1>17. CASE OpenSite
  BY <1>17 DEF OpenSite, socketVars, restoreVars, leaveVars
<1>18. CASE UNCHANGED vars
  BY <1>18 DEF vars, socketVars, restoreVars, leaveVars
<1> QED
  BY <1>1, <1>2, <1>3, <1>4, <1>5, <1>6, <1>7, <1>8, <1>9, <1>10, <1>11, <1>12, <1>13,
        <1>14, <1>15, <1>16, <1>17, <1>18
  DEF Next, Restore, Leaving, Cleanup, CleanupDeletes

\* A step leaves every handler with what it goes on with.
LEMMA MarksNext == IInv /\ [Next]_vars => Marks'
<1> SUFFICES ASSUME IInv, [Next]_vars PROVE Marks'
  OBVIOUS
<1> USE DEF IInv, TypeOK, Marks, Partnered, Restoring, Ending, Pairs
<1>1. ASSUME NEW u \in Users, NEW s \in Sockets, Arrive(u, s) PROVE Marks'
  BY <1>1 DEF Arrive, NewSocket, Bookkeeping, Fresh, redisVars, restoreVars, leaveVars
<1>2. ASSUME NEW u \in Users, NEW s \in Sockets, Return(u, s) PROVE Marks'
  BY <1>2 DEF Return, NewSocket, Bookkeeping, Fresh, redisVars, leaveVars
<1>3. ASSUME NEW s \in Sockets, Join(s) PROVE Marks'
  BY <1>3 DEF Join, redisVars, restoreVars, leaveVars
<1>4. ASSUME NEW s \in Sockets, Drop(s) PROVE Marks'
  BY <1>4 DEF Drop, Closed, redisVars, restoreVars, leaveVars
<1>5. ASSUME NEW s \in Sockets, Bye(s) PROVE Marks'
  BY <1>5 DEF Bye, Closed, redisVars, restoreVars, leaveVars
<1>6. ASSUME NEW s \in Sockets, RestoreReads(s) PROVE Marks'
  <2>1. (Partnered /\ Restoring)'
    <3>1. session[s].peer # None
      BY <1>6, ConstantsAssumption DEF RestoreReads, Session
    <3> QED
      BY <1>6, <3>1 DEF RestoreReads, RestoreFindsNothing
  <2>2. (Ending /\ Pairs)'
    BY <1>6 DEF RestoreReads, redisVars, leaveVars
  <2> QED
    BY <2>1, <2>2
<1>7. ASSUME NEW s \in Sockets, RestoreTells(s) PROVE Marks'
  BY <1>7 DEF RestoreTells, redisVars, socketVars, leaveVars
<1>8. ASSUME NEW s \in Sockets, RestoreFails(s) PROVE Marks'
  BY <1>8 DEF RestoreFails, RestoreFindsNothing, redisVars, leaveVars
<1>9. ASSUME NEW s \in Sockets, Leave(s) PROVE Marks'
  BY <1>9 DEF Leave, InRoom, redisVars, socketVars, restoreVars
<1>10. ASSUME NEW s \in Sockets, LeaveDeletes(s) PROVE Marks'
  BY <1>10 DEF LeaveDeletes, DestroyRoom, PartnerIdle, restoreVars
<1>11. ASSUME NEW s \in Sockets, LeaveEnds(s) PROVE Marks'
  BY <1>11 DEF LeaveEnds, redisVars, restoreVars
<1>12. ASSUME NEW u \in Users, NEW v \in Users, NEW r \in Rooms, Match(u, v, r) PROVE Marks'
  <2>1. Pairs'
    <3>1. live' = [live EXCEPT ![r] = {u, v}] /\ u # v
      BY <1>12 DEF Match
    <3> QED
      BY <3>1
  <2>2. (Partnered /\ Restoring /\ Ending)'
    BY <1>12, ConstantsAssumption DEF Match, Online, restoreVars, leaveVars
  <2> QED
    BY <2>1, <2>2
<1>13. ASSUME NEW u \in Users, GraceExpires(u) PROVE Marks'
  BY <1>13 DEF GraceExpires, redisVars, socketVars, restoreVars, leaveVars
<1>14. ASSUME NEW u \in Users, NEW why \in Reason, CleanupLooks(u, why) PROVE Marks'
  BY <1>14 DEF CleanupLooks, InRoom, redisVars, socketVars, restoreVars, leaveVars
<1>15. ASSUME NEW j \in jobs, DeletesFor(j) PROVE Marks'
  <2>1. CASE live[j.room] = {}
    BY <1>15, <2>1 DEF DeletesFor, redisVars, restoreVars, leaveVars
  <2>2. CASE live[j.room] # {}
    <3>1. DestroyRoom(j.room) /\ PartnerIdle(j.peer)
      BY <1>15, <2>2 DEF DeletesFor
    <3>2. UNCHANGED <<rpc, session, lpc, lRoom>>
      BY <1>15, <2>2 DEF DeletesFor, restoreVars, leaveVars
    <3>3. Partnered'
      BY <3>1 DEF PartnerIdle
    <3>4. Pairs'
      BY <3>1 DEF DestroyRoom
    <3> QED
      BY <3>2, <3>3, <3>4
  <2> QED
    BY <2>1, <2>2
<1>16. CASE CloseSite
  BY <1>16 DEF CloseSite, redisVars, restoreVars, leaveVars
<1>17. CASE OpenSite
  BY <1>17 DEF OpenSite, redisVars, socketVars, restoreVars, leaveVars
<1>18. CASE UNCHANGED vars
  BY <1>18 DEF vars, redisVars, socketVars, restoreVars, leaveVars
<1> QED
  BY <1>1, <1>2, <1>3, <1>4, <1>5, <1>6, <1>7, <1>8, <1>9, <1>10, <1>11, <1>12, <1>13,
        <1>14, <1>15, <1>16, <1>17, <1>18
  DEF Next, Restore, Leaving, Cleanup, CleanupDeletes

\* After a step nothing names another room than the one its user is in.
LEMMA PlacesNext == IInv /\ [Next]_vars => Places'
<1> SUFFICES ASSUME IInv, [Next]_vars PROVE Places'
  OBVIOUS
<1> USE DEF IInv, TypeOK, Places, Mapped, HeldRoom, RestoredRoom, ActiveRoom, Bookkeeping,
           Registry, Fresh, Looking, HeldAlone, Marks, Restoring, Ending
<1>1. ASSUME NEW u \in Users, NEW s \in Sockets, Arrive(u, s) PROVE Places'
  BY <1>1 DEF Arrive, NewSocket, redisVars, restoreVars
<1>2. ASSUME NEW u \in Users, NEW s \in Sockets, Return(u, s) PROVE Places'
  BY <1>2 DEF Return, NewSocket, redisVars
<1>3. ASSUME NEW s \in Sockets, Join(s) PROVE Places'
  BY <1>3 DEF Join, redisVars, restoreVars
<1>4. ASSUME NEW s \in Sockets, Drop(s) PROVE Places'
  BY <1>4 DEF Drop, Closed, redisVars, restoreVars
<1>5. ASSUME NEW s \in Sockets, Bye(s) PROVE Places'
  BY <1>5 DEF Bye, Closed, redisVars, restoreVars
<1>6. ASSUME NEW s \in Sockets, RestoreReads(s) PROVE Places'
  BY <1>6 DEF RestoreReads, RestoreFindsNothing, redisVars
<1>7. ASSUME NEW s \in Sockets, RestoreTells(s) PROVE Places'
  BY <1>7 DEF RestoreTells, redisVars, socketVars
<1>8. ASSUME NEW s \in Sockets, RestoreFails(s) PROVE Places'
  BY <1>8 DEF RestoreFails, RestoreFindsNothing, redisVars
<1>9. ASSUME NEW s \in Sockets, Leave(s) PROVE Places'
  BY <1>9 DEF Leave, InRoom, redisVars, socketVars, restoreVars
<1>10. ASSUME NEW s \in Sockets, LeaveDeletes(s) PROVE Places'
  BY <1>10 DEF LeaveDeletes, DestroyRoom, PartnerIdle, restoreVars
<1>11. ASSUME NEW s \in Sockets, LeaveEnds(s) PROVE Places'
  BY <1>11 DEF LeaveEnds, redisVars, restoreVars
<1>12. ASSUME NEW u \in Users, NEW v \in Users, NEW r \in Rooms, Match(u, v, r) PROVE Places'
  <2>1. PICK s \in Sockets, t \in Sockets :
            /\ Online(u, s) /\ Online(v, t)
            /\ state' = [state EXCEPT ![s] = "active", ![t] = "active"]
            /\ roomOf' = [roomOf EXCEPT ![s] = r, ![t] = r]
    BY <1>12 DEF Match
  <2>2. /\ live' = [live EXCEPT ![r] = {u, v}]
        /\ userRoom' = [userRoom EXCEPT ![u] = r, ![v] = r]
        /\ UNCHANGED <<held, rpc, session, owner, up, conn>>
    BY <1>12 DEF Match, restoreVars
  <2>3. \A q \in Rooms : u \notin live[q] /\ v \notin live[q]
    BY <1>12, ConstantsAssumption DEF Match
  <2>4. \A q \in Rooms : \A w \in live'[q] :
            \/ q = r /\ w \in {u, v}
            \/ w \in live[q] /\ w \notin {u, v}
    BY <2>2, <2>3
  <2>5. Mapped'
    BY <2>2, <2>4
  <2>6. held[u] = None /\ held[v] = None
    BY <2>1 DEF Online
  <2>7. HeldRoom'
    BY <2>2, <2>4, <2>6
  <2>8. \A x \in Sockets : rpc[x] = "room" => owner[x] \notin {u, v}
    BY <1>12, ConstantsAssumption DEF Match, Online
  <2>9. RestoredRoom'
    BY <2>2, <2>4, <2>8
  <2>10. \A x \in Sockets : up[x] /\ owner[x] \in {u, v} => x \in {s, t}
    BY <2>1 DEF Online
  <2>11. ActiveRoom'
    BY <2>1, <2>2, <2>4, <2>10 DEF Online
  <2> QED
    BY <2>5, <2>7, <2>9, <2>11
<1>13. ASSUME NEW u \in Users, GraceExpires(u) PROVE Places'
  BY <1>13 DEF GraceExpires, redisVars, socketVars, restoreVars
<1>14. ASSUME NEW u \in Users, NEW why \in Reason, CleanupLooks(u, why) PROVE Places'
  BY <1>14 DEF CleanupLooks, InRoom, redisVars, socketVars, restoreVars
<1>15. ASSUME NEW j \in jobs, DeletesFor(j) PROVE Places'
  <2>1. CASE live[j.room] = {}
    BY <1>15, <2>1 DEF DeletesFor, redisVars, restoreVars
  <2>2. CASE live[j.room] # {}
    <3>1. /\ live' = [live EXCEPT ![j.room] = {}]
          /\ userRoom' = [u \in Users |-> IF u \in live[j.room] THEN None ELSE userRoom[u]]
          /\ UNCHANGED <<held, rpc, session, owner, up, conn>>
      BY <1>15, <2>2 DEF DeletesFor, DestroyRoom, restoreVars
    <3>2. j.room \in Rooms
      BY <1>15 DEF DeletesFor, Job
    <3>3. \A r \in Rooms : live'[r] \subseteq live[r] /\ live'[r] \cap live[j.room] = {}
      BY <3>1, <3>2
    <3>4. Mapped'
      BY <3>1, <3>3
    <3>5. HeldRoom' /\ RestoredRoom'
      BY <3>1, <3>3
    <3>6. \A s \in Sockets : state'[s] = "active" => state[s] = "active" /\ roomOf'[s] = roomOf[s]
      <4>1. PartnerIdle(j.peer)
        BY <1>15, <2>2 DEF DeletesFor
      <4> QED
        BY <4>1 DEF PartnerIdle
    <3>7. ActiveRoom'
      BY <3>1, <3>3, <3>6
    <3> QED
      BY <3>4, <3>5, <3>7
  <2> QED
    BY <2>1, <2>2
<1>16. CASE CloseSite
  BY <1>16 DEF CloseSite, redisVars, restoreVars
<1>17. CASE OpenSite
  BY <1>17 DEF OpenSite, redisVars, socketVars, restoreVars
<1>18. CASE UNCHANGED vars
  BY <1>18 DEF vars, redisVars, socketVars, restoreVars
<1> QED
  BY <1>1, <1>2, <1>3, <1>4, <1>5, <1>6, <1>7, <1>8, <1>9, <1>10, <1>11, <1>12, <1>13,
        <1>14, <1>15, <1>16, <1>17, <1>18
  DEF Next, Restore, Leaving, Cleanup, CleanupDeletes

\* After a step somebody is answerable for every member of every room.
LEMMA AttendedNext == IInv /\ [Next]_vars => RoomAttended'
<1> SUFFICES ASSUME IInv, [Next]_vars PROVE RoomAttended'
  OBVIOUS
<1> USE DEF IInv, TypeOK, RoomAttended, Answerable, Places, Mapped, ActiveRoom,
           Bookkeeping, Registry
<1>1. ASSUME NEW u \in Users, NEW s \in Sockets, Arrive(u, s) PROVE RoomAttended'
  BY <1>1 DEF Arrive, NewSocket, redisVars
<1>2. ASSUME NEW u \in Users, NEW s \in Sockets, Return(u, s) PROVE RoomAttended'
  BY <1>2, ConstantsAssumption DEF Return, NewSocket, redisVars
<1>3. ASSUME NEW s \in Sockets, Join(s) PROVE RoomAttended'
  BY <1>3 DEF Join, redisVars
<1>4. ASSUME NEW s \in Sockets, Drop(s) PROVE RoomAttended'
  <2> SUFFICES ASSUME NEW r \in Rooms, NEW w \in live[r] PROVE Answerable(w, r)'
    BY <1>4 DEF Drop, Closed, redisVars
  <2>1. CASE w # owner[s]
    BY <1>4, <2>1 DEF Drop, Closed, redisVars
  <2>2. CASE w = owner[s] /\ state[s] = "active" /\ roomOf[s] # None
    <3>1. held'[w] = [room |-> roomOf[s], peer |-> partnerOf[s]] /\ partnerOf[s] # None
      BY <1>4, <2>2 DEF Drop, Closed, Marks, Partnered
    <3>2. roomOf[s] = r
      BY <1>4, <2>2 DEF Drop, Closed
    <3> QED
      BY <3>1, <3>2, ConstantsAssumption
  <2>3. CASE w = owner[s] /\ ~(state[s] = "active" /\ roomOf[s] # None)
    <3>1. CleanupOf(w, "drop") \in jobs'
      BY <1>4, <2>3 DEF Drop
    <3> QED
      BY <3>1, CleanupOfFields DEF Reason
  <2> QED
    BY <2>1, <2>2, <2>3
<1>5. ASSUME NEW s \in Sockets, Bye(s) PROVE RoomAttended'
  <2> SUFFICES ASSUME NEW r \in Rooms, NEW w \in live[r] PROVE Answerable(w, r)'
    BY <1>5 DEF Bye, Closed, redisVars
  <2>1. CASE w = owner[s]
    <3>1. CleanupOf(w, "bye") \in jobs'
      BY <1>5, <2>1 DEF Bye
    <3> QED
      BY <3>1, CleanupOfFields DEF Reason
  <2>2. CASE w # owner[s]
    BY <1>5, <2>2 DEF Bye, Closed, redisVars
  <2> QED
    BY <2>1, <2>2
<1>6. ASSUME NEW s \in Sockets, RestoreReads(s) PROVE RoomAttended'
  BY <1>6 DEF RestoreReads, RestoreFindsNothing, redisVars
<1>7. ASSUME NEW s \in Sockets, RestoreTells(s) PROVE RoomAttended'
  BY <1>7 DEF RestoreTells, redisVars
<1>8. ASSUME NEW s \in Sockets, RestoreFails(s) PROVE RoomAttended'
  BY <1>8 DEF RestoreFails, RestoreFindsNothing, redisVars
<1>9. ASSUME NEW s \in Sockets, Leave(s) PROVE RoomAttended'
  BY <1>9 DEF Leave, InRoom, redisVars
<1>10. ASSUME NEW s \in Sockets, LeaveDeletes(s) PROVE RoomAttended'
  BY <1>10 DEF LeaveDeletes, DestroyRoom, PartnerIdle
<1>11. ASSUME NEW s \in Sockets, LeaveEnds(s) PROVE RoomAttended'
  BY <1>11 DEF LeaveEnds, redisVars
<1>12. ASSUME NEW u \in Users, NEW v \in Users, NEW r \in Rooms, Match(u, v, r) PROVE RoomAttended'
  BY <1>12 DEF Match, Online
<1>13. ASSUME NEW u \in Users, GraceExpires(u) PROVE RoomAttended'
  <2> SUFFICES ASSUME NEW r \in Rooms, NEW w \in live[r] PROVE Answerable(w, r)'
    BY <1>13 DEF GraceExpires, redisVars
  <2>1. CASE w = u
    <3>1. CleanupOf(w, "grace") \in jobs'
      BY <1>13, <2>1 DEF GraceExpires
    <3> QED
      BY <3>1, CleanupOfFields DEF Reason
  <2>2. CASE w # u
    BY <1>13, <2>2 DEF GraceExpires, redisVars
  <2> QED
    BY <2>1, <2>2
<1>14. ASSUME NEW u \in Users, NEW why \in Reason, CleanupLooks(u, why) PROVE RoomAttended'
  <2> SUFFICES ASSUME NEW r \in Rooms, NEW w \in live[r] PROVE Answerable(w, r)'
    BY <1>14 DEF CleanupLooks, redisVars
  <2>1. CASE w = u
    <3>1. InRoom(u) /\ userRoom[u] = r
      BY <2>1, ConstantsAssumption DEF InRoom
    <3>2. [user |-> u, why |-> why, room |-> r, peer |-> Other(u, r)] \in jobs'
      BY <1>14, <3>1 DEF CleanupLooks
    <3>3. \E j \in jobs' : j.room = r
      BY <3>2
    <3> QED
      BY <3>3
  <2>2. CASE w # u
    <3>1. \A j \in jobs : j # CleanupOf(u, why) => j \in jobs'
      BY <1>14 DEF CleanupLooks
    <3>2. CleanupOf(u, why).user = u /\ CleanupOf(u, why).room = None
      BY DEF CleanupOf
    <3> QED
      BY <1>14, <2>2, <3>1, <3>2, ConstantsAssumption DEF CleanupLooks, redisVars
  <2> QED
    BY <2>1, <2>2
<1>15. ASSUME NEW j \in jobs, DeletesFor(j) PROVE RoomAttended'
  <2>1. j.room \in Rooms /\ live'[j.room] = {}
    BY <1>15 DEF DeletesFor, DestroyRoom, redisVars, Job
  <2>2. \A r \in Rooms : live'[r] \subseteq live[r]
    BY <1>15 DEF DeletesFor, DestroyRoom, redisVars
  <2>3. UNCHANGED <<conn, held>> /\ jobs' = jobs \ {j}
    BY <1>15 DEF DeletesFor
  <2> SUFFICES ASSUME NEW r \in Rooms, NEW w \in live'[r] PROVE Answerable(w, r)'
    OBVIOUS
  <2>4. r # j.room /\ w \in live[r]
    BY <2>1, <2>2
  <2>5. ~(j.room = r \/ (j.user = w /\ j.room = None))
    BY <2>1, <2>4, ConstantsAssumption
  <2> QED
    BY <2>3, <2>4, <2>5
<1>16. CASE CloseSite
  BY <1>16 DEF CloseSite, redisVars
<1>17. CASE OpenSite
  BY <1>17 DEF OpenSite, redisVars
<1>18. CASE UNCHANGED vars
  BY <1>18 DEF vars, redisVars
<1> QED
  BY <1>1, <1>2, <1>3, <1>4, <1>5, <1>6, <1>7, <1>8, <1>9, <1>10, <1>11, <1>12, <1>13,
        <1>14, <1>15, <1>16, <1>17, <1>18
  DEF Next, Restore, Leaving, Cleanup, CleanupDeletes

\* Nothing has happened yet.
LEMMA InitIInv == Init => IInv
<1> SUFFICES ASSUME Init PROVE IInv
  OBVIOUS
<1>1. TypeOK
  BY DEF Init, TypeOK
<1>2. Bookkeeping /\ Marks /\ Places /\ RoomAttended
  BY DEF Init, Bookkeeping, Registry, Fresh, Newcomer, Looking, HeldAlone, Marks, Partnered,
         Restoring, Ending, Pairs, Places, Mapped, HeldRoom, RestoredRoom, ActiveRoom,
         RoomAttended
<1> QED
  BY <1>1, <1>2 DEF IInv

\* The invariant holds in every reachable state.
LEMMA IInvHolds == Spec => []IInv
<1>1. IInv /\ [Next]_vars => IInv'
  <2> SUFFICES ASSUME IInv, [Next]_vars PROVE IInv'
    OBVIOUS
  <2>1. TypeOK'
    BY TypeNext DEF IInv, Bookkeeping, Marks
  <2> QED
    BY <2>1, BookkeepingNext, MarksNext, PlacesNext, AttendedNext DEF IInv
<1> QED
  BY InitIInv, <1>1, PTL DEF Spec

\* Every reachable state is well typed; a held session always knows its room and partner.
THEOREM TypeCorrect == Spec => []TypeOK
<1>1. IInv => TypeOK
  BY DEF IInv
<1> QED
  BY <1>1, IInvHolds, PTL

\* A drop is answered by a restore or by a teardown, never by both: a user who is back is
\* not held and no grace teardown of it runs.
THEOREM HeldStaysAlone == Spec => []HeldAlone
<1>1. IInv => HeldAlone
  BY DEF IInv, Bookkeeping
<1> QED
  BY <1>1, IInvHolds, PTL

\* No room is left to its TTL: every member has a socket, a held session for that room or
\* a handler on its way to end the room.
THEOREM RoomsAttended == Spec => []RoomAttended
<1>1. IInv => RoomAttended
  BY DEF IInv
<1> QED
  BY <1>1, IInvHolds, PTL
=============================================================================
