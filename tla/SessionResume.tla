--------------------------- MODULE SessionResume ---------------------------
(***************************************************************************)
(* What happens to a chat when a connection drops: the held sessions of    *)
(* services/chat/sessionResume.ts, and handleDisconnection, restoreSession *)
(* and applyMaintenanceState of handlers/socketio/index.ts, with the leave *)
(* and cleanup handlers of room.handler.ts that race with them.            *)
(*                                                                         *)
(* Granularity.  A step runs from one await to the next.  Kept apart are   *)
(* the awaits that may be long or that race here: the room lookup and the  *)
(* ICE request of a restore, the archive written between a handler's room  *)
(* lookup and the deletion, the partner history saved after it.  A match   *)
(* is one step (Matchmaking has its details), and so is a deletion with    *)
(* the notice to the partner, which follows within a few round trips.      *)
(*                                                                         *)
(* A user is a uid.  It gets a socket when it arrives and another one each *)
(* time it resumes; a browser that comes back without a held session gets  *)
(* a uid that was never used, that is, it is another user.                 *)
(***************************************************************************)
EXTENDS Naturals, FiniteSets

CONSTANTS
    Users,          \* uids
    Sockets,        \* sockets, each used once
    Rooms,          \* room ids, each used once
    None,           \* no user, socket, room or held session
    Leavers,        \* users who may press leave
    MaxEvents,      \* bound: drops, goodbyes, leaves and maintenance toggles
    MaxFaults       \* bound: room lookups that fail

ASSUME ConstantsAssumption ==
    /\ None \notin Users \cup Sockets \cup Rooms \cup [room : Rooms, peer : Users]
    /\ Leavers \subseteq Users
    /\ MaxEvents \in Nat /\ MaxFaults \in Nat

VARIABLES
    \* Redis
    live,           \* 'room:<id>': its two members, {} when the key is absent
    used,           \* room ids handed out so far
    userRoom,       \* 'user:room:<uid>'
    \* sockets: uid, connected, state, roomId, partnerId
    owner, up, state, roomOf, partnerOf,
    \* what the client behind the socket was told last: the room it shows, and
    \* whether it shows its partner as reconnecting
    shows, away,
    conn,           \* the connections map: uid to socket
    held,           \* PendingSessionRegistry: uid to session, its timer running
    open,           \* maintenanceService.isOpen()
    \* restoreSession, per socket
    rpc, session,
    \* handleLeave, per socket
    lpc, lRoom, lPeer,
    jobs,           \* runs of cleanupUserOnDisconnect
    events, faults  \* bounds

redisVars == <<live, used, userRoom>>
socketVars == <<owner, up, state, roomOf, partnerOf>>
clientVars == <<shows, away>>
restoreVars == <<rpc, session>>
leaveVars == <<lpc, lRoom, lPeer>>
boundVars == <<events, faults>>
vars == <<redisVars, socketVars, clientVars, conn, held, open, restoreVars, leaveVars,
          jobs, boundVars>>

Session == [room : Rooms, peer : Users]
\* Why a cleanup runs: the network dropped and nothing was held, the client closed, the
\* grace window ended, the site was closed.
Reason == {"drop", "bye", "grace", "maintenance"}
\* Where it is: about to look for the user's room, or about to delete the one it found.
Job == [user : Users, why : Reason, room : Rooms \cup {None}, peer : Users \cup {None}]

TypeOK ==
    /\ live \in [Rooms -> SUBSET Users]
    /\ used \subseteq Rooms
    /\ userRoom \in [Users -> Rooms \cup {None}]
    /\ owner \in [Sockets -> Users \cup {None}]
    /\ up \in [Sockets -> BOOLEAN]
    /\ state \in [Sockets -> {"idle", "queue", "active"}]
    /\ roomOf \in [Sockets -> Rooms \cup {None}]
    /\ partnerOf \in [Sockets -> Users \cup {None}]
    /\ shows \in [Sockets -> Rooms \cup {None}]
    /\ away \in [Sockets -> BOOLEAN]
    /\ conn \in [Users -> Sockets \cup {None}]
    /\ held \in [Users -> Session \cup {None}]
    /\ open \in BOOLEAN
    /\ rpc \in [Sockets -> {"none", "room", "mint"}]
    /\ session \in [Sockets -> Session \cup {None}]
    /\ lpc \in [Sockets -> {"none", "delete", "end"}]
    /\ lRoom \in [Sockets -> Rooms \cup {None}]
    /\ lPeer \in [Sockets -> Users \cup {None}]
    /\ jobs \subseteq Job
    /\ events \in Nat
    /\ faults \in Nat

Init ==
    /\ live = [r \in Rooms |-> {}]
    /\ used = {}
    /\ userRoom = [u \in Users |-> None]
    /\ owner = [s \in Sockets |-> None]
    /\ up = [s \in Sockets |-> FALSE]
    /\ state = [s \in Sockets |-> "idle"]
    /\ roomOf = [s \in Sockets |-> None]
    /\ partnerOf = [s \in Sockets |-> None]
    /\ shows = [s \in Sockets |-> None]
    /\ away = [s \in Sockets |-> FALSE]
    /\ conn = [u \in Users |-> None]
    /\ held = [u \in Users |-> None]
    /\ open = TRUE
    /\ rpc = [s \in Sockets |-> "none"]
    /\ session = [s \in Sockets |-> None]
    /\ lpc = [s \in Sockets |-> "none"]
    /\ lRoom = [s \in Sockets |-> None]
    /\ lPeer = [s \in Sockets |-> None]
    /\ jobs = {}
    /\ events = 0
    /\ faults = 0
-----------------------------------------------------------------------------
Happens == events < MaxEvents /\ events' = events + 1

\* The registered, connected socket of u is s.
Online(u, s) == conn[u] = s /\ s # None /\ up[s]

\* Sockets and room ids are used up one after the other; which one comes next is of no
\* consequence.
NewSocket(s) == owner[s] = None /\ s = CHOOSE t \in Sockets : owner[t] = None
NewRoom(r) == r \notin used /\ r = CHOOSE q \in Rooms : q \notin used

InRoom(u) == userRoom[u] # None /\ live[userRoom[u]] # {}

Other(u, r) == CHOOSE p \in live[r] : p # u

DestroyRoom(r) ==
    /\ userRoom' = [u \in Users |-> IF u \in live[r] THEN None ELSE userRoom[u]]
    /\ live' = [live EXCEPT ![r] = {}]
    /\ UNCHANGED used

\* A handler that ended a room resets the partner's socket, whatever it is doing by
\* now, and tells its client that the chat is over.
PartnerIdle(p) ==
    /\ state' = [s \in Sockets |-> IF Online(p, s) THEN "idle" ELSE state[s]]
    /\ roomOf' = [s \in Sockets |-> IF Online(p, s) THEN None ELSE roomOf[s]]
    /\ partnerOf' = [s \in Sockets |-> IF Online(p, s) THEN None ELSE partnerOf[s]]
    /\ shows' = [s \in Sockets |-> IF Online(p, s) THEN None ELSE shows[s]]
    /\ away' = [s \in Sockets |-> IF Online(p, s) THEN FALSE ELSE away[s]]

\* A client connects without a session to resume and sends its first join.
Arrive(u, s) ==
    /\ open
    /\ NewSocket(s)
    /\ \A t \in Sockets : owner[t] # u
    /\ owner' = [owner EXCEPT ![s] = u]
    /\ up' = [up EXCEPT ![s] = TRUE]
    /\ state' = [state EXCEPT ![s] = "queue"]
    /\ conn' = [conn EXCEPT ![u] = s]
    /\ UNCHANGED <<redisVars, roomOf, partnerOf, clientVars, held, open, restoreVars,
                   leaveVars, jobs, boundVars>>

\* join of a socket between two chats.  Its room lookup is behind a restore's, and a
\* leave that is still running is ahead of it in the socket's chain.
Join(s) ==
    /\ open
    /\ up[s] /\ state[s] = "idle"
    /\ rpc[s] # "room" /\ lpc[s] = "none"
    /\ ~InRoom(owner[s])
    /\ state' = [state EXCEPT ![s] = "queue"]
    /\ UNCHANGED <<redisVars, owner, up, roomOf, partnerOf, clientVars, conn, held, open,
                   restoreVars, leaveVars, jobs, boundVars>>

\* What was started before a user's join is over when the join is matched: a cleanup's
\* lookup takes two or three replies, the end of a leave three, a join and a match more.
JoinedAfter(u) ==
    /\ \A s \in Sockets : lpc[s] # "end"
    /\ \A j \in jobs : j.user = u => j.room # None

\* createAndNotifyMatch for two waiting users.
Match(u, v, r) ==
    /\ u # v /\ NewRoom(r)
    /\ JoinedAfter(u) /\ JoinedAfter(v)
    /\ userRoom[u] = None /\ userRoom[v] = None
    /\ \E s, t \in Sockets :
        /\ Online(u, s) /\ Online(v, t)
        /\ state[s] = "queue" /\ state[t] = "queue"
        /\ state' = [state EXCEPT ![s] = "active", ![t] = "active"]
        /\ roomOf' = [roomOf EXCEPT ![s] = r, ![t] = r]
        /\ partnerOf' = [partnerOf EXCEPT ![s] = v, ![t] = u]
        /\ shows' = [shows EXCEPT ![s] = r, ![t] = r]
        /\ away' = [away EXCEPT ![s] = FALSE, ![t] = FALSE]
    /\ live' = [live EXCEPT ![r] = {u, v}]
    /\ userRoom' = [userRoom EXCEPT ![u] = r, ![v] = r]
    /\ used' = used \cup {r}
    /\ UNCHANGED <<owner, up, conn, held, open, restoreVars, leaveVars, jobs, boundVars>>

-----------------------------------------------------------------------------
(* A connection ends.                                                       *)

CleanupOf(u, why) == [user |-> u, why |-> why, room |-> None, peer |-> None]

\* The socket is gone and its registry entry with it.
Closed(s) ==
    /\ up[s]
    /\ Happens
    /\ up' = [up EXCEPT ![s] = FALSE]
    /\ conn' = [u \in Users |-> IF conn[u] = s THEN None ELSE conn[u]]
    /\ UNCHANGED <<redisVars, owner, state, roomOf, partnerOf, shows, open, restoreVars,
                   leaveVars, faults>>

\* Mutant of Drop: a socket in state 'idle' is thought to need no cleanup.
DropIdleIgnored(s) ==
    /\ Closed(s)
    /\ IF state[s] = "active" /\ roomOf[s] # None
       THEN /\ held' = [held EXCEPT ![owner[s]] = [room |-> roomOf[s],
                                                   peer |-> partnerOf[s]]]
            /\ away' = [t \in Sockets |-> Online(partnerOf[s], t) \/ away[t]]
            /\ UNCHANGED jobs
       ELSE /\ jobs' = jobs \cup {CleanupOf(owner[s], "drop") : x \in {state[s]} \ {"idle"}}
            /\ UNCHANGED <<held, away>>

\* The network dropped.  An active chat is held and the partner told to wait; anything
\* else is cleaned up at once.
Drop(s) ==
    /\ Closed(s)
    /\ IF state[s] = "active" /\ roomOf[s] # None
       THEN /\ held' = [held EXCEPT ![owner[s]] = [room |-> roomOf[s],
                                                   peer |-> partnerOf[s]]]
            /\ away' = [t \in Sockets |-> Online(partnerOf[s], t) \/ away[t]]
            /\ UNCHANGED jobs
       ELSE /\ jobs' = jobs \cup {CleanupOf(owner[s], "drop")}
            /\ UNCHANGED <<held, away>>

\* The client, or the server, closed the connection on purpose.
Bye(s) ==
    /\ Closed(s)
    /\ jobs' = jobs \cup {CleanupOf(owner[s], "bye")}
    /\ UNCHANGED <<held, away>>

\* Mutant of GraceExpires: the timer runs the teardown but leaves the session in the
\* registry, where a late client can still claim it.
GraceExpiresHeld(u) ==
    /\ held[u] # None
    /\ CleanupOf(u, "grace") \notin jobs
    /\ jobs' = jobs \cup {CleanupOf(u, "grace")}
    /\ UNCHANGED <<redisVars, socketVars, clientVars, conn, held, open, restoreVars,
                   leaveVars, boundVars>>

\* Mutant of GraceExpires: the session is released without its teardown.
GraceForgets(u) ==
    /\ held[u] # None
    /\ held' = [held EXCEPT ![u] = None]
    /\ UNCHANGED <<redisVars, socketVars, clientVars, conn, open, restoreVars, leaveVars,
                   jobs, boundVars>>

\* The timer of a held session fires: the session is forgotten and torn down.
GraceExpires(u) ==
    /\ held[u] # None
    /\ held' = [held EXCEPT ![u] = None]
    /\ jobs' = jobs \cup {CleanupOf(u, "grace")}
    /\ UNCHANGED <<redisVars, socketVars, clientVars, conn, open, restoreVars, leaveVars,
                   boundVars>>

\* A client comes back with the token of a held session: the uid is its own again, the
\* session is claimed and its timer cancelled, and the room is looked up.
Return(u, s) ==
    /\ NewSocket(s)
    /\ held[u] # None
    /\ owner' = [owner EXCEPT ![s] = u]
    /\ up' = [up EXCEPT ![s] = TRUE]
    /\ conn' = [conn EXCEPT ![u] = s]
    /\ held' = [held EXCEPT ![u] = None]
    /\ session' = [session EXCEPT ![s] = held[u]]
    /\ rpc' = [rpc EXCEPT ![s] = "room"]
    /\ UNCHANGED <<redisVars, state, roomOf, partnerOf, clientVars, open, leaveVars, jobs,
                   boundVars>>

\* No room: the client is told that the chat is over.
RestoreFindsNothing(s) ==
    /\ state' = [state EXCEPT ![s] = "idle"]
    /\ shows' = [shows EXCEPT ![s] = None]
    /\ rpc' = [rpc EXCEPT ![s] = "none"]
    /\ session' = [session EXCEPT ![s] = None]
    /\ UNCHANGED <<roomOf, partnerOf>>

\* getRoom answers, also when the socket is gone again.  A live room makes the socket
\* active, and ICE is requested.
RestoreReads(s) ==
    /\ rpc[s] = "room"
    /\ IF live[session[s].room] = {}
       THEN RestoreFindsNothing(s)
       ELSE /\ state' = [state EXCEPT ![s] = "active"]
            /\ roomOf' = [roomOf EXCEPT ![s] = session[s].room]
            /\ partnerOf' = [partnerOf EXCEPT ![s] = session[s].peer]
            /\ rpc' = [rpc EXCEPT ![s] = "mint"]
            /\ UNCHANGED <<session, shows>>
    /\ UNCHANGED <<redisVars, owner, up, away, conn, held, open, leaveVars, jobs,
                   boundVars>>

\* getRoom fails; it answers null like a room that is gone.
RestoreFails(s) ==
    /\ rpc[s] = "room"
    /\ faults < MaxFaults
    /\ faults' = faults + 1
    /\ RestoreFindsNothing(s)
    /\ UNCHANGED <<redisVars, owner, up, away, conn, held, open, leaveVars, jobs, events>>

\* Mutant of RestoreTells: the partner is not told.
RestoreTellsSelf(s) ==
    /\ rpc[s] = "mint"
    /\ shows' = [shows EXCEPT ![s] = IF up[s] THEN session[s].room ELSE @]
    /\ away' = [away EXCEPT ![s] = FALSE]
    /\ rpc' = [rpc EXCEPT ![s] = "none"]
    /\ session' = [session EXCEPT ![s] = None]
    /\ UNCHANGED <<redisVars, socketVars, conn, held, open, leaveVars, jobs, boundVars>>

\* ICE arrived: 'reconnected' goes to the socket and 'partner_reconnected' to whatever
\* socket the partner has now; neither looks at the room again.
RestoreTells(s) ==
    /\ rpc[s] = "mint"
    /\ shows' = [shows EXCEPT ![s] = IF up[s] THEN session[s].room ELSE @]
    /\ away' = [t \in Sockets |-> IF t = s \/ Online(session[s].peer, t)
                                  THEN FALSE ELSE away[t]]
    /\ rpc' = [rpc EXCEPT ![s] = "none"]
    /\ session' = [session EXCEPT ![s] = None]
    /\ UNCHANGED <<redisVars, socketVars, conn, held, open, leaveVars, jobs, boundVars>>

-----------------------------------------------------------------------------
(* The ways a room ends.                                                    *)

\* leave: the room is looked up and archived; without a room nothing happens.
Leave(s) ==
    /\ up[s] /\ owner[s] \in Leavers
    /\ lpc[s] = "none" /\ InRoom(owner[s])
    /\ Happens
    /\ lpc' = [lpc EXCEPT ![s] = "delete"]
    /\ lRoom' = [lRoom EXCEPT ![s] = userRoom[owner[s]]]
    /\ lPeer' = [lPeer EXCEPT ![s] = Other(owner[s], userRoom[owner[s]])]
    /\ UNCHANGED <<redisVars, socketVars, clientVars, conn, held, open, restoreVars, jobs,
                   faults>>

\* The room is deleted if it is still there; the partner is reset in any case.
LeaveDeletes(s) ==
    /\ lpc[s] = "delete"
    /\ DestroyRoom(lRoom[s])
    /\ PartnerIdle(lPeer[s])
    /\ lpc' = [lpc EXCEPT ![s] = "end"]
    /\ lRoom' = [lRoom EXCEPT ![s] = None]
    /\ lPeer' = [lPeer EXCEPT ![s] = None]
    /\ UNCHANGED <<owner, up, conn, held, open, restoreVars, jobs, boundVars>>

\* The partner history is saved; the leaver's own socket is reset.
LeaveEnds(s) ==
    /\ lpc[s] = "end"
    /\ lpc' = [lpc EXCEPT ![s] = "none"]
    /\ state' = [state EXCEPT ![s] = "idle"]
    /\ roomOf' = [roomOf EXCEPT ![s] = None]
    /\ partnerOf' = [partnerOf EXCEPT ![s] = None]
    /\ shows' = [shows EXCEPT ![s] = None]
    /\ away' = [away EXCEPT ![s] = FALSE]
    /\ UNCHANGED <<redisVars, owner, up, conn, held, open, restoreVars, lRoom, lPeer,
                   jobs, boundVars>>

\* cleanupUserOnDisconnect looks for the user's room (and archives it).
CleanupLooks(u, why) ==
    /\ CleanupOf(u, why) \in jobs
    /\ jobs' = (jobs \ {CleanupOf(u, why)}) \cup
               IF InRoom(u)
               THEN {[user |-> u, why |-> why, room |-> userRoom[u],
                      peer |-> Other(u, userRoom[u])]}
               ELSE {}
    /\ UNCHANGED <<redisVars, socketVars, clientVars, conn, held, open, restoreVars,
                   leaveVars, boundVars>>

\* removeUserFromRoom: a room that is gone by now is none of its business, else the room
\* is deleted and the partner reset.
DeletesFor(j) ==
    /\ j.room # None
    /\ jobs' = jobs \ {j}
    /\ IF live[j.room] = {}
       THEN UNCHANGED <<redisVars, state, roomOf, partnerOf, clientVars>>
       ELSE DestroyRoom(j.room) /\ PartnerIdle(j.peer)
    /\ UNCHANGED <<owner, up, conn, held, open, restoreVars, leaveVars, boundVars>>

CleanupDeletes(u, why) == \E j \in jobs : j.user = u /\ j.why = why /\ DeletesFor(j)

\* Maintenance begins: every registered socket is reset and told, and the rooms of the
\* active ones are cleaned up.  Held sessions have no socket.
CloseSite ==
    /\ open
    /\ Happens
    /\ open' = FALSE
    /\ LET there == {s \in Sockets : \E u \in Users : Online(u, s)}
       IN /\ jobs' = jobs \cup {CleanupOf(owner[s], "maintenance") :
                                  s \in {x \in there : state[x] = "active" /\ roomOf[x] # None}}
          /\ state' = [s \in Sockets |-> IF s \in there THEN "idle" ELSE state[s]]
          /\ roomOf' = [s \in Sockets |-> IF s \in there THEN None ELSE roomOf[s]]
          /\ partnerOf' = [s \in Sockets |-> IF s \in there THEN None ELSE partnerOf[s]]
          /\ shows' = [s \in Sockets |-> IF s \in there THEN None ELSE shows[s]]
          /\ away' = [s \in Sockets |-> IF s \in there THEN FALSE ELSE away[s]]
    /\ UNCHANGED <<redisVars, owner, up, conn, held, restoreVars, leaveVars, faults>>

OpenSite ==
    /\ ~open
    /\ Happens
    /\ open' = TRUE
    /\ UNCHANGED <<redisVars, socketVars, clientVars, conn, held, restoreVars, leaveVars,
                   jobs, faults>>

-----------------------------------------------------------------------------
Restore(s) == RestoreReads(s) \/ RestoreTells(s)
Leaving(s) == LeaveDeletes(s) \/ LeaveEnds(s)
Cleanup(u, why) == CleanupLooks(u, why) \/ CleanupDeletes(u, why)

Next ==
    \/ \E s \in Sockets :
        \/ \E u \in Users : Arrive(u, s) \/ Return(u, s)
        \/ Join(s) \/ Drop(s) \/ Bye(s)
        \/ Restore(s) \/ RestoreFails(s)
        \/ Leave(s) \/ Leaving(s)
    \/ \E u, v \in Users, r \in Rooms : Match(u, v, r)
    \/ \E u \in Users : GraceExpires(u) \/ \E why \in Reason : Cleanup(u, why)
    \/ CloseSite \/ OpenSite

Spec == Init /\ [][Next]_vars

\* Redis and the ICE provider answer, and timers fire.  Clients owe nothing.
Fairness ==
    /\ \A s \in Sockets : WF_vars(Restore(s)) /\ WF_vars(Leaving(s))
    /\ \A u \in Users : /\ WF_vars(GraceExpires(u))
                        /\ \A why \in Reason : WF_vars(Cleanup(u, why))

FairSpec == Spec /\ Fairness
-----------------------------------------------------------------------------
(* Properties.                                                              *)

\* A held session stands for a user who is not there and whose teardown has not begun,
\* and a teardown after the grace window for one who cannot come back: a drop is
\* answered by a restore or by a teardown, never by both.
HeldAlone ==
    \A u \in Users :
        /\ held[u] # None => conn[u] = None /\ \A j \in jobs : j.user = u => j.why # "grace"
        /\ \A j \in jobs : j.user = u /\ j.why = "grace" => conn[u] = None

\* Somebody is answerable for every member of a room: a socket in the registry, a held
\* session, or a handler that is about to end the room.  No room is left to its TTL.
Answerable(u, r) ==
    \/ conn[u] # None
    \/ held[u] # None /\ held[u].room = r
    \/ \E j \in jobs : j.room = r \/ (j.user = u /\ j.room = None)

RoomAttended == \A r \in Rooms : \A u \in live[r] : Answerable(u, r)

\* A connected client in a live room that was told to wait for its partner.
Waiting(s) == up[s] /\ away[s] /\ shows[s] # None /\ owner[s] \in live[shows[s]]

\* A partner who sees "reconnecting" in a live chat does not see it forever: the other
\* comes back or the chat ends, unless a call to Redis has failed.
AwayResolves == \A s \in Sockets : Waiting(s) ~> ~Waiting(s) \/ faults > 0

\* A room whose members are both gone is deleted, or one of them returns.
EmptyRoomEnds ==
    \A r \in Rooms :
        (\A u \in live[r] : conn[u] = None) ~> live[r] = {} \/ \E u \in live[r] : conn[u] # None

\* A client that shows a chat, and whose own restore and leave are done, is in that
\* room: 'reconnected' puts it "back into the room they dropped out of".
ShowsLiveRoom ==
    \A s \in Sockets : up[s] /\ rpc[s] = "none" /\ lpc[s] = "none" /\ shows[s] # None
                          => owner[s] \in live[shows[s]]

\* While the site is open a network drop never ends a chat by itself: only a leave, a
\* goodbye or a grace window that ran out does.
DropsAreHeld == open => \A j \in jobs : j.why = "drop" => j.room = None

\* A member of a room that nobody is ending has an active socket, once its restore has
\* looked: a handler that ends a room resets nobody in another one.
MemberStaysActive ==
    \A r \in Rooms : \A u \in live[r], s \in Sockets :
        Online(u, s) /\ rpc[s] # "room" /\ (\A j \in jobs : j.user \notin live[r])
            => state[s] = "active"

\* Once the site is closed and its cleanups are done, nobody is in a chat.
ClosedEndsChats ==
    ~open /\ jobs = {} => \A s \in Sockets : up[s] => state[s] # "active"

\* A client in a chat with a partner whose session is held has been told to wait.
HeldPartnerShown ==
    \A r \in Rooms : \A u, v \in live[r], s \in Sockets :
        held[u] # None /\ Online(v, s) /\ shows[s] = r => away[s]
=============================================================================
