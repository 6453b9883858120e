----------------------------- MODULE AdminFeed -----------------------------
(***************************************************************************)
(* The users and rooms that a dashboard shows (useAdminSocket.ts) against  *)
(* those the server has: the updates that admin.handler.ts sends at once   *)
(* or in batches, the full lists it reads over several awaits, and the     *)
(* handlers that change users and rooms and may, or may not, announce it.  *)
(*                                                                         *)
(* Two users, one match at a time, and one dashboard that stays connected: *)
(* after a new login the lists come as after a refresh.  The socket        *)
(* delivers in order, so a message counts as received when it is sent.  A  *)
(* handler is cut at each await between two steps that matter here.  Rooms *)
(* are numbered; 0 is no room.  The claim, the locks and the resume token  *)
(* are in Matchmaking and SessionResume.                                   *)
(***************************************************************************)
EXTENDS Naturals, SequencesExt

CONSTANTS
    User,       \* the two users
    MaxRooms,   \* bound: matches
    MaxJoins,   \* bound: joins
    MaxBatch,   \* MAX_BATCH_SIZE: a queue that gets this long is flushed
    MaxRest     \* bound: leaves, departures, orders of the admin, lists, users forgotten

ASSUME FeedAssumption ==
    /\ \E u, v \in User : u # v /\ User = {u, v}
    /\ {MaxRooms, MaxJoins, MaxRest} \subseteq Nat
    /\ MaxBatch \in Nat \ {0}

VARIABLES
    sock,    \* per user: the socket's state and roomId
    rooms,   \* the rooms in Redis
    op,      \* per user: the join, cancel or leave that runs, and if its socket lives
    clean,   \* the calls of cleanupUserOnDisconnect
    making,  \* createAndNotifyMatch: its step, its room, its live sockets
    order,   \* handleKickUser or handleCloseRoom: step, room, user, live
    lists,   \* per kind of list: what has been read of it
    feed,    \* the dashboard, the queued batches, and who may be shown wrongly
    count    \* the bounded counts

feedVars == <<sock, rooms, op, clean, making, order, lists, feed, count>>

Room == 1..MaxRooms
NoRoom == 0
Other(u) == CHOOSE v \in User : v # u

Shows == [st : {"idle", "queue", "active"}, room : Room \cup {NoRoom}]
Absent == [st |-> "absent", room |-> NoRoom]
Idle == [st |-> "idle", room |-> NoRoom]
None == "none"

NoOp == [st |-> "no", room |-> NoRoom, live |-> FALSE]
NoOrder == [st |-> "no", room |-> NoRoom, user |-> None, live |-> FALSE]

\* Every part keeps its range; a batch never waits full, a queued update is never an urgent
\* one, and a cleanup has found its room by its second step.
FeedTypeOK ==
    /\ sock \in [User -> Shows \cup [st : {"new", "away", "gone"}, room : {NoRoom} \cup Room]]
    /\ rooms \subseteq Room
    /\ op \in [User -> [st : {"no", "join", "cancel", "delete", "tell", "end",
                               "resume"},
                        room : Room \cup {NoRoom}, live : BOOLEAN]]
    /\ clean \subseteq [user : User, st : {"find", "look", "delete", "tell", "only_room"},
                        room : Room \cup {NoRoom}]
    /\ making \in [st : {"no", "make", "tell"}, room : Room \cup {NoRoom},
                   live : SUBSET User]
    /\ order \in [st : {"no", "kick_delete", "kick_end", "drop", "delete", "tell"},
                  room : Room \cup {NoRoom}, user : User \cup {None}, live : BOOLEAN]
    /\ lists \in [users : [st : {"no", "read"}, data : [User -> Shows \cup {Absent}]],
                  rooms : [st : {"no", "asked", "read"}, data : SUBSET Room]]
    /\ feed.users \in [User -> Shows \cup {Absent}]
    /\ feed.rooms \subseteq Room
    /\ Len(feed.queued) < MaxBatch /\ Len(feed.created) < MaxBatch
    /\ \A k \in DOMAIN feed.queued : feed.queued[k].user \in User
                                     /\ feed.queued[k].as.st \in {"idle", "queue"}
    /\ feed.created \in Seq(Room)
    /\ feed.badUsers \subseteq User /\ feed.badRooms \subseteq Room
    /\ \A c \in clean : c.st # "find" => c.room # NoRoom

Connected(u) == sock[u].st \in {"idle", "queue", "active"}
Truth(s) == [u \in User |-> IF s[u].st \in {"new", "away", "gone"} THEN Absent ELSE s[u]]

NoUsers == [st |-> "no", data |-> [u \in User |-> Absent]]
NoRooms == [st |-> "no", data |-> {}]

FeedInit ==
    /\ sock = [u \in User |-> [st |-> "new", room |-> NoRoom]]
    /\ rooms = {}
    /\ op = [u \in User |-> NoOp]
    /\ clean = {}
    /\ making = [st |-> "no", room |-> NoRoom, live |-> {}]
    /\ order = NoOrder
    /\ lists = [users |-> NoUsers, rooms |-> NoRooms]
    /\ feed = [users |-> [u \in User |-> Absent], rooms |-> {}, queued |-> <<>>,
               created |-> <<>>, badUsers |-> {}, badRooms |-> {}]
    /\ count = [rooms |-> 0, joins |-> 0, rest |-> 0]

-----------------------------------------------------------------------------
(* What the server sends and what the dashboard makes of it.  A user or a   *)
(* room is bad from the moment the last word on it was untrue, late or      *)
(* missing until a word that is none of these.                              *)

QueuedFor(f, u) == \E k \in DOMAIN f.queued : f.queued[k].user = u

Mark(set, x, wrong) == IF wrong THEN set \cup {x} ELSE set \ {x}

\* What is left of a user's updates when they are applied in order: the last of them.
IsLast(f, u, k) ==
    /\ k \in DOMAIN f.queued /\ f.queued[k].user = u
    /\ \A j \in DOMAIN f.queued : j > k => f.queued[j].user # u

LastWord(f, u) == IF QueuedFor(f, u) THEN f.queued[CHOOSE k \in DOMAIN f.queued :
                                                       IsLast(f, u, k)].as
                  ELSE f.users[u]

\* flushEventBatches: all of them, in order; a room already shown stays as it is.
Flushed(f) ==
    [f EXCEPT !.queued = <<>>, !.created = <<>>,
              !.users = [u \in User |-> LastWord(f, u)],
              !.rooms = @ \cup ToSet(f.created)]

\* queueEvent: the queue that is full sends them all.
Full(f) == Len(f.queued) >= MaxBatch \/ Len(f.created) >= MaxBatch
Queued(f) == IF Full(f) THEN Flushed(f) ELSE f

\* broadcastUserUpdate: 'disconnected' and 'active' are sent at once and overtake what is
\* queued, the other states are queued.  A room that is gone is as untrue as a state.
Untrue(as, now) == as # now \/ as.room \notin rooms \cup {NoRoom}

TellNow(f, users, as, now) ==
    [f EXCEPT !.users = [u \in User |-> IF u \in users THEN as ELSE @[u]],
              !.badUsers = (@ \ users)
                           \cup {u \in users : Untrue(as, now[u]) \/ QueuedFor(f, u)}]

Tell(f, u, as, now) ==
    Queued([f EXCEPT !.queued = Append(@, [user |-> u, as |-> as]),
                     !.badUsers = Mark(@, u, Untrue(as, now))])

\* broadcastRoomCreated: queued.
TellCreated(f, r, now) ==
    Queued([f EXCEPT !.created = Append(@, r), !.badRooms = Mark(@, r, r \notin now)])

\* broadcastRoomDeleted: at once, and the dashboard drops the users it shows in that room.
TellDeleted(f, r) ==
    [f EXCEPT !.rooms = @ \ {r},
              !.users = [u \in User |-> IF @[u].room = r THEN Absent ELSE @[u]],
              !.badRooms = Mark(@, r, r \in ToSet(f.created))]

Unannounced(f, users) == [f EXCEPT !.badUsers = @ \cup users]

Flush ==
    /\ feed.queued # <<>> \/ feed.created # <<>>
    /\ feed' = Flushed(feed)
    /\ UNCHANGED <<sock, rooms, op, clean, making, order, lists, count>>

-----------------------------------------------------------------------------
(* The users.  registerConnection makes the socket idle and keeps its room; *)
(* it is the first half of a join and announces nothing.                    *)

JoinBegin(u) ==
    /\ op[u].st = "no" /\ sock[u].st \in {"new", "idle", "queue", "active"}
    /\ count.joins < MaxJoins
    /\ count' = [count EXCEPT !.joins = @ + 1]
    /\ sock' = [sock EXCEPT ![u].st = "idle"]
    /\ op' = [op EXCEPT ![u] = [st |-> "join", room |-> NoRoom, live |-> TRUE]]
    /\ feed' = Unannounced(feed, {u})
    /\ UNCHANGED <<rooms, clean, making, order, lists>>

\* The two of a room are all the users there are.
JoinEnd(u) ==
    /\ op[u].st = "join"
    /\ op' = [op EXCEPT ![u] = NoOp]
    /\ IF rooms # {} \/ (op[u].live /\ sock[u].st = "active")
       THEN UNCHANGED <<sock, feed>>
       ELSE LET queued == [st |-> "queue", room |-> NoRoom]
            IN /\ sock' = IF op[u].live THEN [sock EXCEPT ![u] = queued] ELSE sock
               /\ feed' = Tell(feed, u, queued, Truth(sock')[u])
    /\ UNCHANGED <<rooms, clean, making, order, lists, count>>

CancelBegin(u) ==
    /\ op[u].st = "no" /\ sock[u].st = "queue"
    /\ op' = [op EXCEPT ![u] = [st |-> "cancel", room |-> NoRoom, live |-> TRUE]]
    /\ UNCHANGED <<sock, rooms, clean, making, order, lists, feed, count>>

\* Only the state is reset, as the code does: a match that came in between keeps its room.
CancelEnd(u) ==
    /\ op[u].st = "cancel"
    /\ op' = [op EXCEPT ![u] = NoOp]
    /\ sock' = IF op[u].live THEN [sock EXCEPT ![u].st = "idle"] ELSE sock
    /\ LET said == IF op[u].live THEN sock'[u] ELSE Idle
       IN feed' = Tell(feed, u, said, Truth(sock')[u])
    /\ UNCHANGED <<rooms, clean, making, order, lists, count>>

LeaveBegin(u) ==
    /\ op[u].st = "no" /\ Connected(u) /\ count.rest < MaxRest
    /\ count' = [count EXCEPT !.rest = @ + 1]
    /\ \E r \in rooms :
          op' = [op EXCEPT ![u] = [st |-> "delete", room |-> r, live |-> TRUE]]
    /\ UNCHANGED <<sock, rooms, clean, making, order, lists, feed>>

LeaveDelete(u) ==
    /\ op[u].st = "delete"
    /\ rooms' = rooms \ {op[u].room}
    /\ op' = [op EXCEPT ![u].st = "tell"]
    /\ UNCHANGED <<sock, clean, making, order, lists, feed, count>>

\* Mutant of PartnerIdle: the partner's new state is not announced.
PartnerIdleUntold(s, f, v) ==
    IF Connected(v) THEN [sock |-> [s EXCEPT ![v] = Idle], feed |-> f]
    ELSE [sock |-> s, feed |-> f]

\* The partner is made idle whatever room it is in by now; if its resume is under way, what
\* the resume restores makes the word untrue.
PartnerIdle(s, f, v) ==
    IF Connected(v)
    THEN [sock |-> [s EXCEPT ![v] = Idle],
          feed |-> Tell(f, v, Idle, IF op[v].st = "resume" THEN Absent ELSE Idle)]
    ELSE [sock |-> s, feed |-> f]

LeaveTell(u) ==
    /\ op[u].st = "tell"
    /\ op' = [op EXCEPT ![u].st = "end"]
    /\ LET done == PartnerIdle(sock, TellDeleted(feed, op[u].room), Other(u))
       IN sock' = done.sock /\ feed' = done.feed
    /\ UNCHANGED <<rooms, clean, making, order, lists, count>>

LeaveEnd(u) ==
    /\ op[u].st = "end"
    /\ op' = [op EXCEPT ![u] = NoOp]
    /\ sock' = IF op[u].live THEN [sock EXCEPT ![u] = Idle] ELSE sock
    /\ feed' = Tell(feed, u, Idle, Truth(sock')[u])
    /\ UNCHANGED <<rooms, clean, making, order, lists, count>>

\* createAndNotifyMatch: the sockets are those it found before it made the room.
MakeBegin ==
    /\ making.st = "no" /\ count.rooms < MaxRooms
    /\ \A u \in User : sock[u].st = "queue"
    /\ making' = [st |-> "make", room |-> count.rooms + 1, live |-> User]
    /\ count' = [count EXCEPT !.rooms = @ + 1]
    /\ UNCHANGED <<sock, rooms, op, clean, order, lists, feed>>

MakeRoom ==
    /\ making.st = "make"
    /\ rooms' = rooms \cup {making.room}
    /\ making' = [making EXCEPT !.st = "tell"]
    /\ UNCHANGED <<sock, op, clean, order, lists, feed, count>>

MakeTell ==
    LET r == making.room
        chatting == [st |-> "active", room |-> r]
    IN /\ making.st = "tell"
       /\ making' = [st |-> "no", room |-> NoRoom, live |-> {}]
       /\ sock' = [u \in User |-> IF u \in making.live THEN chatting ELSE sock[u]]
       /\ feed' = TellNow(TellCreated(feed, r, rooms), User, chatting, Truth(sock'))
       /\ UNCHANGED <<rooms, op, clean, order, lists, count>>

-----------------------------------------------------------------------------
(* Departures.                                                              *)

Dead(users) ==
    /\ op' = [u \in User |-> [op[u] EXCEPT !.live = @ /\ u \notin users]]
    /\ making' = [making EXCEPT !.live = @ \ users]

\* cleanupUserOnDisconnect announces the departure before its first await.
CleanupOf(users) == {[user |-> u, st |-> "find", room |-> NoRoom] : u \in users}

\* The tab closes, or the server disconnects the sockets: no grace.
Gone(users) ==
    /\ sock' = [u \in User |-> IF u \in users THEN [st |-> "gone", room |-> NoRoom]
                               ELSE sock[u]]
    /\ clean' = clean \cup CleanupOf(users)
    /\ feed' = TellNow(feed, users, Absent, Truth(sock'))
    /\ Dead(users)

CloseTab(u) ==
    /\ Connected(u) /\ count.rest < MaxRest
    /\ count' = [count EXCEPT !.rest = @ + 1]
    /\ Gone({u})
    /\ order' = [order EXCEPT !.live = @ /\ order.user # u]
    /\ UNCHANGED <<rooms, lists>>

\* A transport drop of a chatting user is held, and announced to nobody.
Blip(u) ==
    /\ sock[u].st = "active" /\ count.rest < MaxRest
    /\ count' = [count EXCEPT !.rest = @ + 1]
    /\ sock' = [sock EXCEPT ![u].st = "away"]
    /\ Dead({u})
    /\ order' = [order EXCEPT !.live = @ /\ order.user # u]
    /\ UNCHANGED <<rooms, clean, lists, feed>>

GraceExpires(u) ==
    /\ sock[u].st = "away"
    /\ Gone({u})
    /\ UNCHANGED <<rooms, order, lists, count>>

\* restoreSession: the state is unset until the room is read, and no outcome is announced.
ResumeBegin(u) ==
    /\ sock[u].st = "away" /\ op[u].st = "no"
    /\ op' = [op EXCEPT ![u] = [st |-> "resume", room |-> sock[u].room, live |-> TRUE]]
    /\ sock' = [sock EXCEPT ![u] = Idle]
    /\ UNCHANGED <<rooms, clean, making, order, lists, feed, count>>

ResumeEnd(u) ==
    /\ op[u].st = "resume"
    /\ op' = [op EXCEPT ![u] = NoOp]
    /\ LET back == op[u].room \in rooms
       IN /\ sock' = IF op[u].live /\ back
                     THEN [sock EXCEPT ![u] = [st |-> "active", room |-> op[u].room]]
                     ELSE sock
          /\ feed' = IF back THEN feed ELSE Unannounced(feed, {u})
    /\ UNCHANGED <<rooms, clean, making, order, lists, count>>

\* Queue first, then the room, its archive, and removeUserFromRoom, which looks again.
CleanStep(c, next) == clean' = (clean \ {c}) \cup next

CleanFind(c) ==
    /\ c.st = "find"
    /\ IF rooms = {} THEN CleanStep(c, {})
       ELSE \E r \in rooms : CleanStep(c, {[c EXCEPT !.st = "look", !.room = r]})
    /\ UNCHANGED <<sock, rooms, op, making, order, lists, feed, count>>

CleanLook(c) ==
    /\ c.st = "look"
    /\ CleanStep(c, {[c EXCEPT !.st = IF c.room \in rooms THEN "delete" ELSE "only_room"]})
    /\ UNCHANGED <<sock, rooms, op, making, order, lists, feed, count>>

CleanDelete(c) ==
    /\ c.st = "delete"
    /\ rooms' = rooms \ {c.room}
    /\ CleanStep(c, {[c EXCEPT !.st = "tell"]})
    /\ UNCHANGED <<sock, op, making, order, lists, feed, count>>

\* Without a partner of removeUserFromRoom only the room is announced: the dashboard drops
\* those it shows in it, the user who is back included, and no other word follows.
Dropped(c) == {u \in User : sock[u].room = c.room /\ (c.st = "only_room" \/ u = c.user)}

CleanTell(c) ==
    /\ c.st \in {"tell", "only_room"}
    /\ CleanStep(c, {})
    /\ LET deleted == Unannounced(TellDeleted(feed, c.room), Dropped(c))
           done == IF c.st = "tell" THEN PartnerIdle(sock, deleted, Other(c.user))
                   ELSE [sock |-> sock, feed |-> deleted]
       IN sock' = done.sock /\ feed' = done.feed
    /\ UNCHANGED <<rooms, op, making, order, lists, count>>

-----------------------------------------------------------------------------
(* The administrator's orders.                                              *)

\* handleKickUser: the partner goes first, then the room, then the user, if still there.
KickBegin(u) ==
    /\ order.st = "no" /\ Connected(u) /\ count.rest < MaxRest
    /\ count' = [count EXCEPT !.rest = @ + 1]
    /\ IF rooms = {} THEN Gone({u}) /\ UNCHANGED order
       ELSE \E r \in rooms :
               /\ Gone({v \in {Other(u)} : Connected(v)})
               /\ order' = [st |-> "kick_delete", room |-> r, user |-> u, live |-> TRUE]
    /\ UNCHANGED <<rooms, lists>>

\* A member whose grace was running may have come back to the room since, and stays in it.
LeftIn(r) == {u \in User : sock[u].room = r}

\* deleteRoom: nobody sends room_deleted for it.
KickDelete ==
    /\ order.st = "kick_delete"
    /\ rooms' = rooms \ {order.room}
    /\ order' = [order EXCEPT !.st = "kick_end"]
    /\ feed' = [feed EXCEPT !.badRooms = @ \cup {order.room}]
    /\ UNCHANGED <<sock, op, clean, making, lists, count>>

KickEnd ==
    /\ order.st = "kick_end"
    /\ order' = NoOrder
    /\ IF order.live THEN Gone({order.user})
       ELSE /\ feed' = Unannounced(feed, LeftIn(order.room))
            /\ UNCHANGED <<sock, op, clean, making>>
    /\ UNCHANGED <<rooms, lists, count>>

CloseRoomBegin ==
    /\ order.st = "no" /\ count.rest < MaxRest
    /\ count' = [count EXCEPT !.rest = @ + 1]
    /\ \E r \in rooms :
          order' = [st |-> "drop", room |-> r, user |-> None, live |-> FALSE]
    /\ UNCHANGED <<sock, rooms, op, clean, making, lists, feed>>

CloseRoomDrop ==
    /\ order.st = "drop"
    /\ Gone({u \in User : Connected(u)})
    /\ order' = [order EXCEPT !.st = "delete"]
    /\ UNCHANGED <<rooms, lists, count>>

CloseRoomDelete ==
    /\ order.st = "delete"
    /\ rooms' = rooms \ {order.room}
    /\ order' = [order EXCEPT !.st = "tell"]
    /\ UNCHANGED <<sock, op, clean, making, lists, feed, count>>

CloseRoomTell ==
    /\ order.st = "tell"
    /\ order' = NoOrder
    /\ feed' = Unannounced(TellDeleted(feed, order.room),
                           LeftIn(order.room))
    /\ UNCHANGED <<sock, rooms, op, clean, making, lists, count>>

\* applyMaintenanceState: those who chat are cleaned up as if they were gone; all are idle.
CloseSite ==
    LET here == {u \in User : Connected(u)}
        chatting == {u \in here : sock[u].st = "active" /\ sock[u].room # NoRoom}
    IN /\ count.rest < MaxRest
       /\ count' = [count EXCEPT !.rest = @ + 1]
       /\ sock' = [u \in User |-> IF u \in here THEN Idle ELSE sock[u]]
       /\ clean' = clean \cup CleanupOf(chatting)
       /\ feed' = Unannounced(TellNow(feed, chatting, Absent, Truth(sock')), here)
       /\ UNCHANGED <<rooms, op, making, order, lists>>

-----------------------------------------------------------------------------
(* The dashboard.                                                           *)

\* A word on the user is still to come, or the user is held for a resume.
Pending(u) == sock[u].st = "away" \/ op[u].st \in {"delete", "tell", "end", "resume"}

\* refreshData, and the first lists of a login: the users are read at once, the rooms after
\* an await; each is sent after more of them.
AskLists ==
    /\ lists.users.st = "no" /\ lists.rooms.st = "no" /\ count.rest < MaxRest
    /\ count' = [count EXCEPT !.rest = @ + 1]
    /\ lists' = [users |-> [st |-> "read", data |-> Truth(sock)],
                 rooms |-> [NoRooms EXCEPT !.st = "asked"]]
    /\ UNCHANGED <<sock, rooms, op, clean, making, order, feed>>

ReadRooms ==
    /\ lists.rooms.st = "asked"
    /\ lists' = [lists EXCEPT !.rooms = [st |-> "read", data |-> rooms]]
    /\ UNCHANGED <<sock, rooms, op, clean, making, order, feed, count>>

\* A list replaces what is shown; it is bad for what has changed since it was read, or is
\* still queued or under way.
SendUsers ==
    /\ lists.users.st = "read"
    /\ lists' = [lists EXCEPT !.users = NoUsers]
    /\ feed' = [feed EXCEPT !.users = lists.users.data,
                            !.badUsers = {u \in User : \/ lists.users.data[u] # Truth(sock)[u]
                                                       \/ QueuedFor(feed, u) \/ Pending(u)}]
    /\ UNCHANGED <<sock, rooms, op, clean, making, order, count>>

SendRooms ==
    /\ lists.rooms.st = "read"
    /\ lists' = [lists EXCEPT !.rooms = NoRooms]
    /\ feed' = [feed EXCEPT !.rooms = lists.rooms.data,
                            !.badRooms = {r \in Room :
                                \/ (r \in lists.rooms.data) # (r \in rooms)
                                \/ r \in ToSet(feed.created) /\ r \notin rooms}]
    /\ UNCHANGED <<sock, rooms, op, clean, making, order, count>>

\* Two minutes without an update: the user is taken for gone, chatting or not.
Forget(u) ==
    /\ feed.users[u] # Absent /\ count.rest < MaxRest
    /\ count' = [count EXCEPT !.rest = @ + 1]
    /\ feed' = [feed EXCEPT !.users[u] = Absent, !.badUsers = @ \cup {u}]
    /\ UNCHANGED <<sock, rooms, op, clean, making, order, lists>>

FeedNext ==
    \/ \E u \in User :
          \/ JoinBegin(u) \/ JoinEnd(u) \/ CancelBegin(u) \/ CancelEnd(u)
          \/ LeaveBegin(u) \/ LeaveDelete(u) \/ LeaveTell(u) \/ LeaveEnd(u)
          \/ CloseTab(u) \/ Blip(u) \/ GraceExpires(u) \/ ResumeBegin(u) \/ ResumeEnd(u)
          \/ KickBegin(u) \/ Forget(u)
    \/ \E c \in clean : CleanFind(c) \/ CleanLook(c) \/ CleanDelete(c) \/ CleanTell(c)
    \/ MakeBegin \/ MakeRoom \/ MakeTell
    \/ KickDelete \/ KickEnd
    \/ CloseRoomBegin \/ CloseRoomDrop \/ CloseRoomDelete \/ CloseRoomTell \/ CloseSite
    \/ AskLists \/ ReadRooms \/ SendUsers \/ SendRooms
    \/ Flush

FeedSpec == FeedInit /\ [][FeedNext]_feedVars

-----------------------------------------------------------------------------
(* What holds.                                                              *)

Settled == Flushed(feed)

\* A word on the room is still to come: it is being made, or its end is to be announced.
PendingRoom(r) ==
    \/ making.st # "no" /\ making.room = r
    \/ order.st = "tell" /\ order.room = r
    \/ \E u \in User : op[u].st = "tell" /\ op[u].room = r
    \/ \E c \in clean : c.st = "tell" /\ c.room = r

\* Once the batches are out, a dashboard shows each user, in the state and the room that
\* the server has them in, unless their leave is not yet announced, they are held for a
\* resume, or the last word on them was one of: untrue when it was sent (a handler that
\* outlived its socket), sent ahead of a queued older one, never sent, overtaken by a
\* resume, a list read before a change, or two minutes old.
UsersShown ==
    \A u \in User \ feed.badUsers : Pending(u) \/ Settled.users[u] = Truth(sock)[u]

\* The same of rooms; the last word is never sent when the admin kicks.
RoomsShown ==
    \A r \in Room \ feed.badRooms : PendingRoom(r) \/ (r \in Settled.rooms <=> r \in rooms)

\* The two lists of the dashboard converge to what the server knows.
DashboardAgrees == UsersShown /\ RoomsShown

-----------------------------------------------------------------------------
(* What a dashboard is taken to show, and does not.                         *)

BusyRoom(r) ==
    \/ making.room = r \/ order.room = r
    \/ \E u \in User : op[u].room = r
    \/ \E c \in clean : c.room = r
Busy(u) ==
    \/ op[u].st # "no" \/ sock[u].st = "away" \/ \E c \in clean : c.user = u
    \/ sock[u].room # NoRoom /\ BusyRoom(sock[u].room)

Quiet == /\ \A u \in User : ~Busy(u)
         /\ \A r \in Room : ~BusyRoom(r)
         /\ lists = [users |-> NoUsers, rooms |-> NoRooms]

\* No dashboard goes on showing a room that is gone.  A kick deletes the room untold, and a
\* room that ends before its creation is flushed is deleted first and created afterwards.
NoGhostRoom == Quiet => Settled.rooms \subseteq rooms

\* Nor a user that is gone: 'disconnected' overtakes a queued 'queue' or 'idle', and a
\* handler that ends after the socket did announces its user once more.
NoGhostUser == Quiet => \A u \in User : Settled.users[u] # Absent => Truth(sock)[u] # Absent

\* A connected user is shown: not after two minutes without an update, and not after the
\* site closed, which announces those who chatted as disconnected.
ConnectedIsShown ==
    Quiet => \A u \in User : Connected(u) => Settled.users[u] # Absent

\* The member of a live room may chat: not after a second join, whose registration makes the
\* socket idle before the join is refused, nor after a cancel that a match overtook.
MemberMayChat ==
    \A u \in User : ~Busy(u) /\ sock[u].room \in rooms => sock[u].st = "active"
=============================================================================
