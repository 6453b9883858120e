---------------------------- MODULE ClientSession ----------------------------
(***************************************************************************)
(* What one browser makes of the server: the matchmaking machine of        *)
(* useMatchmaking.ts, the session on the screen of useVideoChat.ts and the *)
(* call of useRtc.ts, with their coroutines, against an abstraction of the *)
(* server that the socket reaches through two FIFO channels.               *)
(*                                                                         *)
(* A coroutine is cut at each await.  Rooms are numbered as the server     *)
(* makes them; 0 is no room.  The server (srv) is what Matchmaking and     *)
(* SessionResume model in full: here it takes up one message of the socket *)
(* after the other (serialize), answers a join and a leave at once and a   *)
(* cancel after an await, and notices a drop at once.                      *)
(***************************************************************************)
EXTENDS Naturals, SequencesExt

CONSTANTS
    MaxRooms,       \* bound: matches of this user
    MaxClicks,      \* bound: presses of Start, Stop, Next and Leave
    MaxDrops,       \* bound: drops of the socket
    MaxMediaFaults  \* bound: calls that fail, and waits for one that run out

ASSUME BoundsAssumption ==
    MaxRooms \in Nat /\ MaxClicks \in Nat /\ MaxDrops \in Nat /\ MaxMediaFaults \in Nat

VARIABLES
    srv,        \* the server's view of this user
    up, down,   \* messages to and from the server, in order
    mm,         \* useMatchmaking
    vc,         \* useVideoChat and useRtc
    matched,    \* the coroutines of handleMatched: [room, at, try]
    ghost       \* for the properties: what befell rooms and calls, the bounded counts

vars == <<srv, up, down, mm, vc, matched, ghost>>

Room == 1..MaxRooms
NoRoom == 0

Message ==
    [type : {"searching", "left", "cancelled", "error", "partner_left"}]
        \cup [type : {"matched", "reconnected"}, room : Room, rtc : BOOLEAN]
        \cup [type : {"connected"}, resumed : BOOLEAN]

Server ==
    [st : {"idle", "queue", "room"},            \* socket.state
     room : Room \cup {NoRoom},                 \* user:room, in Redis
     cancelling : BOOLEAN,                      \* handleCancel waits for removeFromQueue
     held : BOOLEAN,                            \* pendingSessions
     rooms : 0..MaxRooms, bots : SUBSET Room]   \* matches so far, those with a bot

Machine ==
    [up : BOOLEAN,                              \* ws.isConnected
     cs : {"disconnected", "connecting", "connected", "waiting", "matched"},
     match : Room \cup {NoRoom},                \* matchDataRef
     joining : BOOLEAN, timer : BOOLEAN,        \* isJoiningRef, searchTimeoutRef
     pending : {"no", "kept", "due"},           \* pendingJoinRef, its 100 ms
     reconnecting : BOOLEAN,                    \* reconnectingRef
     grace : BOOLEAN,                           \* reconnectTimerRef
     debounce : BOOLEAN]                        \* isLeavingRef

Screen ==
    [starting : Nat,                            \* Starts at prepareLocalMedia
     session : BOOLEAN,                         \* isInSession
     cur : Room \cup {NoRoom},                  \* currentMatchRef
     leaving : {"no", "end", "next"},           \* isLeavingRef, by whom
     finding : BOOLEAN,                         \* isFindingNextRef
     parting : BOOLEAN,                         \* handlePartnerLeft in its 500 ms
     rtc : Room \cup {NoRoom},                  \* the room the call has joined
     initing : BOOLEAN]                         \* isInitializingRef

SetUp == [room : Room, at : {"leave", "join", "retry"}, try : 1..2]

Ghost ==
    [left : SUBSET Room,                        \* rooms the user has left
     lost : SUBSET Room,                        \* a join or a cancel has met them
     failed : SUBSET Room,                      \* both attempts at their call have failed
     stray : BOOLEAN,                           \* a call may be up that no session has
     clicks : 0..MaxClicks, drops : 0..MaxDrops, faults : 0..MaxMediaFaults]

\* Every part keeps its range; a call that is being set up has left the room before, and the
\* flag against a second Next is up while the first one runs.
TypeOK ==
    /\ srv \in Server /\ mm \in Machine /\ vc \in Screen /\ ghost \in Ghost
    /\ up \in Seq({"join", "leave", "cancel"})
    /\ down \in Seq(Message)
    /\ matched \in SUBSET SetUp
    /\ vc.initing => vc.rtc = NoRoom
    /\ vc.leaving = "next" => vc.finding

Init ==
    /\ srv = [st |-> "idle", room |-> NoRoom, cancelling |-> FALSE, held |-> FALSE,
              rooms |-> 0, bots |-> {}]
    /\ up = <<>> /\ down = <<>>
    /\ mm = [up |-> TRUE, cs |-> "connected", match |-> NoRoom, joining |-> FALSE,
             timer |-> FALSE, pending |-> "no", reconnecting |-> FALSE, grace |-> FALSE,
             debounce |-> FALSE]
    /\ vc = [starting |-> 0, session |-> FALSE, cur |-> NoRoom, leaving |-> "no",
             finding |-> FALSE, parting |-> FALSE, rtc |-> NoRoom, initing |-> FALSE]
    /\ matched = {}
    /\ ghost = [left |-> {}, lost |-> {}, failed |-> {}, stray |-> FALSE,
                clicks |-> 0, drops |-> 0, faults |-> 0]

-----------------------------------------------------------------------------
(* The server.                                                              *)

Say(type) == [type |-> type]
SayRoom(type, r, rtc) == [type |-> type, room |-> r, rtc |-> rtc]
SayConnected(resumed) == [type |-> "connected", resumed |-> resumed]
Send(messages) == down' = IF mm.up THEN down \o messages ELSE down

Idle(s) == [s EXCEPT !.st = "idle", !.room = NoRoom]
LostRoom == [ghost EXCEPT !.lost = @ \cup (IF srv.room = NoRoom THEN {} ELSE {srv.room})]

\* registerConnection makes the socket idle before the join is looked at, so a join is
\* never refused for being in the queue, and one refused for the room leaves 'idle' behind.
ServerJoins ==
    \/ /\ srv.room = NoRoom
       /\ srv' = [srv EXCEPT !.st = "queue"] /\ Send(<<Say("searching")>>)
       /\ UNCHANGED ghost
    \/ /\ srv.room # NoRoom
       /\ srv' = [srv EXCEPT !.st = "idle"] /\ Send(<<Say("error")>>)
       /\ ghost' = LostRoom

\* handleLeave; without a room it returns.
ServerLeaves ==
    /\ IF srv.room # NoRoom
       THEN srv' = Idle(srv) /\ Send(<<Say("left")>>)
       ELSE UNCHANGED <<srv, down>>
    /\ UNCHANGED ghost

\* handleCancel up to its await.
ServerCancels ==
    /\ srv' = [srv EXCEPT !.cancelling = srv.st = "queue"]
    /\ UNCHANGED <<down, ghost>>

\* The next message of the socket, once the one before it is done with.
ServerReceives ==
    /\ up # <<>> /\ ~srv.cancelling
    /\ up' = Tail(up)
    /\ \/ Head(up) = "join" /\ ServerJoins
       \/ Head(up) = "leave" /\ ServerLeaves
       \/ Head(up) = "cancel" /\ ServerCancels
    /\ UNCHANGED <<mm, vc, matched>>

\* The rest of handleCancel, which does not look again whether a match came in between.
CancelEnds ==
    /\ srv.cancelling
    /\ srv' = [srv EXCEPT !.cancelling = FALSE, !.st = "idle"]
    /\ Send(<<Say("cancelled")>>)
    /\ ghost' = LostRoom
    /\ UNCHANGED <<up, mm, vc, matched>>

\* createAndNotifyMatch; a match with a bot has no call.
Match ==
    /\ srv.st = "queue" /\ srv.rooms < MaxRooms
    /\ LET r == srv.rooms + 1 IN
       \E rtc \in BOOLEAN :
           /\ srv' = [srv EXCEPT !.st = "room", !.room = r, !.rooms = r,
                                 !.bots = IF rtc THEN @ ELSE @ \cup {r}]
           /\ Send(<<SayRoom("matched", r, rtc)>>)
    /\ UNCHANGED <<up, mm, vc, matched, ghost>>

\* The partner leaves ('partner_left'; a closed room is handled like it), or is cleaned up
\* after a disconnect ('partner_disconnected', a status of the match event like 'left').
PartnerLeaves ==
    /\ srv.room # NoRoom
    /\ srv' = Idle(srv)
    /\ \E word \in {"partner_left", "left"} : Send(<<Say(word)>>)
    /\ UNCHANGED <<up, mm, vc, matched, ghost>>

\* The grace window of the held session closes.
GraceEnds ==
    /\ srv.held
    /\ srv' = [Idle(srv) EXCEPT !.held = FALSE]
    /\ UNCHANGED <<up, down, mm, vc, matched, ghost>>

-----------------------------------------------------------------------------
(* The matchmaking machine.                                                 *)

\* join(): m is the machine before it, and wire what is under way to the server.
JoinWhenUp(m) ==
    [m EXCEPT !.pending = "no", !.cs = "waiting", !.joining = TRUE, !.timer = TRUE]
DoJoin(m, wire) ==
    IF m.up THEN mm' = JoinWhenUp(m) /\ up' = Append(wire, "join")
    ELSE mm' = [m EXCEPT !.pending = "kept", !.cs = "connecting"] /\ up' = wire

\* Mutant of LeaveRoom: the screen forgets the room, and nothing tells the server.
LeaveRoomSilently(m) ==
    [m EXCEPT !.reconnecting = FALSE, !.grace = FALSE, !.cs = "connected", !.match = NoRoom]

LeaveRoom(m) ==
    IF m.debounce \/ m.match = NoRoom THEN m
    ELSE [m EXCEPT !.reconnecting = FALSE, !.grace = FALSE, !.match = NoRoom,
                   !.debounce = m.up,
                   !.cs = IF m.up THEN "connected" ELSE "disconnected"]

\* What leaveRoom sends, and the room it is about.
LeaveMessages(m) == IF LeaveRoom(m).debounce /\ ~m.debounce THEN <<"leave">> ELSE <<>>
LeftRooms(m) == IF LeaveRoom(m).match # m.match THEN {m.match} ELSE {}

\* giveUpSession
GivenUp(m) ==
    [m EXCEPT !.reconnecting = FALSE, !.grace = FALSE, !.match = NoRoom, !.joining = FALSE,
              !.cs = IF m.up THEN "connected" ELSE "disconnected"]

-----------------------------------------------------------------------------
(* The session on the screen.                                               *)

\* endSessionFinal up to its await.
Ending(v) ==
    IF v.leaving # "no" THEN v
    ELSE [v EXCEPT !.leaving = "end", !.session = FALSE, !.cur = NoRoom]

\* handlePartnerLeft: a session that the page has not rendered yet (whether it has is left
\* open) is ended after 500 ms.
PartnerGone ==
    \/ vc' = IF vc.finding THEN vc ELSE Ending(vc)
    \/ /\ ~vc.finding /\ vc.leaving = "no" /\ vc.session /\ vc.rtc = NoRoom
       /\ vc' = [vc EXCEPT !.parting = TRUE]

\* initializeRTC up to the await of service.join.
InitializeRtc(v) == [v EXCEPT !.initing = TRUE, !.rtc = NoRoom]

Show(r) == [vc EXCEPT !.session = TRUE, !.cur = r]
Strays(stray) == [ghost EXCEPT !.stray = stray]

\* The first await of handleMatched: leaveRTC when a call is up, else service.join.
SetUpCall(r) ==
    /\ vc' = IF vc.rtc # NoRoom THEN Show(r) ELSE InitializeRtc(Show(r))
    /\ matched' = matched \cup
           {[room |-> r, at |-> IF vc.rtc # NoRoom THEN "leave" ELSE "join", try |-> 1]}
    /\ ghost' = [ghost EXCEPT !.stray = matched # {}, !.failed = @ \ {r}]

\* Mutant of OnMatched: a match in the 500 ms after Next puts up the session alone.
OnMatchedDebounced(r, rtc) ==
    IF vc.leaving # "no" THEN UNCHANGED <<vc, matched, ghost>>
    ELSE IF rtc /\ ~vc.finding THEN SetUpCall(r)
    ELSE /\ vc' = Show(r)
         /\ ghost' = Strays(ghost.stray \/ vc.rtc # NoRoom \/ matched # {})
         /\ UNCHANGED matched

\* handleMatched up to its first await.  A match without a call returns before it asks
\* whether an old one is up.
OnMatched(r, rtc) ==
    IF vc.leaving # "no" THEN UNCHANGED <<vc, matched, ghost>>
    ELSE IF rtc THEN SetUpCall(r)
    ELSE /\ vc' = Show(r)
         /\ ghost' = Strays(ghost.stray \/ vc.rtc # NoRoom \/ matched # {})
         /\ UNCHANGED matched

\* handleReconnected: a call that is up is rebuilt (PeerNegotiation), one that is not is
\* joined afresh.
OnReconnected(r, rtc) ==
    IF vc.leaving = "no" /\ (vc.rtc # NoRoom \/ ~rtc)
    THEN vc' = Show(r) /\ UNCHANGED <<matched, ghost>>
    ELSE OnMatched(r, rtc)

-----------------------------------------------------------------------------
(* handleMessage, one action per message.                                   *)

Receive(type) ==
    /\ down # <<>> /\ Head(down).type = type
    /\ down' = Tail(down)
    /\ UNCHANGED <<srv, up>>

ReceiveConnected ==
    /\ Receive("connected")
    /\ IF mm.reconnecting /\ ~Head(down).resumed
       THEN mm' = GivenUp(mm) /\ vc' = Ending(vc)
       ELSE UNCHANGED <<mm, vc>>
    /\ UNCHANGED <<matched, ghost>>

ReceiveSearching ==
    /\ Receive("searching")
    /\ mm' = [mm EXCEPT !.cs = "waiting"]
    /\ UNCHANGED <<vc, matched, ghost>>

ReceiveMatched ==
    /\ Receive("matched")
    /\ mm' = [mm EXCEPT !.timer = FALSE, !.reconnecting = FALSE, !.grace = FALSE,
                        !.cs = "matched", !.match = Head(down).room, !.joining = FALSE]
    /\ OnMatched(Head(down).room, Head(down).rtc)

ReceiveReconnected ==
    /\ Receive("reconnected")
    /\ mm' = [mm EXCEPT !.reconnecting = FALSE, !.grace = FALSE, !.cs = "matched",
                        !.match = Head(down).room, !.joining = FALSE]
    /\ IF mm.match = Head(down).room THEN OnReconnected(Head(down).room, Head(down).rtc)
                                     ELSE OnMatched(Head(down).room, Head(down).rtc)

ReceivePartnerLeft ==
    /\ Receive("partner_left")
    /\ mm' = [mm EXCEPT !.reconnecting = FALSE, !.grace = FALSE, !.cs = "connected",
                        !.match = NoRoom]
    /\ PartnerGone
    /\ UNCHANGED <<matched, ghost>>

\* A status of the match event: the answer to one's own leave or to a resume whose room is
\* gone, or the clean-up of the partner.  It is handled as the partner's leave.
ReceiveLeft ==
    /\ Receive("left")
    /\ mm' = [mm EXCEPT !.reconnecting = FALSE, !.grace = FALSE, !.cs = "connected",
                        !.match = NoRoom, !.timer = FALSE, !.joining = FALSE]
    /\ PartnerGone
    /\ UNCHANGED <<matched, ghost>>

ReceiveCancelled ==
    /\ Receive("cancelled")
    /\ mm' = [mm EXCEPT !.cs = "connected", !.match = NoRoom, !.joining = FALSE]
    /\ UNCHANGED <<vc, matched, ghost>>

ReceiveError ==
    /\ Receive("error")
    /\ mm' = [mm EXCEPT !.timer = FALSE, !.cs = "connected", !.joining = FALSE]
    /\ UNCHANGED <<vc, matched, ghost>>

-----------------------------------------------------------------------------
(* The socket.                                                              *)

\* handleClose, which starts the timer of a resume only once; what is under way is lost, and
\* the server holds the room of an active socket, and cleans up after any other.  The 500 ms
\* of a Next before it are over before the socket is back, so they are over here.
Drop ==
    /\ mm.up /\ ghost.drops < MaxDrops
    /\ mm' = IF mm.cs = "matched" /\ mm.match # NoRoom
             THEN [mm EXCEPT !.up = FALSE, !.reconnecting = TRUE,
                             !.grace = @ \/ ~mm.reconnecting]
             ELSE [mm EXCEPT !.up = FALSE, !.cs = "disconnected", !.match = NoRoom]
    /\ up' = <<>> /\ down' = <<>>
    /\ srv' = [(IF srv.st = "room" THEN srv ELSE Idle(srv))
                   EXCEPT !.cancelling = FALSE, !.held = srv.st = "room"]
    /\ vc' = [vc EXCEPT !.finding = @ /\ vc.leaving = "next"]
    /\ ghost' = [ghost EXCEPT !.drops = @ + 1]
    /\ UNCHANGED matched

\* handleOpen, after the server's handshake and restoreSession.
Reconnect ==
    /\ ~mm.up
    /\ mm' = IF mm.reconnecting THEN [mm EXCEPT !.up = TRUE]
             ELSE [mm EXCEPT !.up = TRUE, !.cs = "connected"]
    /\ down' = IF ~srv.held THEN <<SayConnected(FALSE)>>
               ELSE <<SayConnected(TRUE),
                      IF srv.st = "room"
                      THEN SayRoom("reconnected", srv.room, srv.room \notin srv.bots)
                      ELSE Say("left")>>
    /\ srv' = [srv EXCEPT !.held = FALSE]
    /\ UNCHANGED <<up, vc, matched, ghost>>

\* Mutant of GraceTimer: the machine gives up, and the screen does not hear of it.
GraceTimerUnheard ==
    /\ mm.grace
    /\ mm' = IF mm.reconnecting THEN GivenUp(mm) ELSE [mm EXCEPT !.grace = FALSE]
    /\ UNCHANGED <<srv, up, down, vc, matched, ghost>>

\* reconnectTimerRef fires.
GraceTimer ==
    /\ mm.grace
    /\ IF mm.reconnecting THEN mm' = GivenUp(mm) /\ vc' = Ending(vc)
                          ELSE mm' = [mm EXCEPT !.grace = FALSE] /\ UNCHANGED vc
    /\ UNCHANGED <<srv, up, down, matched, ghost>>

\* The socket gives up reconnecting (handleError); it owes us nothing.
SocketGivesUp ==
    /\ ~mm.up /\ mm.reconnecting
    /\ mm' = GivenUp(mm) /\ vc' = Ending(vc)
    /\ UNCHANGED <<srv, up, down, matched, ghost>>

-----------------------------------------------------------------------------
(* Timers and effects.                                                      *)

\* The effect that replays a join asked for while the socket was down, and its 100 ms.
PendingJoin ==
    \/ /\ mm.pending = "kept" /\ mm.cs = "connected"
       /\ mm' = [mm EXCEPT !.pending = "due"]
       /\ UNCHANGED <<srv, up, down, vc, matched, ghost>>
    \/ /\ mm.pending = "due"
       /\ DoJoin([mm EXCEPT !.pending = "no"], up)
       /\ UNCHANGED <<srv, down, vc, matched, ghost>>

\* Thirty seconds are longer than the answer to a join takes: only a match may be under
\* way when the timer ends.
Answered ==
    /\ "join" \notin ToSet(up)
    /\ \A m \in ToSet(down) : m.type \notin {"searching", "error"}

SearchTimeout ==
    /\ mm.timer /\ Answered
    /\ IF mm.joining
       THEN /\ mm' = [mm EXCEPT !.timer = FALSE, !.joining = FALSE, !.cs = "connected",
                                !.match = NoRoom]
            /\ up' = IF mm.up THEN Append(up, "cancel") ELSE up
       ELSE /\ mm' = [mm EXCEPT !.timer = FALSE]
            /\ UNCHANGED up
    /\ UNCHANGED <<srv, down, vc, matched, ghost>>

DebounceEnds ==
    \/ /\ mm.debounce
       /\ mm' = [mm EXCEPT !.debounce = FALSE]
       /\ UNCHANGED <<srv, up, down, vc, matched, ghost>>
    \/ /\ vc.finding /\ vc.leaving # "next"
       /\ vc' = [vc EXCEPT !.finding = FALSE]
       /\ UNCHANGED <<srv, up, down, mm, matched, ghost>>

-----------------------------------------------------------------------------
(* The user, through the buttons that RoomControls shows.                   *)

Click ==
    /\ ghost.clicks < MaxClicks
    /\ ghost' = [ghost EXCEPT !.clicks = @ + 1]
    /\ UNCHANGED <<srv, down, matched>>

Start ==
    /\ Click /\ mm.cs \notin {"matched", "waiting"}
    /\ vc' = [vc EXCEPT !.starting = @ + 1]
    /\ UNCHANGED <<up, mm>>

\* beginSearch after prepareLocalMedia.
MediaReady ==
    /\ vc.starting > 0
    /\ vc' = [vc EXCEPT !.starting = @ - 1]
    /\ DoJoin(mm, up)
    /\ UNCHANGED <<srv, down, matched, ghost>>

\* cancelSearch
Stop ==
    /\ Click /\ mm.cs = "waiting"
    /\ mm' = [mm EXCEPT !.timer = FALSE, !.pending = "no", !.cs = "connected",
                        !.match = NoRoom, !.joining = FALSE]
    /\ up' = IF mm.up THEN Append(up, "cancel") ELSE up
    /\ UNCHANGED vc

\* endSessionFinal, and the last part of it.
Leave ==
    /\ Click /\ mm.cs = "matched"
    /\ vc' = Ending(vc)
    /\ UNCHANGED <<up, mm>>

\* findNext up to its await: the server hears of the leave first.
FindNext ==
    /\ ghost.clicks < MaxClicks /\ mm.cs = "matched"
    /\ vc.leaving = "no" /\ ~vc.finding
    /\ vc' = [vc EXCEPT !.leaving = "next", !.finding = TRUE, !.session = FALSE,
                        !.cur = NoRoom]
    /\ mm' = LeaveRoom(mm) /\ up' = up \o LeaveMessages(mm)
    /\ ghost' = [ghost EXCEPT !.clicks = @ + 1, !.left = @ \cup LeftRooms(mm)]
    /\ UNCHANGED <<srv, down, matched>>

-----------------------------------------------------------------------------
(* The coroutines after their awaits.                                       *)

Overdue == IF vc.initing THEN 1 ELSE 0

\* With no set-up about, a leave leaves no call behind.
LeftCall(left, overdue) ==
    [ghost EXCEPT !.faults = @ + overdue, !.left = @ \cup left,
                  !.stray = matched # {} /\ (@ \/ overdue > 0)]

\* Mutant of LeaveRtc: it does not wait.
LeaveRtcAtOnce(left) == ghost' = LeftCall(left, 0)

\* leaveRTC waits while a call is being set up, but only 3 s: going on is a media fault.
LeaveRtc(left) ==
    /\ ghost.faults + Overdue <= MaxMediaFaults
    /\ ghost' = LeftCall(left, Overdue)

\* Mutant of EndFinishes: a session whose room is gone already stays the one being left.
EndFinishesInRoom ==
    /\ vc.leaving = "end" /\ mm.match # NoRoom /\ LeaveRtc(LeftRooms(mm))
    /\ vc' = [vc EXCEPT !.rtc = NoRoom, !.leaving = "no"]
    /\ mm' = LeaveRoom(mm) /\ up' = up \o LeaveMessages(mm)
    /\ UNCHANGED <<srv, down, matched>>

EndFinishes ==
    /\ vc.leaving = "end" /\ LeaveRtc(LeftRooms(mm))
    /\ vc' = [vc EXCEPT !.rtc = NoRoom, !.leaving = "no"]
    /\ mm' = LeaveRoom(mm) /\ up' = up \o LeaveMessages(mm)
    /\ UNCHANGED <<srv, down, matched>>

NextFinishes ==
    /\ vc.leaving = "next" /\ LeaveRtc({})
    /\ vc' = [vc EXCEPT !.rtc = NoRoom, !.leaving = "no"]
    /\ DoJoin(mm, up)
    /\ UNCHANGED <<srv, down, matched>>

\* A set-up goes on to initializeRTC without asking whose session is on the screen.
Proceed(t) ==
    /\ vc' = InitializeRtc(vc)
    /\ matched' = (matched \ {t}) \cup {[t EXCEPT !.at = "join"]}
    /\ ghost' = Strays(ghost.stray \/ ~(vc.session /\ vc.cur = t.room))
    /\ UNCHANGED <<srv, up, down, mm>>

\* The leaveRTC of handleMatched is over; it may have waited for the peer's operations.
LeftRtc(t) == t.at = "leave" /\ Proceed(t)

\* The second after the first attempt is over.
Retry(t) == t.at = "retry" /\ Proceed(t)

\* PeerManager.join does nothing when a room is joined already.
JoinRtc(t) ==
    /\ t.at = "join"
    /\ vc' = [vc EXCEPT !.initing = FALSE, !.rtc = IF @ = NoRoom THEN t.room ELSE @]
    /\ matched' = matched \ {t}
    /\ UNCHANGED <<srv, up, down, mm, ghost>>

\* initializeRTC fails.  It is tried once more after a second, unless a leave is running;
\* at the end the chat goes on without a call or, when it was the token or the network, is
\* ended.
JoinRtcFails(t) ==
    /\ t.at = "join" /\ ghost.faults < MaxMediaFaults
    /\ LET silent == [vc EXCEPT !.initing = FALSE, !.rtc = NoRoom] IN
       IF t.try = 1 /\ vc.leaving = "no"
       THEN /\ vc' = silent
            /\ matched' = (matched \ {t}) \cup {[t EXCEPT !.at = "retry", !.try = 2]}
            /\ ghost' = [ghost EXCEPT !.faults = @ + 1]
       ELSE /\ vc' \in {silent, Ending(silent)}
            /\ matched' = matched \ {t}
            /\ ghost' = [ghost EXCEPT !.faults = @ + 1, !.failed = @ \cup {t.room}]
    /\ UNCHANGED <<srv, up, down, mm>>

\* The 500 ms of handlePartnerLeft are over.
PartnerLeft ==
    /\ vc.parting
    /\ vc' = [Ending(vc) EXCEPT !.parting = FALSE]
    /\ UNCHANGED <<srv, up, down, mm, matched, ghost>>

Proceeds ==
    \/ EndFinishes \/ NextFinishes \/ MediaReady \/ PartnerLeft
    \/ \E t \in matched : LeftRtc(t) \/ JoinRtc(t) \/ Retry(t)

Receives ==
    \/ ReceiveConnected \/ ReceiveSearching \/ ReceiveMatched \/ ReceiveReconnected
    \/ ReceivePartnerLeft \/ ReceiveLeft \/ ReceiveCancelled \/ ReceiveError

Next ==
    \/ ServerReceives \/ CancelEnds \/ Match \/ PartnerLeaves \/ GraceEnds
    \/ Receives \/ Drop \/ Reconnect \/ GraceTimer \/ SocketGivesUp
    \/ PendingJoin \/ SearchTimeout \/ DebounceEnds
    \/ Start \/ Stop \/ Leave \/ FindNext
    \/ Proceeds \/ \E t \in matched : JoinRtcFails(t)

Spec == Init /\ [][Next]_vars

\* Messages arrive, coroutines go on and timers end.  Users, partners, the matching and
\* the network owe nothing.
FairSpec ==
    /\ Spec
    /\ WF_vars(ServerReceives) /\ WF_vars(CancelEnds) /\ WF_vars(Receives)
    /\ WF_vars(Proceeds) /\ WF_vars(GraceTimer) /\ WF_vars(PendingJoin)

-----------------------------------------------------------------------------
(* Properties.                                                              *)

Settled == matched = {} /\ vc.leaving = "no"
Quiet ==
    /\ Settled /\ mm.up /\ up = <<>> /\ down = <<>> /\ mm.pending # "due"
    /\ ~srv.cancelling

\* When nothing is under way, the room the machine keeps is the room the server has the
\* user in, and the screen says searching exactly when the server is searching: through
\* leaves that cross a departure, a Next that sends leave and join together, cancels that
\* lose to a match, timeouts and drops.  The one disagreement left is a room that a refused
\* join has met, or that came while handleCancel waited (its 'cancelled' follows the
\* 'matched'): the page may have forgotten such a room, never taken another for it, and is
\* right again when that room ends.
MatchmakingAgrees ==
    Quiet =>
        /\ mm.match = srv.room \/ (mm.match = NoRoom /\ srv.room \in ghost.lost)
        /\ mm.cs = "waiting" <=> srv.st = "queue"

\* Once the coroutines are done, the call that is up is the one of the session on the screen,
\* none for a bot or after two failures, and none is up without a session; unless a call has
\* gone astray, when a set-up outlives its session, or overlaps another, or a bot comes over
\* a call.  A stray call lasts until the next match with a call, or the next leave, that
\* finds no set-up about.
CallFollowsSession ==
    Settled /\ ~ghost.stray =>
        vc.rtc = IF vc.session /\ vc.cur \notin srv.bots \cup ghost.failed
                 THEN vc.cur ELSE NoRoom

\* A chat that waits for its socket is resolved: it is back, or its timer, the server or the
\* socket ends the wait and takes the session off the screen.
ResumeResolves ==
    mm.reconnecting ~> ~mm.reconnecting /\ (vc.session => mm.match = vc.cur)

\* The flag that makes handleMatched, handleReconnected and endSessionFinal return at once
\* is always taken back.
LeavingResolves == vc.leaving # "no" ~> vc.leaving = "no"

\* A session with a human gets its call on the screen, with the retry when the first attempt
\* fails, unless it ends, both attempts fail or a call has gone astray.
CallComesUp ==
    \A r \in Room : vc.session /\ vc.cur = r /\ r \notin srv.bots
        ~> vc.rtc = r \/ vc.cur # r \/ r \in ghost.failed \/ ghost.stray

\* "The socket is down; the server will close the room when the grace window passes."
\* (useMatchmaking.ts:544): a chat that the user has left does not come back.
LeaveIsFinal == Quiet /\ vc.session => vc.cur \notin ghost.left

\* "Tear the session down so the user is returned to a usable state instead of watching a
\* frozen frame." (useMatchmaking.ts:207): when nothing is under way, a session on the
\* screen has a room on the server.
NoFrozenSession == Quiet /\ vc.session => srv.room # NoRoom

\* "already in a room" (useMatchmaking.ts:223): a refused join gives the user "a way
\* forward", here the buttons of the chat that is still on.
ChatIsControlled == Quiet /\ mm.match # NoRoom => mm.cs = "matched"

\* Once nothing is under way, a user in a room has the session on the screen.
RoomIsShown == Quiet /\ srv.room # NoRoom => vc.session

\* "30 seconds - Match search timeout" (timeouts.ts:8): a search on the screen has its
\* timer.
SearchIsTimed == Quiet /\ mm.cs = "waiting" => mm.timer
=============================================================================
