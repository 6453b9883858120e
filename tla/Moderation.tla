----------------------------- MODULE Moderation -----------------------------
(***************************************************************************)
(* One administrator who watches one room from several dashboard tabs      *)
(* (admin.handler.ts, useAdminSocket.ts, useRoomMonitoring.ts,             *)
(* RoomMonitor.tsx): connections that authenticate over an await, break    *)
(* and are noticed late; monitoring and moderator mode, which the server   *)
(* keeps per administrator and the page per tab; the messages of the room, *)
(* stored first and broadcast later; the impersonation of a member, and    *)
(* the revocation of the session.                                          *)
(*                                                                         *)
(* Events of a live connection are delivered in order and at once, except  *)
(* where a handler awaits.  A broken connection is known to the tab at     *)
(* once and to the server when Notice happens.  Here the room ends only by *)
(* the cleanup that an impersonation starts, or by the member who waits,   *)
(* and one token is handed out.                                            *)
(* Left out: what a page does without an authenticated connection, the two *)
(* minutes of the token, the rate limits, the audit trail.                 *)
(***************************************************************************)
EXTENDS Naturals, SequencesExt

CONSTANTS
    Tab,        \* the administrator's tabs
    Limit,      \* getChatHistory reads this many messages, from the first on
    MaxConns,   \* bound: connections
    MaxMsgs,    \* bound: messages of the room
    MaxActs     \* bound: acts of the administrator

ASSUME ModerationAssumption == {Limit, MaxConns, MaxMsgs, MaxActs} \subseteq Nat

VARIABLES
    conns,      \* per connection: its tab, step, and whether each end has it open
    table,      \* adminConnections, in the order of insertion
    session,    \* the session: valid, being revoked, revoked
    monitored,  \* the room has the administrator in monitoredRooms
    takeover,   \* ... and in takeoverRooms
    calls,      \* handlers that await
    tabs,       \* what each page holds
    msgs,       \* the stored history, and the messages not yet broadcast
    room,       \* the room, its members, and what goes on about it
    acts        \* acts so far

vars == <<conns, table, session, monitored, takeover, calls, tabs, msgs, room, acts>>

Conn == 1..MaxConns
Msg == 1..MaxMsgs
NoConn == 0

\* Every part keeps its range; a tab holds a connection that is its own and alive, and a
\* listed connection is listed once and has authenticated.
TypeOK ==
    /\ conns \in [Conn -> [tab : Tab \cup {"none"}, st : {"none", "auth", "in", "out"},
                           up : BOOLEAN, net : BOOLEAN]]
    /\ IsInjective(table) /\ \A k \in ToSet(table) : k \in Conn /\ conns[k].st = "in"
    /\ session \in {"valid", "revoking", "revoked"}
    /\ monitored \in BOOLEAN /\ takeover \in BOOLEAN
    /\ \A c \in calls : c.conn \in Conn
                        /\ c.op \in {"history", "started", "enter", "note", "impersonate"}
    /\ tabs \in [Tab -> [conn : Conn \cup {NoConn}, authed : BOOLEAN, open : BOOLEAN,
                         watching : BOOLEAN, mode : BOOLEAN, fresh : BOOLEAN,
                         shown : Seq(Msg), racy : SUBSET Msg]]
    /\ \A t \in Tab : tabs[t].conn # NoConn => /\ conns[tabs[t].conn].tab = t
                                               /\ conns[tabs[t].conn].net
    /\ \A t \in Tab : tabs[t].authed \/ tabs[t].watching => tabs[t].conn # NoConn
    /\ ToSet(msgs.history) \subseteq Msg /\ msgs.posting \subseteq ToSet(msgs.history)
    /\ room \in [open : BOOLEAN, other : {"chats", "waits", "left"},
                 entry : {"no", "find", "in"}, leave : {"no", "delete", "tell"},
                 cleanup : {"no", "find", "delete", "tell", "done", "failed"}]
    /\ acts \in 0..MaxActs

NewTab == [conn |-> NoConn, authed |-> FALSE, open |-> FALSE, watching |-> FALSE,
           mode |-> FALSE, fresh |-> FALSE, shown |-> <<>>, racy |-> {}]

Init ==
    /\ conns = [k \in Conn |-> [tab |-> "none", st |-> "none", up |-> FALSE, net |-> FALSE]]
    /\ table = <<>>
    /\ session = "valid"
    /\ monitored = FALSE /\ takeover = FALSE
    /\ calls = {}
    /\ tabs = [t \in Tab |-> NewTab]
    /\ msgs = [history |-> <<>>, posting |-> {}]
    /\ room = [open |-> TRUE, other |-> "chats", entry |-> "no", leave |-> "no",
               cleanup |-> "no"]
    /\ acts = 0

-----------------------------------------------------------------------------
(* Connections.                                                             *)

\* The impersonation has put a member out.  Bounds: from there on no tab comes or goes, and
\* nobody writes from its request on.
PutOut == room.cleanup # "no"

\* The middleware has read the session; handleConnection reads it once more.
Connect(t) ==
    /\ ~PutOut /\ tabs[t].conn = NoConn /\ session # "revoked"
    /\ \E k \in Conn :
          /\ conns[k].st = "none" /\ \A j \in 1..(k - 1) : conns[j].st # "none"
          /\ conns' = [conns EXCEPT ![k] = [tab |-> t, st |-> "auth", up |-> TRUE,
                                            net |-> TRUE]]
          /\ tabs' = [tabs EXCEPT ![t].conn = k]
    /\ UNCHANGED <<table, session, monitored, takeover, calls, msgs, room, acts>>

\* handleAuth after its await: the connection is listed whether it is still open or not.
Authenticated(k) ==
    /\ conns[k].st = "auth"
    /\ conns' = [conns EXCEPT ![k].st = "in"]
    /\ table' = Append(table, k)
    /\ tabs' = IF conns[k].net THEN [tabs EXCEPT ![conns[k].tab].authed = TRUE] ELSE tabs
    /\ UNCHANGED <<session, monitored, takeover, calls, msgs, room, acts>>

\* What a page keeps without its connection: the effect's cleanup finds nothing to send to.
Unplugged(t) == [t EXCEPT !.conn = NoConn, !.authed = FALSE, !.watching = FALSE,
                          !.fresh = FALSE]

\* Nobody watches for the administrator any more, whichever tab it was.
Unwatched(ts) == [t \in Tab |-> [ts[t] EXCEPT !.fresh = FALSE]]

CleanupMonitoredRooms == monitored' = FALSE /\ takeover' = FALSE

\* The session is gone by the second read: the socket is closed, and its disconnect stops
\* the administrator's monitoring, as any does.
Refused(k) ==
    /\ conns[k].st = "auth" /\ session = "revoked"
    /\ conns' = [conns EXCEPT ![k] = [@ EXCEPT !.st = "out", !.up = FALSE, !.net = FALSE]]
    /\ tabs' = Unwatched(IF conns[k].net THEN [tabs EXCEPT ![conns[k].tab] = Unplugged(@)]
                         ELSE tabs)
    /\ IF conns[k].up THEN CleanupMonitoredRooms ELSE UNCHANGED <<monitored, takeover>>
    /\ UNCHANGED <<table, session, calls, msgs, room, acts>>

\* The network or the tab is gone.
Drop(t) ==
    /\ ~PutOut /\ tabs[t].conn # NoConn
    /\ conns' = [conns EXCEPT ![tabs[t].conn].net = FALSE]
    /\ tabs' = [tabs EXCEPT ![t] = Unplugged(@)]
    /\ UNCHANGED <<table, session, monitored, takeover, calls, msgs, room, acts>>

\* 'disconnect': what the administrator watched is cleaned up, whichever tab it was for.
Notice(k) ==
    /\ conns[k].up /\ ~conns[k].net
    /\ conns' = [conns EXCEPT ![k].up = FALSE]
    /\ IF k \in ToSet(table)
       THEN \E i \in DOMAIN table : table[i] = k /\ table' = RemoveAt(table, i)
       ELSE UNCHANGED table
    /\ tabs' = Unwatched(tabs)
    /\ CleanupMonitoredRooms
    /\ UNCHANGED <<session, calls, msgs, room, acts>>

RevokedTabs(gone) ==
    Unwatched([t \in Tab |-> IF tabs[t].conn \in gone THEN Unplugged(tabs[t]) ELSE tabs[t]])

\* revokeAdminSessions: the listed sockets first, ...
Revoke ==
    LET gone == ToSet(table)
    IN /\ ~PutOut /\ session = "valid" /\ session' = "revoking"
       /\ conns' = [k \in Conn |-> IF k \in gone
                                   THEN [conns[k] EXCEPT !.up = FALSE, !.net = FALSE]
                                   ELSE conns[k]]
       /\ table' = <<>>
       /\ tabs' = RevokedTabs(gone)
       /\ IF \E k \in gone : conns[k].up THEN CleanupMonitoredRooms
          ELSE UNCHANGED <<monitored, takeover>>
       /\ UNCHANGED <<calls, msgs, room, acts>>

\* ... and the session afterwards.
DeleteSession ==
    /\ session = "revoking" /\ session' = "revoked"
    /\ UNCHANGED <<conns, table, monitored, takeover, calls, tabs, msgs, room, acts>>

-----------------------------------------------------------------------------
(* Watching the room.                                                       *)

Act == acts < MaxActs /\ acts' = acts + 1
Ready(t) == tabs[t].open /\ tabs[t].authed
Call(t, op) == [conn |-> tabs[t].conn, op |-> op, data |-> <<>>]

OpenRoom(t) ==
    /\ Act /\ ~tabs[t].open
    /\ tabs' = [tabs EXCEPT ![t].open = TRUE]
    /\ UNCHANGED <<conns, table, session, monitored, takeover, calls, msgs, room>>

\* useRoomMonitoring, handleMonitorRoom up to its await.
Watch(t) ==
    /\ Ready(t) /\ ~tabs[t].watching
    /\ tabs' = [tabs EXCEPT ![t].watching = TRUE]
    /\ monitored' = TRUE
    /\ calls' = calls \cup {Call(t, "history")}
    /\ UNCHANGED <<conns, table, session, takeover, msgs, room, acts>>

FirstOf(history) == SubSeq(history, 1, Min({Limit, Len(history)}))

ReadHistory(c) ==
    /\ c.op = "history"
    /\ calls' = (calls \ {c}) \cup {[c EXCEPT !.op = "started",
                                            !.data = FirstOf(msgs.history)]}
    /\ UNCHANGED <<conns, table, session, monitored, takeover, tabs, msgs, room, acts>>

\* A message that the history has and that is broadcast later comes twice; one that it has
\* not, stored later or past the limit, and broadcast already is replaced, and lost.
Racy(data) ==
    LET read == ToSet(data)
    IN (read \cap msgs.posting) \cup ((ToSet(msgs.history) \ read) \ msgs.posting)

\* Mutant of MonitorStarted: the history is put after what has come meanwhile.
MonitorStartedAppend(c) ==
    /\ c.op = "started"
    /\ calls' = calls \ {c}
    /\ tabs' = IF conns[c.conn].net
               THEN [tabs EXCEPT ![conns[c.conn].tab] =
                        [@ EXCEPT !.shown = @ \o c.data, !.racy = Racy(c.data),
                                  !.fresh = monitored]]
               ELSE tabs
    /\ UNCHANGED <<conns, table, session, monitored, takeover, msgs, room, acts>>

\* 'monitor_started': the history replaces what the page shows.
MonitorStarted(c) ==
    /\ c.op = "started"
    /\ calls' = calls \ {c}
    /\ tabs' = IF conns[c.conn].net
               THEN [tabs EXCEPT ![conns[c.conn].tab] =
                        [@ EXCEPT !.shown = c.data, !.racy = Racy(c.data), !.fresh = monitored]]
               ELSE tabs
    /\ UNCHANGED <<conns, table, session, monitored, takeover, msgs, room, acts>>

\* The page is left: handleUnmonitorRoom does not touch takeoverRooms, nor does the page.
Back(t) ==
    /\ Act /\ tabs[t].open
    /\ monitored' = (monitored /\ ~tabs[t].watching)
    /\ LET left == [tabs EXCEPT ![t] = [@ EXCEPT !.open = FALSE, !.mode = FALSE]]
       IN tabs' = IF tabs[t].watching
                  THEN Unwatched([left EXCEPT ![t] = [@ EXCEPT !.watching = FALSE,
                                                              !.shown = <<>>]])
                  ELSE left
    /\ UNCHANGED <<conns, table, session, takeover, calls, msgs, room>>

-----------------------------------------------------------------------------
(* Messages, and moderator mode.                                            *)

Post(others) ==
    /\ Len(msgs.history) < MaxMsgs
    /\ LET m == Len(msgs.history) + 1
       IN msgs' = [history |-> Append(msgs.history, m), posting |-> msgs.posting \cup {m}]
    /\ UNCHANGED others

\* handleMessage stores a message first ...
UserMessage ==
    /\ room.open /\ ~PutOut /\ \A c \in calls : c.op # "impersonate"
    /\ Post(<<conns, table, session, monitored, takeover, calls, tabs, room, acts>>)

\* ... and, after the scan, shows it to the administrator's first connection.
Broadcast(m) ==
    /\ msgs' = [msgs EXCEPT !.posting = @ \ {m}]
    /\ tabs' = IF ~monitored \/ table = <<>> THEN tabs
               ELSE [t \in Tab |->
                       IF tabs[t].conn = Head(table)
                       THEN [tabs[t] EXCEPT !.shown = Append(@, m)]
                       ELSE [tabs[t] EXCEPT !.fresh = FALSE]]
    /\ UNCHANGED <<conns, table, session, monitored, takeover, calls, room, acts>>

\* The page switches at once; the server when it has looked for the room.
ModeOn(t) ==
    /\ Act /\ Ready(t) /\ ~tabs[t].mode
    /\ tabs' = [tabs EXCEPT ![t].mode = TRUE]
    /\ calls' = calls \cup {Call(t, "enter")}
    /\ UNCHANGED <<conns, table, session, monitored, takeover, msgs, room>>

\* Mutant of TakeoverEnter: the room need not be monitored.
TakeoverEnterAnyway(c) ==
    /\ c.op = "enter"
    /\ calls' = calls \ {c}
    /\ takeover' = (takeover \/ room.open)
    /\ UNCHANGED <<conns, table, session, monitored, tabs, msgs, room, acts>>

TakeoverEnter(c) ==
    /\ c.op = "enter"
    /\ calls' = calls \ {c}
    /\ takeover' = (takeover \/ (room.open /\ monitored))
    /\ UNCHANGED <<conns, table, session, monitored, tabs, msgs, room, acts>>

ModeOff(t) ==
    /\ Act /\ Ready(t) /\ tabs[t].mode
    /\ tabs' = [tabs EXCEPT ![t].mode = FALSE]
    /\ takeover' = FALSE
    /\ UNCHANGED <<conns, table, session, monitored, calls, msgs, room>>

\* RoomMonitor's send: out of moderator mode the note follows 'enter' on the heels.
SendNote(t) ==
    /\ Act /\ Ready(t)
    /\ tabs' = [tabs EXCEPT ![t].mode = TRUE]
    /\ calls' = calls \cup {Call(t, "note")}
                      \cup (IF tabs[t].mode THEN {} ELSE {Call(t, "enter")})
    /\ UNCHANGED <<conns, table, session, monitored, takeover, msgs, room>>

\* handleAdminMessage asks for moderator mode only; without it the note is refused.
AdminMessage(c) ==
    /\ c.op = "note"
    /\ calls' = calls \ {c}
    /\ IF takeover /\ room.open
       THEN Post(<<conns, table, session, monitored, takeover, tabs, room, acts>>)
       ELSE UNCHANGED <<conns, table, session, monitored, takeover, tabs, msgs, room, acts>>

-----------------------------------------------------------------------------
(* Impersonation.                                                           *)

\* Bounds: it is the last act, no other tab is listed, no other handler awaits, and nobody
\* has written; no step from here on looks at the messages.
AskImpersonate(t) ==
    /\ acts < MaxActs /\ acts' = MaxActs /\ Ready(t)
    /\ table = <<tabs[t].conn>> /\ calls = {} /\ msgs.history = <<>>
    /\ calls' = {Call(t, "impersonate")}
    /\ UNCHANGED <<conns, table, session, monitored, takeover, tabs, msgs, room>>

\* The member is disconnected by the server, which is no transport drop: the cleanup of a
\* departure starts.  The other member is told to wait.
TakeoverImpersonate(c) ==
    /\ c.op = "impersonate"
    /\ calls' = calls \ {c}
    /\ room' = IF room.open /\ monitored
               THEN [room EXCEPT !.cleanup = "find", !.other = "waits"] ELSE room
    /\ UNCHANGED <<conns, table, session, monitored, takeover, tabs, msgs, acts>>

Only(part) ==
    /\ room' = part
    /\ UNCHANGED <<conns, table, session, monitored, takeover, calls, tabs, msgs, acts>>

\* handleTakeoverConnection of the new tab that has the token: it finds the room ...
TakeoverFind ==
    /\ PutOut /\ room.entry = "no" /\ room.open
    /\ Only([room EXCEPT !.entry = "find"])

\* ... and tells the other member after it has awaited the servers of the call, whatever has
\* become of the room.  A page that was told that the chat is over does not come back.
TakeoverConnection ==
    /\ room.entry = "find"
    /\ Only([room EXCEPT !.entry = "in", !.other = IF @ = "waits" THEN "chats" ELSE @])

\* A call of cleanupUserOnDisconnect fails: the room service logs it and answers null, and
\* the cleanup goes on as if there were nobody to tell.  The removal may have been made.
CleanupFails ==
    /\ room.cleanup \in {"find", "delete"}
    /\ \E open \in {room.open, room.open /\ room.cleanup = "find"} :
          Only([room EXCEPT !.open = open, !.cleanup = "failed"])

CleanupFind ==
    /\ room.cleanup = "find"
    /\ Only([room EXCEPT !.cleanup = IF room.open THEN "delete" ELSE "done"])

\* removeUserFromRoom, until its answer is there: null when somebody else ended the room.
CleanupDelete ==
    /\ room.cleanup = "delete"
    /\ Only([room EXCEPT !.open = FALSE, !.cleanup = IF room.open THEN "tell" ELSE "done"])

\* Mutant of CleanupTell: a member who waits is not told.
CleanupTellTheChatting ==
    /\ room.cleanup = "tell"
    /\ Only([room EXCEPT !.cleanup = "done", !.other = IF @ = "chats" THEN "left" ELSE @])

\* 'partner_disconnected'
CleanupTell ==
    /\ room.cleanup = "tell"
    /\ Only([room EXCEPT !.cleanup = "done", !.other = "left"])

PutOutCleanup == CleanupFails \/ CleanupFind \/ CleanupDelete \/ CleanupTell

\* The member who waits leaves: handleLeave finds the room, ...
WaiterLeaves ==
    /\ room.other = "waits" /\ room.leave = "no" /\ room.open
    /\ Only([room EXCEPT !.leave = "delete"])

\* ... ends it, or fails to, ...
EndByWaiter ==
    /\ room.leave = "delete"
    /\ \E open \in {FALSE, room.open} : Only([room EXCEPT !.open = open, !.leave = "tell"])

\* ... and answers 'left' in any case.
WaiterIsOut ==
    /\ room.leave = "tell"
    /\ Only([room EXCEPT !.leave = "no", !.other = "left"])

WaiterGoes == WaiterLeaves \/ EndByWaiter \/ WaiterIsOut

Next ==
    \/ \E t \in Tab :
          \/ Connect(t) \/ Drop(t) \/ OpenRoom(t) \/ Watch(t) \/ Back(t)
          \/ ModeOn(t) \/ ModeOff(t) \/ SendNote(t) \/ AskImpersonate(t)
    \/ \E k \in Conn : Authenticated(k) \/ Refused(k) \/ Notice(k)
    \/ \E c \in calls :
          \/ ReadHistory(c) \/ MonitorStarted(c) \/ TakeoverEnter(c) \/ AdminMessage(c)
          \/ TakeoverImpersonate(c)
    \/ \E m \in msgs.posting : Broadcast(m)
    \/ Revoke \/ DeleteSession \/ UserMessage
    \/ TakeoverFind \/ TakeoverConnection \/ PutOutCleanup \/ WaiterGoes

Spec == Init /\ [][Next]_vars

-----------------------------------------------------------------------------
(* What holds.                                                              *)

\* Nobody is recorded as watching a private chat, or as its moderator, without a connection
\* that the server takes for open: not after a late disconnect of another tab, nor by an
\* 'enter' whose handler outlived its connection.
WatcherHasSocket ==
    monitored \/ takeover => \E k \in Conn : conns[k].up /\ conns[k].st = "in"

\* Where a page shows a message.
Shown(t, m) == {i \in DOMAIN tabs[t].shown : tabs[t].shown[i] = m}

\* A page whose history has come shows every message that has been broadcast, once, except
\* the two races with that history, as long as no other connection of the administrator
\* ended, stopped watching, or was served instead.
MessagesShownOnce ==
    \A t \in Tab : tabs[t].fresh =>
        \A m \in ToSet(msgs.history) \ tabs[t].racy :
            /\ \A i, j \in Shown(t, m) : i = j
            /\ m \notin msgs.posting => Shown(t, m) # {}

\* A member who was told to wait for the other one is told more: somebody has still to tell
\* him that the chat is over, the cleanup of the one who was put out or his own leave, though
\* either may end the room before the other has found it, and the administrator's entry may
\* come in between (admin.handler.ts:1320, room.handler.ts:51-161 and 213-287,
\* index.ts:532-596).  A cleanup of which a call fails leaves him waiting.
WaiterIsTold == room.other = "waits" => room.cleanup # "done" \/ room.leave # "no"

-----------------------------------------------------------------------------
(* What one would expect, and the code does not do.                         *)

\* "Tell the remaining participant their partner will reconnect (holds room)": the room is
\* not ended while the token is out.  It is: the member's own cleanup deletes it.
TakeoverHoldsRoom == PutOut => room.open

\* A moderator has the room open: leaving the page leaves the mode on.
ModeratorWatches == takeover => monitored

\* A page that watches is served: any other tab's end stops it for good.
WatcherIsServed ==
    \A t \in Tab : tabs[t].watching /\ (\A u \in Tab \ {t} : ~tabs[u].watching) => monitored

\* Only open connections are listed: one that breaks while it authenticates stays for good,
\* and as the first of its administrator it swallows every message.
ListedIsOpen == \A k \in ToSet(table) : conns[k].up

\* A revoked administrator has no connection: one that was authenticating keeps it.
RevokedIsOut == session = "revoked" => \A k \in Conn : conns[k].st = "in" => ~conns[k].up

\* No note of a page that is in moderator mode is refused.  The first one is, when it comes
\* while 'enter' is still looking for the room.
NoteIsTaken ==
    [][\A c \in calls \ calls' : c.op = "note" => takeover \/ ~room.open]_vars
=============================================================================
