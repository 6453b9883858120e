------------------------------ MODULE ChatRelay ------------------------------
(***************************************************************************)
(* What is said in a chat: from useChat.ts of the one who says it, through *)
(* handleMessage and handleTyping of chat.handler.ts, to useChat.ts of the *)
(* partner; with the history in Redis and the answers of a bot.            *)
(*                                                                         *)
(* The messages of a socket do not wait for one another, or for a leave:   *)
(* each runs in a coroutine of its own, cut here at every await.  Chats    *)
(* are numbered as the server makes them; 0 is none.  A chat is made in one    *)
(* step and left in two, which Matchmaking and BotPool have in full; the   *)
(* sockets stay up (SessionResume), and the buttons of the screen answer   *)
(* at once but for the await of leaveRTC (ClientSession).                  *)
(***************************************************************************)
EXTENDS Naturals, SequencesExt

CONSTANTS
    User,        \* the people, all connected
    Talker,      \* those of them who write; the others read, and leave
    Bot,         \* the partner that is a program
    MaxChats,    \* bound: chats made
    MaxSaid,     \* bound: messages people send
    MaxMoves,    \* bound: presses of Next and Leave, and times that somebody starts to type
    MaxActs      \* bound: both, with the events that a limiter or the bots' budget refuses
                 \* and the calls to Redis that fail

ASSUME ChatAssumption ==
    /\ Talker \subseteq User /\ Bot \notin User
    /\ MaxChats \in Nat /\ MaxSaid \in Nat /\ MaxMoves \in Nat /\ MaxActs \in Nat

VARIABLES
    room,       \* Redis: per chat its members, whether it is there, what was said in it, and
                \* what it was not told of (a ghost: the code only logs it)
    srv,        \* the server's socket of each user
    leave,      \* the chat that the handleLeave of each user is about
    up, down,   \* what is under way to the server and to the browser, in order
    calls,      \* coroutines of handleMessage that wait for Redis, in order
    scans,      \* messages whose incidents are being stored
    replies,    \* answers of the bot that are being made
    cli,        \* useChat and the session of each browser
    owed,       \* messages sent in a chat that goes on, and not refused
    count       \* the bounded counts

vars == <<room, srv, leave, up, down, calls, scans, replies, cli, owed, count>>

Chat == 1..MaxChats
NoChat == 0
Partner == User \cup {Bot}

\* hot: incidentService finds something in it.  A reply of the bot has number 0.
Message == [by : Partner, chat : Chat, n : 0..MaxSaid, hot : BOOLEAN]

\* over: 'left', 'partner_left', and the errors that say there is no chat, which the browser
\* takes alike; error: any other; refused: the status 'error' of a join.  room: the room of
\* socket.io that a message was sent to, which the browser is not told.
ToServer ==
    [do : {"join", "leave"}] \cup [do : {"message"}, what : Message]
        \cup [do : {"typing"}, on : BOOLEAN]
ToBrowser ==
    [say : {"over", "error", "refused"}] \cup [say : {"matched"}, chat : Chat]
        \cup [say : {"message"}, what : Message, room : Chat]
        \cup [say : {"typing"}, by : Partner, on : BOOLEAN]

\* Nothing shown, nobody seen to type.
Blank == [shown |-> <<>>, sees |-> NoChat, hides |-> FALSE]

RoomState == [who : SUBSET Partner, live : BOOLEAN, log : SUBSET Message, lost : SUBSET Message]
SocketState ==
    [st : {"idle", "queue", "active"}, chat : Chat \cup {NoChat},
     rooms : SUBSET Chat]                         \* rooms of socket.io
CallState == [at : {"room", "store", "stored"}, what : Message, chat : Chat]
ReplyState == [what : Message, chat : Chat, bot : Chat, at : {"think", "type"}]
PageState ==
    [at : {"out", "search", "in", "next", "ending"},
     match : Chat \cup {NoChat},                  \* matchDataRef
     shown : Seq(Message),                        \* messages, but for one's own
     sees : Partner \cup {NoChat},                \* isPartnerTypingInternal, and of whom
     hides : BOOLEAN,                             \* typingTimeoutRef
     kept : [shown : Seq(Message), sees : Partner \cup {NoChat}, hides : BOOLEAN],
                                                  \* what pendingIncomingRef will come to
     halted : BOOLEAN,                            \* the page has no chat and no buttons
     typed : BOOLEAN]                             \* lastTypingStateRef

TypeOK ==
    /\ room \in [Chat -> RoomState] /\ srv \in [User -> SocketState]
    /\ leave \in [User -> Chat \cup {NoChat}]
    /\ up \in [User -> Seq(ToServer)] /\ down \in [User -> Seq(ToBrowser)]
    /\ calls \in Seq(CallState) /\ scans \in SUBSET [what : Message, chat : Chat]
    /\ replies \in SUBSET ReplyState /\ cli \in [User -> PageState]
    /\ owed \in SUBSET Message
    /\ count \in [chats : 0..MaxChats, said : 0..MaxSaid, moves : 0..MaxMoves,
                  acts : 0..MaxActs]

Init ==
    /\ room = [c \in Chat |-> [who |-> {}, live |-> FALSE, log |-> {}, lost |-> {}]]
    /\ srv = [u \in User |-> [st |-> "idle", chat |-> NoChat, rooms |-> {}]]
    /\ leave = [u \in User |-> NoChat]
    /\ up = [u \in User |-> <<>>] /\ down = [u \in User |-> <<>>]
    /\ calls = <<>> /\ scans = {} /\ replies = {} /\ owed = {}
    /\ cli = [u \in User |->
                 [at |-> "out", match |-> NoChat, shown |-> <<>>, sees |-> NoChat,
                  hides |-> FALSE, kept |-> Blank, halted |-> FALSE, typed |-> FALSE]]
    /\ count = [chats |-> 0, said |-> 0, moves |-> 0, acts |-> 0]

-----------------------------------------------------------------------------
(* Helpers.                                                                 *)

\* The chat that the key user:room:<uid> names, or NoChat.
KeyOf(u) ==
    IF \E c \in Chat : room[c].live /\ u \in room[c].who
    THEN CHOOSE c \in Chat : room[c].live /\ u \in room[c].who ELSE NoChat

\* socket.to(roomId): the sockets in the room of chat c, but for the one that speaks.
Listeners(c, by) == {u \in User \ {by} : c \in srv[u].rooms}

Tell(who, item) == [u \in User |-> IF u \in who THEN Append(down[u], item) ELSE down[u]]
SayTyping(by, on) == [say |-> "typing", by |-> by, on |-> on]
SayMessage(what, c) == [say |-> "message", what |-> what, room |-> c]

MayAct == count.acts < MaxActs
Refused == MayAct /\ count' = [count EXCEPT !.acts = @ + 1]
Moves ==
    /\ MayAct /\ count.moves < MaxMoves
    /\ count' = [count EXCEPT !.moves = @ + 1, !.acts = @ + 1]
\* A call to Redis fails, or the breaker refuses it.
Fails == Refused

-----------------------------------------------------------------------------
(* Chats are made and left.                                                 *)

Arrives(u, do) == up[u] # <<>> /\ Head(up[u]).do = do /\ up' = [up EXCEPT ![u] = Tail(@)]

\* registerConnection and handleJoin, which wait in the socket's chain for a leave before
\* them.  A join that is refused has made the socket idle.
Join(u) ==
    /\ leave[u] = NoChat /\ Arrives(u, "join")
    /\ IF KeyOf(u) = NoChat
       THEN srv' = [srv EXCEPT ![u].st = "queue", ![u].chat = NoChat] /\ UNCHANGED down
       ELSE /\ srv' = [srv EXCEPT ![u].st = "idle"]
            /\ down' = Tell({u}, [say |-> "refused"])
    /\ UNCHANGED <<room, leave, calls, scans, replies, cli, owed, count>>

Pair(who) ==
    LET c == count.chats + 1
        people == who \cap User
    IN  /\ c \in Chat /\ \A u \in people : srv[u].st = "queue"
        /\ room' = [room EXCEPT ![c] = [who |-> who, live |-> TRUE, log |-> {}, lost |-> {}]]
        /\ srv' = [u \in User |->
                     IF u \in people
                     THEN [st |-> "active", chat |-> c, rooms |-> srv[u].rooms \cup {c}]
                     ELSE srv[u]]
        /\ down' = Tell(people, [say |-> "matched", chat |-> c])
        /\ count' = [count EXCEPT !.chats = c]
        /\ UNCHANGED <<leave, up, calls, scans, replies, cli, owed>>
\* Nothing happens in a chat of the bot with somebody who does not write.
Match ==
    \/ \E u, v \in User : u # v /\ Pair({u, v})
    \/ \E u \in Talker : Pair({u, Bot})

\* handleLeave up to its awaits, the archive of the history among them.  It does nothing when
\* the room is not found, be it that Redis did not answer.
Leave(u) ==
    /\ leave[u] = NoChat /\ Arrives(u, "leave")
    /\ \/ leave' = [leave EXCEPT ![u] = KeyOf(u)] /\ UNCHANGED count
       \/ Fails /\ UNCHANGED leave
    /\ UNCHANGED <<room, srv, down, calls, scans, replies, cli, owed>>

\* removeUserFromRoom and the rest of handleLeave.  The partner is told, and made idle, even
\* when it is in another chat by now.
Depart(u) ==
    LET c == leave[u]
        gone == room[c].who \cap User
    IN  /\ c # NoChat
        /\ leave' = [leave EXCEPT ![u] = NoChat]
        /\ room' = IF room[c].live THEN [room EXCEPT ![c].live = FALSE, ![c].log = {}]
                   ELSE room
        /\ srv' = [v \in User |->
                     IF v \in gone
                     THEN [st |-> "idle", chat |-> NoChat, rooms |-> srv[v].rooms \ {c}]
                     ELSE srv[v]]
        /\ down' = Tell(gone, [say |-> "over"])
        /\ owed' = {what \in owed : what.chat # c}
        /\ UNCHANGED <<up, calls, scans, replies, cli, count>>

-----------------------------------------------------------------------------
(* handleMessage.                                                           *)

\* A message that is not relayed: its sender is told.
Refuse(u, what, item) ==
    /\ owed' = owed \ {what}
    /\ down' = Tell({u}, [say |-> item])

\* Mutant of ReceiveMessage: a limiter drops the message, as it does a typing event.
ReceiveMessageOrDrop(u) ==
    LET what == Head(up[u]).what IN
    /\ Arrives(u, "message")
    /\ \/ Refused /\ UNCHANGED <<calls, down, owed>>
       \/ /\ srv[u].st = "active" /\ KeyOf(u) # NoChat
          /\ calls' = Append(calls, [at |-> "room", what |-> what, chat |-> KeyOf(u)])
          /\ UNCHANGED <<down, owed, count>>
       \/ /\ srv[u].st # "active" \/ KeyOf(u) = NoChat
          /\ Refuse(u, what, "over") /\ UNCHANGED <<calls, count>>
    /\ UNCHANGED <<room, srv, leave, scans, replies, cli>>

\* The limiters of the address and of the user, the state of the socket, and the key of the
\* room, which is asked for at once.
ReceiveMessage(u) ==
    LET what == Head(up[u]).what IN
    /\ Arrives(u, "message")
    /\ \/ /\ Refused
          /\ Refuse(u, what, "error") /\ UNCHANGED calls
       \/ /\ srv[u].st # "active" \/ KeyOf(u) = NoChat
          /\ Refuse(u, what, "over") /\ UNCHANGED <<calls, count>>
       \/ /\ srv[u].st = "active" /\ KeyOf(u) # NoChat
          /\ calls' = Append(calls, [at |-> "room", what |-> what, chat |-> KeyOf(u)])
          /\ UNCHANGED <<down, owed, count>>
    /\ UNCHANGED <<room, srv, leave, scans, replies, cli>>

\* Redis answers in the order it is asked.
Answered(at) == calls # <<>> /\ Head(calls).at = at
Asks(at) == calls' = Append(Tail(calls), [Head(calls) EXCEPT !.at = at])

\* Mutant of FindRoom: the partner is told before the message is stored.
FindRoomAndTell ==
    LET m == Head(calls) IN
    /\ Answered("room")
    /\ \/ /\ room[m.chat].live /\ Asks("store")
          /\ down' = Tell(Listeners(m.chat, m.what.by), SayMessage(m.what, m.chat))
          /\ UNCHANGED <<owed, count>>
       \/ /\ IF room[m.chat].live THEN Fails ELSE UNCHANGED count
          /\ calls' = Tail(calls) /\ Refuse(m.what.by, m.what, "over")
    /\ UNCHANGED <<room, srv, leave, up, scans, replies, cli>>

\* getRoomByUserId, which finds no room when Redis does not answer.
FindRoom ==
    LET m == Head(calls) IN
    /\ Answered("room")
    /\ \/ room[m.chat].live /\ Asks("store") /\ UNCHANGED <<down, owed, count>>
       \/ /\ IF room[m.chat].live THEN Fails ELSE UNCHANGED count
          /\ calls' = Tail(calls) /\ Refuse(m.what.by, m.what, "over")
    /\ UNCHANGED <<room, srv, leave, up, scans, replies, cli>>

\* addChatMessage: the list is made anew when the room has been deleted.  A write that fails
\* is logged, and handleMessage goes on as if it had been made.
Store ==
    LET m == Head(calls) IN
    /\ Answered("store") /\ Asks("stored")
    /\ \/ room' = [room EXCEPT ![m.chat].log = @ \cup {m.what}] /\ UNCHANGED count
       \/ Fails /\ room' = [room EXCEPT ![m.chat].lost = @ \cup {m.what}]
    /\ UNCHANGED <<srv, leave, up, down, scans, replies, cli, owed>>

\* Mutant of Relay: the room is read from the socket, after the awaits.
RelayNow(what, c) ==
    /\ down' = Tell({v \in Listeners(srv[what.by].chat, what.by) : srv[v].chat # NoChat},
                    SayMessage(what, c))
    /\ UNCHANGED <<replies, count>>

\* The end of handleMessage, for a message of chat c.  The partner is read from the socket
\* only now; when it is a bot the budget is asked, and an answer begun.
Relay(what, c) ==
    LET u == what.by
        heard == Tell(Listeners(c, u), SayMessage(what, c))
        b == srv[u].chat
        withBot == b # NoChat /\ Bot \in room[b].who
    IN  \/ /\ ~withBot
           /\ down' = heard /\ UNCHANGED <<replies, count>>
        \/ /\ withBot /\ Refused
           /\ down' = heard /\ UNCHANGED replies
        \/ /\ withBot
           /\ down' = [heard EXCEPT ![u] = Append(@, SayTyping(Bot, TRUE))]
           /\ replies' = replies \cup
                   {[what |-> what, chat |-> c, bot |-> b, at |-> "think"]}
           /\ UNCHANGED count

\* Mutant of Scan: every message waits for the database.
ScanAll ==
    /\ Answered("stored")
    /\ calls' = Tail(calls)
    /\ scans' = scans \cup {[what |-> Head(calls).what, chat |-> Head(calls).chat]}
    /\ UNCHANGED <<room, srv, leave, up, down, replies, cli, owed, count>>

\* scanAndStore: only a message with something in it waits for the database.
Scan ==
    LET what == Head(calls).what IN
    /\ Answered("stored")
    /\ calls' = Tail(calls)
    /\ IF what.hot
       THEN /\ scans' = scans \cup {[what |-> what, chat |-> Head(calls).chat]}
            /\ UNCHANGED <<down, replies, count>>
       ELSE Relay(what, Head(calls).chat) /\ UNCHANGED scans
    /\ UNCHANGED <<room, srv, leave, up, cli, owed>>

Scanned(s) ==
    /\ s \in scans /\ scans' = scans \ {s}
    /\ Relay(s.what, s.chat)
    /\ UNCHANGED <<room, srv, leave, up, calls, cli, owed>>

-----------------------------------------------------------------------------
(* The bot: every chat with it has a bot of its own of the pool.            *)

\* Mutant of BotIsSilent: the indicator is left on.
BotIsSilentQuietly(r) ==
    /\ r \in replies /\ r.at = "think" /\ replies' = replies \ {r}
    /\ UNCHANGED <<room, srv, leave, up, down, calls, scans, cli, owed, count>>

\* botManager.handleMessage finds no bot: the bots were disabled.
BotIsSilent(r) ==
    /\ r \in replies /\ r.at = "think" /\ replies' = replies \ {r}
    /\ down' = Tell({r.what.by}, SayTyping(Bot, FALSE))
    /\ UNCHANGED <<room, srv, leave, up, calls, scans, cli, owed, count>>

\* The model fails: handleBotErrorDisconnect ends the chat that the bot is in.
BotFails(r) ==
    /\ r \in replies /\ r.at = "think" /\ replies' = replies \ {r}
    /\ IF room[r.bot].live
       THEN /\ room' = [room EXCEPT ![r.bot].live = FALSE, ![r.bot].log = {}]
            /\ owed' = {what \in owed : what.chat # r.bot}
            /\ down' = [down EXCEPT ![r.what.by] =
                           @ \o <<[say |-> "over"], SayTyping(Bot, FALSE)>>]
       ELSE down' = Tell({r.what.by}, SayTyping(Bot, FALSE)) /\ UNCHANGED <<room, owed>>
    /\ UNCHANGED <<srv, leave, up, calls, scans, cli, count>>

BotAnswers(r) ==
    /\ r \in replies /\ r.at = "think"
    /\ replies' = (replies \ {r}) \cup {[r EXCEPT !.at = "type"]}
    /\ UNCHANGED <<room, srv, leave, up, down, calls, scans, cli, owed, count>>

\* The delay of typing is over: the socket of the user is told, whatever chat it is in by
\* now, and then the history of the chat the reply is of.
BotSays(r) ==
    LET what == [by |-> Bot, chat |-> r.bot, n |-> 0, hot |-> FALSE] IN
    /\ r \in replies /\ r.at = "type" /\ replies' = replies \ {r}
    /\ down' = [down EXCEPT ![r.what.by] = @ \o <<SayTyping(Bot, FALSE), SayMessage(what, r.bot)>>]
    /\ room' = [room EXCEPT ![r.chat].log = @ \cup {what}]
    /\ UNCHANGED <<srv, leave, up, calls, scans, cli, owed, count>>

-----------------------------------------------------------------------------
(* handleTyping, which asks nobody.                                         *)

ReceiveTyping(u) ==
    /\ Arrives(u, "typing")
    /\ \/ /\ Refused /\ UNCHANGED down
       \/ /\ srv[u].st = "active" /\ srv[u].chat # NoChat
          /\ down' = Tell(Listeners(srv[u].chat, u), SayTyping(u, Head(up[u]).on))
          /\ UNCHANGED count
       \/ /\ srv[u].st # "active" \/ srv[u].chat = NoChat
          /\ UNCHANGED <<down, count>>
    /\ UNCHANGED <<room, srv, leave, calls, scans, replies, cli, owed>>

-----------------------------------------------------------------------------
(* useChat.                                                                 *)

\* clearMessages
Cleared(k) ==
    [k EXCEPT !.shown = <<>>, !.sees = NoChat, !.hides = FALSE, !.kept = Blank,
              !.typed = FALSE]

\* ingestIncoming.  A change of the state renders the page again; the callbacks that
\* useVideoChat passes are new then, so the effect runs again and clears the timer that
\* was to hide the indicator.  It stays only when the indicator was on already.
Ingest(k, item) ==
    IF item.say = "message" THEN [k EXCEPT !.shown = Append(@, item.what), !.hides = FALSE]
    ELSE [k EXCEPT !.sees = IF item.on THEN item.by ELSE NoChat,
                   !.hides = item.on /\ k.sees # NoChat]

Keep(k, item) == [k EXCEPT !.kept = Ingest(@, item)]

\* The effect on isInSession, which takes in, one by one, what came before the session.
\* Before it nothing is shown, so that it comes to the same whenever it is taken in.
Drained(k) ==
    IF k.at = "in" THEN k
    ELSE [k EXCEPT !.at = "in", !.shown = k.kept.shown, !.sees = k.kept.sees,
                   !.hides = k.kept.hides, !.kept = Blank]

HideTyping(u) ==
    /\ cli[u].hides
    /\ cli' = [cli EXCEPT ![u].sees = NoChat, ![u].hides = FALSE]
    /\ UNCHANGED <<room, srv, leave, up, down, calls, scans, replies, owed, count>>

\* sendMessage.  Only the first message may have something in it (a bound).
Say(u) ==
    /\ u \in Talker /\ cli[u].at = "in" /\ ~cli[u].halted
    /\ MayAct /\ count.said < MaxSaid
    /\ count' = [count EXCEPT !.said = @ + 1, !.acts = @ + 1]
    /\ \E hot \in BOOLEAN :
        LET what == [by |-> u, chat |-> cli[u].match, n |-> count.said + 1, hot |-> hot]
        IN  /\ hot => count.said = 0
            /\ owed' = owed \cup {what}
            /\ up' = [up EXCEPT ![u] = Append(@, [do |-> "message", what |-> what])]
    /\ UNCHANGED <<room, srv, leave, down, calls, scans, replies, cli>>

\* sendTypingIndicator; the debounce of the end is the time that passes before StopTyping.
SendTyping(u, on) ==
    /\ cli[u].at = "in" /\ cli[u].typed = ~on
    /\ cli' = [cli EXCEPT ![u].typed = on]
    /\ up' = [up EXCEPT ![u] = Append(@, [do |-> "typing", on |-> on])]
    /\ UNCHANGED <<room, srv, leave, down, calls, scans, replies, owed>>
StartTyping(u) ==
    /\ u \in Talker /\ ~cli[u].halted /\ Moves /\ SendTyping(u, TRUE)
StopTyping(u) == SendTyping(u, FALSE) /\ UNCHANGED count

\* The handler of ws.onMessage.
ReceiveItem(u) ==
    LET item == Head(down[u]) IN
    /\ down[u] # <<>> /\ item.say \in {"message", "typing"}
    /\ down' = [down EXCEPT ![u] = Tail(@)]
    /\ cli' = [cli EXCEPT ![u] = IF @.at = "in" THEN Ingest(@, item) ELSE Keep(@, item)]
    /\ UNCHANGED <<room, srv, leave, up, calls, scans, replies, owed, count>>

-----------------------------------------------------------------------------
(* The session on the screen (ClientSession has it in full).                *)

\* What the browser makes of a match and of the end of a chat: k is it before.
OnMatched(k, c) ==
    IF k.at \in {"next", "ending"} THEN [k EXCEPT !.match = c, !.halted = FALSE]
    ELSE [Drained(k) EXCEPT !.match = c, !.halted = FALSE]

\* handlePartnerLeft does nothing in findNext, endSessionFinal, and for half a second after
\* Next: a chat that ends in this time stays on the screen, without its buttons.
OnOver(k) ==
    LET dull == [k EXCEPT !.match = NoChat, !.halted = (k.at = "in")]
    IN  (IF k.at \in {"in", "search", "out"}
         THEN {[Cleared(k) EXCEPT !.at = "ending", !.match = NoChat, !.halted = FALSE]}
         ELSE {})
        \cup (IF k.at = "out" THEN {} ELSE {dull})

ReceiveStatus(u) ==
    LET item == Head(down[u]) IN
    /\ down[u] # <<>> /\ item.say \notin {"message", "typing"}
    /\ down' = [down EXCEPT ![u] = Tail(@)]
    /\ \/ /\ item.say = "matched"
          /\ cli' = [cli EXCEPT ![u] = OnMatched(@, item.chat)]
       \/ /\ item.say = "over"
          /\ \E k \in OnOver(cli[u]) : cli' = [cli EXCEPT ![u] = k]
       \/ /\ item.say = "error"
          /\ cli' = [cli EXCEPT ![u].halted = TRUE]
       \/ /\ item.say = "refused"
          /\ cli' = [cli EXCEPT ![u].at = IF @ = "search" THEN "out" ELSE @,
                                ![u].halted = (cli[u].at = "in")]
    /\ UNCHANGED <<room, srv, leave, up, calls, scans, replies, owed, count>>

\* A button, or the end of an await of one: the browser goes from one place to another.
Goes(u, from, k, sends) ==
    /\ cli[u].at = from
    /\ cli' = [cli EXCEPT ![u] = k]
    /\ up' = [up EXCEPT ![u] = @ \o sends]
    /\ UNCHANGED <<room, srv, leave, down, calls, scans, replies, owed>>
Sends(do) == <<[do |-> do]>>

Start(u) ==
    /\ count.chats < MaxChats /\ ~cli[u].halted /\ UNCHANGED count
    /\ Goes(u, "out", [cli[u] EXCEPT !.at = "search"], Sends("join"))
FindNext(u) ==
    /\ Moves /\ ~cli[u].halted
    /\ Goes(u, "in", [Cleared(cli[u]) EXCEPT !.at = "next", !.match = NoChat],
            Sends("leave"))
NextJoins(u) ==
    /\ UNCHANGED count
    /\ Goes(u, "next", [cli[u] EXCEPT !.at = "search", !.halted = FALSE], Sends("join"))
End(u) ==
    /\ Moves /\ ~cli[u].halted
    /\ Goes(u, "in", [Cleared(cli[u]) EXCEPT !.at = "ending"], <<>>)
EndFinishes(u) ==
    /\ UNCHANGED count
    /\ Goes(u, "ending",
            [cli[u] EXCEPT !.at = "out", !.match = NoChat,
                           !.halted = @ /\ cli[u].match = NoChat],
            IF cli[u].match = NoChat THEN <<>> ELSE Sends("leave"))

-----------------------------------------------------------------------------
(* The specification.                                                       *)

ServerStep(u) ==
    Join(u) \/ Leave(u) \/ Depart(u)
        \/ ReceiveMessage(u) \/ ReceiveTyping(u)
Calls == FindRoom \/ Store \/ Scan
Scans == \E s \in scans : Scanned(s)
BotStep(r) == BotIsSilent(r) \/ BotFails(r) \/ BotAnswers(r) \/ BotSays(r)
Bots == \E r \in replies : BotStep(r)
Browser(u) == ReceiveItem(u) \/ ReceiveStatus(u) \/ NextJoins(u) \/ EndFinishes(u)
Person(u) == Say(u) \/ StartTyping(u) \/ StopTyping(u) \/ Start(u) \/ FindNext(u) \/ End(u)

Next ==
    \/ \E u \in User : ServerStep(u) \/ Browser(u) \/ Person(u) \/ HideTyping(u)
    \/ Match \/ Calls \/ Scans \/ Bots

Spec == Init /\ [][Next]_vars

\* Handlers run, calls are answered, timers of the bot end, and events are delivered.
\* Nobody has to press a button, say or stop saying anything, or be matched.
Fairness ==
    /\ \A u \in User :
        WF_vars(ServerStep(u)) /\ WF_vars(Browser(u)) /\ WF_vars(HideTyping(u))
    /\ WF_vars(Calls) /\ WF_vars(Scans) /\ WF_vars(Bots)

FairSpec == Spec /\ Fairness

-----------------------------------------------------------------------------
(* Properties.                                                              *)

\* A message that a person said and the server sent into a chat reaches a browser while the
\* last news of a match that it has had, or has before it, are those of this chat, or while
\* it has been told that its chat is over: though handleMessage awaits four times between
\* the check of the state and the relay, and neither leave nor join wait for it
\* (chat.handler.ts:99-192, index.ts:370).
NoCrossTalk ==
    \A u \in User : \A i \in DOMAIN down[u] :
        LET item == down[u][i]
            news == {j \in 1..i : down[u][j].say = "matched"}
        IN  item.say = "message" /\ item.what.n # 0 =>
                IF news # {} THEN down[u][Max(news)].chat = item.room
                ELSE cli[u].at = "in" => cli[u].match \in {item.room, NoChat}

\* The messages of a person with nothing in them for the incident scan are shown in the
\* order they were said, those kept for the session included; one that waits for the
\* database is overtaken (chat.handler.ts:163).
CleanOrderKept ==
    \A u \in User : LET shown == cli[u].shown IN
        \A i, j \in DOMAIN shown :
            /\ i < j /\ shown[i].by = shown[j].by
            /\ ~shown[i].hot /\ ~shown[j].hot /\ shown[j].n # 0
            => shown[i].n < shown[j].n

\* Whatever a partner reads is in the history of its chat as long as the room is there: the
\* moderator who opens it, and the leave that archives it, find it (chat.handler.ts:152).  A
\* write that fails is swallowed and its message relayed (room.service.ts:497): it costs the
\* history this message, and none that was read before it or is read after it.  The reply
\* of a bot is shown before it is stored.
ShownIsRecorded ==
    \A u \in User : \A what \in ToSet(cli[u].shown) :
        what.n # 0 /\ room[what.chat].live =>
            what \in room[what.chat].log \cup room[what.chat].lost

\* A message in a chat of two people is shown to the partner whose page has this chat, or its
\* sender is told that it was not relayed, or the chat ends.
Unsettled ==
    {what \in owed : \E u \in (room[what.chat].who \cap User) \ {what.by} :
        /\ room[what.chat].live
        /\ cli[u].at = "in" /\ cli[u].match = what.chat
        /\ what \notin ToSet(cli[u].shown)}
SaidIsSettled == Unsettled # {} ~> Unsettled = {}

\* The indicator of a bot goes off, whether it answers, fails or is gone by then; the one of
\* a person may stay (TypingEnds).
BotStopsTyping == (\E u \in User : cli[u].sees = Bot) ~> (\A u \in User : cli[u].sees # Bot)

\* "Automatic cleanup on session end" (useChat.ts:9): what is shown was said in this chat.
ShownInItsChat ==
    \A u \in User : cli[u].at = "in" =>
        \A what \in ToSet(cli[u].shown) : what.n # 0 => what.chat = cli[u].match

\* The same of the replies of a bot.
ReplyInItsChat ==
    \A u \in User : cli[u].at = "in" =>
        \A what \in ToSet(cli[u].shown) : what.n = 0 => what.chat = cli[u].match

\* What a person says is sent into the chat that the page had when it was said.
SentWhereSaid ==
    \A u \in User : \A i \in DOMAIN down[u] :
        down[u][i].say = "message" => down[u][i].room = down[u][i].what.chat

\* "Please slow down" (chat.handler.ts:85): a message that a limiter refuses costs the
\* writer that message, not the chat.  Its error replaces the page (useMatchmaking.ts:333).
RefusalKeepsChat ==
    \A u \in User : cli[u].at = "in" /\ cli[u].halted => cli[u].match = NoChat

\* "auto-hide after 5s" (useChat.ts:13): an indicator goes off.
TypingEnds == \A u \in User : cli[u].sees # NoChat ~> cli[u].sees = NoChat
=============================================================================
