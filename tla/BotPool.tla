------------------------------- MODULE BotPool -------------------------------
(***************************************************************************)
(* The AI partners: BotManager's pool, their members in the queue and keys *)
(* in Redis, the men whose search ends with one, the replies of the model  *)
(* and the administrator's switch (botManager.ts, bot.handler.ts, and the  *)
(* bot branches of the match, room and chat handlers).                     *)
(*                                                                         *)
(* Bots are numbered in the order they are spawned: disable clears the map *)
(* and starts the numbers again, so the map is always 1..pool.  A          *)
(* coroutine that has nothing left to decide is a task, the sequence of    *)
(* its remaining steps, cut at each await.  Pairs of two humans, and       *)
(* dropped sockets, are in Matchmaking and SessionResume.                  *)
(***************************************************************************)
EXTENDS Naturals, Sequences

CONSTANTS
    User,           \* the men who search; a claim of a bot for a woman is undone at once
    MaxBots,        \* config.maxBots is at most this
    MaxErrors,      \* MAX_CONSECUTIVE_ERRORS
    MaxJoins,       \* bound: searches that are begun
    MaxRooms,       \* bound: room ids that are made
    MaxMessages,    \* bound: messages to bots
    MaxSwitches     \* bound: requests of the administrator

ASSUME BotPoolAssumption ==
    /\ MaxBots \in Nat \ {0} /\ MaxErrors \in Nat \ {0}
    /\ MaxJoins \in Nat /\ MaxRooms \in Nat /\ MaxMessages \in Nat /\ MaxSwitches \in Nat

VARIABLES
    mgr,        \* BotManager: [enabled, pool, max, errors]
    bot,        \* per bot: roomId in the map, members in the queue, user:room key
    room,       \* per room id: its record in Redis
    user,       \* per man: his socket's state, whether his page shows a chat, his user:room
                \* key and his attempt to match
    tasks,      \* coroutines with only steps to do
    replies,    \* messages whose reply is being made
    ghost       \* for the bounds and the properties

vars == <<mgr, bot, room, user, tasks, replies, ghost>>

Bot == 1..MaxBots
Room == 1..MaxRooms
None == 0

Pool == 1..mgr.pool

Step ==
    [do : {"delete", "left", "check", "add", "release", "dequeue",
           "disable", "test", "queueAll", "done"},
     bot : Bot \cup {None}, room : Room \cup {None}, user : User \cup {None}]

Reply ==
    [id : 1..MaxMessages, user : User, bot : Bot, room : Room,
     at : {"think", "model"}, old : BOOLEAN]

\* A queue member of a bot is never added twice by one coroutine, but two may add one each;
\* the manager never has more bots than it may, unless the limit was lowered.
TypeOK ==
    /\ mgr \in [enabled : BOOLEAN, pool : 0..MaxBots, max : 1..MaxBots, errors : Nat]
    /\ bot \in [Bot -> [chat : Room \cup {None}, queue : Nat, key : Room \cup {None}]]
    /\ room \in [Room -> [st : {"new", "claimed", "live", "dead"},
                          user : User \cup {None}, bot : Bot \cup {None}]]
    /\ user \in [User -> [st : {"idle", "queue", "active"}, shown : BOOLEAN,
                          key : Room \cup {None},
                          at : {"none", "fallback", "check", "create", "notify", "abort"},
                          bot : Bot \cup {None}, room : Room \cup {None}]]
    /\ tasks \in SUBSET Seq(Step)
    /\ replies \in SUBSET Reply
    /\ ghost \in [odd : SUBSET {"shared", "late", "crossed"}, busy : BOOLEAN, joins : 0..MaxJoins,
                  messages : 0..MaxMessages, switches : 0..MaxSwitches]
    /\ \A b \in Bot \ Pool : bot[b].chat = None
    /\ \A u \in User : user[u].at \in {"check", "create", "notify", "abort"}
                       <=> user[u].bot # None

\* loadPersistedConfig enables the bots again that were enabled before a restart, and queues
\* none of them.
Init ==
    /\ \E on \in BOOLEAN :
        mgr = [enabled |-> on, pool |-> IF on THEN MaxBots ELSE 0, max |-> MaxBots,
               errors |-> 0]
    /\ bot = [b \in Bot |-> [chat |-> None, queue |-> 0, key |-> None]]
    /\ room = [r \in Room |-> [st |-> "new", user |-> None, bot |-> None]]
    /\ user = [u \in User |-> [st |-> "idle", shown |-> FALSE, key |-> None, at |-> "none",
                               bot |-> None, room |-> None]]
    /\ tasks = {} /\ replies = {}
    /\ ghost = [odd |-> {}, busy |-> FALSE, joins |-> 0,
              messages |-> 0, switches |-> 0]

-----------------------------------------------------------------------------
(* Helpers.                                                                 *)

Do(what, b, r) == [do |-> what, bot |-> b, room |-> r, user |-> None]
Requeue(b) == <<Do("check", b, None)>>

Live(r) == r # None /\ room[r].st = "live"
New == {r \in Room : room[r].st = "new"}
First(S) == CHOOSE x \in S : \A y \in S : x <= y

\* A bot that an attempt, a room or the map already has in a chat, or that a leave of an
\* earlier chat has still to free.
Held(b) ==
    \/ bot[b].chat # None
    \/ \E t \in tasks : \E i \in DOMAIN t : t[i].do = "left" /\ t[i].bot = b
    \/ \E u \in User : user[u].bot = b
    \/ \E r \in Room : Live(r) /\ room[r].bot = b

Flag(odd) == ghost' = [ghost EXCEPT !.odd = @ \cup odd]
Taken(b) == Flag(IF Held(b) THEN {"shared"} ELSE {})

-----------------------------------------------------------------------------
(* A man's search.                                                          *)

\* registerConnection takes the state back to idle, whatever it was; a man whose key still
\* leads to a room is refused after that.  A join waits for the leave before it.
Join(u) ==
    /\ user[u].st # "queue" /\ ~user[u].shown /\ ghost.joins < MaxJoins
    /\ user[u].st = "idle" => ~Live(user[u].key)
    /\ user' = [user EXCEPT ![u].st = IF Live(user[u].key) THEN "idle" ELSE "queue"]
    /\ ghost' = [ghost EXCEPT !.joins = @ + 1]
    /\ UNCHANGED <<mgr, bot, room, tasks, replies>>

Cancel(u) ==
    /\ user[u].st = "queue"
    /\ user' = [user EXCEPT ![u].st = "idle"]
    /\ UNCHANGED <<mgr, bot, room, tasks, replies, ghost>>

Claimable(b) == bot[b].queue > 0 /\ bot[b].key = None

\* match.lua: both are claimed in one step, or nobody is found.
FindMatch(u) ==
    /\ user[u].st = "queue" /\ user[u].at = "none"
    /\ \/ \E b \in Bot :
            /\ user[u].key = None /\ Claimable(b) /\ New # {}
            /\ user' = [user EXCEPT ![u].at = "check", ![u].bot = b,
                                    ![u].room = First(New), ![u].key = First(New)]
            /\ bot' = [bot EXCEPT ![b].queue = @ - 1, ![b].key = First(New)]
            /\ room' = [room EXCEPT ![First(New)].st = "claimed"]
            /\ Taken(b)
       \/ /\ user[u].key # None \/ ~\E b \in Bot : Claimable(b)
          /\ user' = [user EXCEPT ![u].at = "fallback"]
          /\ UNCHANGED <<bot, room, ghost>>
    /\ UNCHANGED <<mgr, tasks, replies>>

\* tryFindMatch takes a bot of the map that is in no chat, or spawns one.  Nothing marks it
\* as taken until onBotMatched.
Fallback(u) ==
    LET free == {b \in Pool : bot[b].chat = None}
        pick(b) == /\ user' = [user EXCEPT ![u].at = "check", ![u].bot = b]
                   /\ Taken(b)
    IN  /\ user[u].at = "fallback"
        /\ \/ /\ mgr.enabled /\ free # {}
              /\ pick(First(free)) /\ UNCHANGED mgr
           \/ /\ mgr.enabled /\ free = {} /\ mgr.pool < mgr.max
              /\ pick(mgr.pool + 1) /\ mgr' = [mgr EXCEPT !.pool = @ + 1]
           \/ /\ ~mgr.enabled \/ (free = {} /\ mgr.pool >= mgr.max)
              /\ user' = [user EXCEPT ![u].at = "none"]
              /\ UNCHANGED <<mgr, ghost>>
        /\ UNCHANGED <<bot, room, tasks, replies>>

\* createAndNotifyMatch: a man who no longer searches loses the bot, which goes back to the
\* queue; releaseAndRequeue then drops the claim.  The look for a room of his finds none: only
\* his attempt could have made one since he joined, and there is one at a time.
Check(u) ==
    /\ user[u].at = "check"
    /\ IF user[u].st = "queue"
       THEN user' = [user EXCEPT ![u].at = "create"] /\ UNCHANGED tasks
       ELSE /\ user' = [user EXCEPT ![u].at = "abort"]
            /\ tasks' = tasks \cup
                {Requeue(user[u].bot) \o <<[Do("release", user[u].bot, user[u].room)
                                             EXCEPT !.user = u]>>}
    /\ UNCHANGED <<mgr, bot, room, replies, ghost>>

\* createRoom, once ICE credentials are there; nothing is looked at again.
CreateRoom(u) ==
    LET r == IF user[u].room # None THEN user[u].room ELSE First(New)
    IN  /\ user[u].at = "create" /\ (user[u].room = None => New # {})
        /\ room' = [room EXCEPT ![r] = [st |-> "live", user |-> u, bot |-> user[u].bot]]
        /\ user' = [user EXCEPT ![u].at = "notify", ![u].room = r, ![u].key = r]
        /\ bot' = [bot EXCEPT ![user[u].bot].key = r]
        /\ UNCHANGED <<mgr, tasks, replies, ghost>>

\* Mutant of Notify: onBotMatched is not called.
NotifyUserOnly(u) ==
    /\ user[u].at = "notify"
    /\ user' = [user EXCEPT ![u].at = "none", ![u].st = "active", ![u].shown = TRUE,
                            ![u].bot = None, ![u].room = None]
    /\ UNCHANGED <<mgr, bot, room, tasks, replies, ghost>>

\* The socket becomes active, and onBotMatched tells a bot that is still in the map.
Notify(u) ==
    /\ user[u].at = "notify"
    /\ user' = [user EXCEPT ![u].at = "none", ![u].st = "active", ![u].shown = TRUE,
                            ![u].bot = None, ![u].room = None]
    /\ bot' = IF user[u].bot \in Pool THEN [bot EXCEPT ![user[u].bot].chat = user[u].room]
              ELSE bot
    /\ UNCHANGED <<mgr, room, tasks, replies, ghost>>

AfterLeave(b) == <<Do("left", b, None)>> \o Requeue(b)

\* handleLeave, from a page that was told of a match; a room that is being ended from the
\* bot's side can still be left.
Leave(u) ==
    /\ user[u].st # "queue" /\ user[u].at = "none" /\ Live(user[u].key)
    /\ user' = [user EXCEPT ![u].st = "idle", ![u].shown = FALSE]
    /\ LET r == user[u].key
       IN  tasks' = tasks \cup {<<Do("delete", None, r)>> \o AfterLeave(room[r].bot)}
    /\ UNCHANGED <<mgr, bot, room, replies, ghost>>

-----------------------------------------------------------------------------
(* The steps of the tasks.                                                  *)

Becomes(t, rest) == tasks' = (tasks \ {t}) \cup (IF rest = <<>> THEN {} ELSE {rest})
Goes(t) == Becomes(t, Tail(t))
Runs(t, what) == t \in tasks /\ Head(t).do = what

\* deleteRoom: the room and both user:room keys, whatever they hold.
Deleted(r) ==
    IF Live(r)
    THEN /\ room' = [room EXCEPT ![r].st = "dead"]
         /\ user' = [user EXCEPT ![room[r].user].key = None]
         /\ bot' = [bot EXCEPT ![room[r].bot].key = None]
    ELSE UNCHANGED <<room, user, bot>>

DeleteRoom(t) ==
    /\ Runs(t, "delete") /\ Deleted(Head(t).room) /\ Goes(t)
    /\ UNCHANGED <<mgr, replies, ghost>>

\* onPartnerLeft and the look into the map before the bot is put back.
PartnerLeft(t) ==
    /\ Runs(t, "left")
    /\ IF Head(t).bot \in Pool
       THEN bot' = [bot EXCEPT ![Head(t).bot].chat = None] /\ Goes(t)
       ELSE UNCHANGED bot /\ Becomes(t, <<>>)
    /\ UNCHANGED <<mgr, room, user, replies, ghost>>

\* addToQueue looks for a member, and adds one an await later.
CheckQueue(t) ==
    /\ Runs(t, "check")
    /\ Becomes(t, IF bot[Head(t).bot].queue > 0 THEN Tail(t)
                  ELSE <<Do("add", Head(t).bot, None)>> \o Tail(t))
    /\ UNCHANGED <<mgr, bot, room, user, replies, ghost>>

AddToQueue(t) ==
    /\ Runs(t, "add") /\ Goes(t)
    /\ bot' = [bot EXCEPT ![Head(t).bot].queue = @ + 1]
    /\ UNCHANGED <<mgr, room, user, replies, ghost>>

\* releaseClaim drops only the claims that are this attempt's.
ReleaseClaim(t) ==
    LET s == Head(t)
    IN  /\ Runs(t, "release") /\ Goes(t)
        /\ user' = [user EXCEPT ![s.user].at = "none", ![s.user].bot = None,
                                ![s.user].room = None,
                                ![s.user].key = IF @ = s.room THEN None ELSE @]
        /\ bot' = [bot EXCEPT ![s.bot].key = IF @ = s.room THEN None ELSE @]
        /\ UNCHANGED <<mgr, room, replies, ghost>>

-----------------------------------------------------------------------------
(* Chats that end from the bot's side.                                      *)

\* What bot_error_disconnect does at once for the bots in S: their partners hear
\* partner_left, which ends the chat on the page and leaves the socket active.
\* Mutant of Told: the partner is not told.
ToldNobody(S) == user

Told(S) == [u \in User |-> IF \E b \in S : room[bot[b].chat].user = u
                           THEN [user[u] EXCEPT !.shown = FALSE] ELSE user[u]]

\* The rest of bot_error_disconnect; the bots in back return to the queue.
Ending(S, back) ==
    {(IF b \in back THEN Requeue(b) ELSE <<>>) \o <<Do("delete", None, bot[b].chat)>> : b \in S}

InChat == {b \in Pool : bot[b].chat # None}

Freed(S) == [b \in Bot |-> IF b \in S THEN [bot[b] EXCEPT !.chat = None] ELSE bot[b]]

\* Something that can still make or queue a bot, and does not look whether it is disabled.
UnderWay ==
    \/ \E u \in User : user[u].bot # None
    \/ \E t \in tasks : \E i \in DOMAIN t : t[i].do \in {"check", "add", "left", "queueAll"}
    \/ \E b \in Bot : bot[b].queue > 0

Disabled == [mgr EXCEPT !.enabled = FALSE, !.pool = 0, !.errors = 0]

-----------------------------------------------------------------------------
(* Messages.                                                                *)

SendMessage(u) ==
    /\ user[u].st = "active" /\ Live(user[u].key) /\ ghost.messages < MaxMessages
    /\ replies' = replies \cup
        {[id |-> ghost.messages + 1, user |-> u, bot |-> room[user[u].key].bot,
          room |-> user[u].key, at |-> "think", old |-> FALSE]}
    /\ ghost' = [ghost EXCEPT !.messages = @ + 1]
    /\ UNCHANGED <<mgr, bot, room, user, tasks>>

\* handleMessage, after the thinking delay: a bot that is not in the map stays silent.
AskModel(m) ==
    /\ m \in replies /\ m.at = "think"
    /\ replies' = (replies \ {m}) \cup
        (IF m.bot \in Pool THEN {[m EXCEPT !.at = "model"]} ELSE {})
    /\ UNCHANGED <<mgr, bot, room, user, tasks, ghost>>

ModelAnswers(m) ==
    /\ m \in replies /\ m.at = "model"
    /\ replies' = replies \ {m}
    /\ mgr' = [mgr EXCEPT !.errors = 0]
    /\ UNCHANGED <<bot, room, user, tasks, ghost>>

Olden(S) == {[m EXCEPT !.old = (@ \/ m.at = "model")] : m \in S}

\* A failed reply ends the chat that the bot is in now; a bot of before a disable is in none.
\* The third error in a minute disables the bots, without dequeuing any.
ModelFails(m) ==
    LET b == m.bot
        ended == IF m.old \/ bot[b].chat = None THEN {} ELSE {b}
        crossed == ended # {} /\ (bot[b].chat # m.room \/ user[m.user].key # m.room)
    IN  /\ m \in replies /\ m.at = "model"
        /\ \E errors \in {1, mgr.errors + 1} :
            IF errors < MaxErrors \/ ~mgr.enabled
            THEN /\ mgr' = [mgr EXCEPT !.errors = errors]
                 /\ user' = Told(ended) /\ bot' = Freed(ended)
                 /\ tasks' = tasks \cup Ending(ended, ended)
                 /\ replies' = replies \ {m}
                 /\ Flag(IF crossed THEN {"crossed"} ELSE {})
            ELSE /\ mgr' = Disabled
                 /\ user' = Told(InChat) /\ bot' = Freed(InChat)
                 /\ tasks' = tasks \cup Ending(InChat, ended)
                 /\ replies' = Olden(replies \ {m})
                 /\ Flag((IF crossed THEN {"crossed"} ELSE {})
                         \cup (IF UnderWay \/ ended # {} THEN {"late"} ELSE {}))
        /\ UNCHANGED room

-----------------------------------------------------------------------------
(* The administrator.                                                       *)

Request(todo) ==
    /\ ~ghost.busy /\ ghost.switches < MaxSwitches
    /\ ghost' = [ghost EXCEPT !.busy = TRUE, !.switches = @ + 1]
    /\ tasks' = tasks \cup {todo \o <<Do("done", None, None)>>}
    /\ UNCHANGED <<bot, room, user, replies>>

EnableBots == Request(<<Do("test", None, None)>>) /\ UNCHANGED mgr

\* enable, once testConnection has answered.
Enable(t) ==
    /\ Runs(t, "test")
    /\ \/ Becomes(t, Tail(t)) /\ ~mgr.enabled /\ UNCHANGED mgr
       \/ /\ Becomes(t, <<Do("queueAll", None, None)>> \o Tail(t))
          /\ mgr' = IF mgr.enabled THEN mgr
                    ELSE [mgr EXCEPT !.enabled = TRUE, !.pool = mgr.max]
    /\ UNCHANGED <<bot, room, user, replies, ghost>>

\* addBotsToQueue, over the bots that are in no chat when it begins.
QueueAll(free, last) ==
    LET adds[n \in 0..last] ==
            IF n = 0 THEN <<>> ELSE adds[n - 1] \o (IF n \in free THEN Requeue(n) ELSE <<>>)
    IN  adds[last]

AddBotsToQueue(t) ==
    /\ Runs(t, "queueAll")
    /\ Becomes(t, QueueAll({b \in Pool : bot[b].chat = None}, mgr.pool) \o Tail(t))
    /\ UNCHANGED <<mgr, bot, room, user, replies, ghost>>

DisableBots ==
    /\ Request([b \in Pool |-> Do("dequeue", b, None)] \o <<Do("disable", None, None)>>)
    /\ UNCHANGED mgr

\* removeFromQueue takes out the first member it finds.
Dequeue(t) ==
    /\ Runs(t, "dequeue") /\ Goes(t)
    /\ bot' = [bot EXCEPT ![Head(t).bot].queue = IF @ > 0 THEN @ - 1 ELSE 0]
    /\ UNCHANGED <<mgr, room, user, replies, ghost>>

\* Mutant of Disable: the map is cleared, and the chats that go on are not ended.
DisableQuietly(t) ==
    /\ Runs(t, "disable")
    /\ mgr' = Disabled /\ bot' = Freed(InChat) /\ Goes(t)
    /\ replies' = Olden(replies)
    /\ Flag(IF UnderWay THEN {"late"} ELSE {})
    /\ UNCHANGED <<user, room>>

Disable(t) ==
    /\ Runs(t, "disable")
    /\ IF mgr.enabled
       THEN /\ mgr' = Disabled
            /\ user' = Told(InChat) /\ bot' = Freed(InChat)
            /\ tasks' = (tasks \ {t}) \cup {Tail(t)} \cup Ending(InChat, {})
            /\ replies' = Olden(replies)
            /\ Flag(IF UnderWay THEN {"late"} ELSE {})
       ELSE Goes(t) /\ UNCHANGED <<mgr, bot, user, replies, ghost>>
    /\ UNCHANGED room

Done(t) ==
    /\ Runs(t, "done") /\ Goes(t)
    /\ ghost' = [ghost EXCEPT !.busy = FALSE]
    /\ UNCHANGED <<mgr, bot, room, user, replies>>

\* updateConfig: a higher limit spawns bots, which nobody queues; a lower one removes none.
UpdateConfig ==
    /\ \E max \in 1..MaxBots :
        mgr' = [mgr EXCEPT !.max = max,
                           !.pool = IF mgr.enabled /\ @ < max THEN max ELSE @]
    /\ Request(<<>>)

-----------------------------------------------------------------------------
(* The specification.                                                       *)

TaskStep(t) ==
    \/ DeleteRoom(t) \/ PartnerLeft(t) \/ CheckQueue(t) \/ AddToQueue(t) \/ ReleaseClaim(t)
    \/ Enable(t) \/ AddBotsToQueue(t) \/ Dequeue(t) \/ Disable(t) \/ Done(t)
Tasks == \E t \in tasks : TaskStep(t)

Attempt(u) == FindMatch(u) \/ Fallback(u) \/ Check(u) \/ CreateRoom(u) \/ Notify(u)
Replies == \E m \in replies : AskModel(m) \/ ModelAnswers(m) \/ ModelFails(m)

Next ==
    \/ \E u \in User : Join(u) \/ Cancel(u) \/ Attempt(u) \/ Leave(u) \/ SendMessage(u)
    \/ Tasks \/ Replies
    \/ EnableBots \/ DisableBots \/ UpdateConfig

Spec == Init /\ [][Next]_vars

-----------------------------------------------------------------------------
(* Properties.                                                              *)

\* Being ended: somebody has still to delete r.
Leaving(r) == \E t \in tasks : \E i \in DOMAIN t : t[i].do = "delete" /\ t[i].room = r

\* A man who is in a chat on his screen has the room in Redis, under his key: whichever of
\* the leave, the failed reply and the disable ends it tells him first, or is his own.
ActiveHasRoom ==
    \A u \in User : user[u].shown => Live(user[u].key) /\ room[user[u].key].user = u

\* The map, the keys and the rooms tell the same story of every chat, as long as no bot has
\* been taken twice, no chat was ended in place of another and no step outlived a disable.
RoomKnowsBot ==
    ghost.odd = {} =>
        \A r \in Room : Live(r) =>
            \/ Leaving(r)
            \/ /\ room[r].bot \in Pool /\ bot[room[r].bot].key = r
               /\ \/ bot[room[r].bot].chat = r
                  \/ \E u \in User : user[u].at = "notify" /\ user[u].room = r

\* "disconnects all bots from users" (botManager.ts:252): while the bots are disabled every
\* room with one is being deleted and none can be matched, unless a step outlived the disable
\* or the manager had forgotten a chat of a bot taken twice.
DisabledIsClean ==
    ~mgr.enabled /\ ghost.odd \cap {"late", "shared"} = {} =>
        /\ \A r \in Room : Live(r) => Leaving(r)
        /\ \A b \in Bot : ~Claimable(b)

\* A bot that the map has in a chat is in one, or a leave has still to free it: otherwise
\* the fallback would pass it over for good, and the administrator see it matched.
RoomEndFreesBot ==
    \A b \in Bot : bot[b].chat # None =>
        \/ Live(bot[b].chat)
        \/ \E t \in tasks : \E i \in DOMAIN t : t[i].do = "left" /\ t[i].bot = b

\* Neither side keeps a chat that the other has lost.
BotsAndRoomsAgree == RoomKnowsBot /\ RoomEndFreesBot

\* "Bots register themselves as available" (botManager.ts:5): a bot is in one chat.
BotHasOneChat ==
    \A r, s \in Room : Live(r) /\ Live(s) /\ room[r].bot = room[s].bot => r = s

\* "Auto-disable all bots" (botManager.ts:456): nobody is matched with a bot that is not there.
NoGhostBot == \A u \in User : user[u].at = "notify" => user[u].bot \in Pool

\* "simulate partner disconnecting silently" (botManager.ts:464): a failed reply ends the chat
\* that it was for, and no other.
ErrorEndsOwnChat == "crossed" \notin ghost.odd

\* "Reset error counter when manually disabled" (botManager.ts:284): enabled bots have not
\* failed as often as it takes to disable them.
EnabledBelowLimit == mgr.enabled => mgr.errors < MaxErrors
=============================================================================
