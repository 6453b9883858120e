---------------------------- MODULE BotPoolProofs ----------------------------
(***************************************************************************)
(* Proofs about BotPool, for any number of men, bots, rooms, messages and  *)
(* requests: type correctness, that nobody chats with a deleted room, that *)
(* the map, the keys and the rooms agree, and that nothing is left of the  *)
(* bots that were disabled.                                                *)
(***************************************************************************)
EXTENDS BotPool, SequenceTheorems, WellFoundedInduction, NaturalsInduction, TLAPS

Seeking(u) == user[u].at \in {"check", "create", "abort"}
Owner(u, r) == Seeking(u) /\ user[u].room = r

\* The step i of the task t deletes the room r, or frees the bot b.
Deletes(t, i, r) == i \in DOMAIN t /\ t[i].do = "delete" /\ t[i].room = r
Frees(t, i, b) == i \in DOMAIN t /\ t[i].do = "left" /\ t[i].bot = b
LeftDue(b) == \E t \in tasks : \E i \in DOMAIN t : t[i].do = "left" /\ t[i].bot = b

\* A task is never empty; after the bot is freed it is only put back, after a request is
\* tried or the bots are queued it is only answered.
Sound(t) ==
    /\ t # <<>> /\ t[Len(t)].do # "disable"
    /\ \A i, j \in DOMAIN t :
        /\ t[i].do = "left" /\ i < j => t[j].do \in {"check", "add"}
        /\ t[i].do \in {"test", "queueAll"} /\ i < j => t[j].do = "done"

\* What the steps of a task are about.
StepOK(s) ==
    /\ s.do = "delete" => s.room \in Room /\ room[s.room].st \in {"live", "dead"}
    /\ s.do \in {"left", "check", "add"} => s.bot \in Bot
    /\ s.do = "release" => /\ s.user \in User /\ user[s.user].at = "abort"
                           /\ s.room = user[s.user].room /\ s.bot = user[s.user].bot

\* Whoever deletes the room of a chat of the map frees the bot after it.
EndsWell(t) ==
    \A b \in Bot : bot[b].chat # None =>
        \A i \in DOMAIN t : Deletes(t, i, bot[b].chat) =>
            \E j \in DOMAIN t : i < j /\ Frees(t, j, b)

Fits(t) == Sound(t) /\ EndsWell(t) /\ \A i \in DOMAIN t : StepOK(t[i])
TasksFit == \A t \in tasks : Fits(t)

\* The claim of an attempt is dropped once.
ReleasedOnce ==
    \A t1, t2 \in tasks : \A i \in DOMAIN t1, j \in DOMAIN t2 :
        t1[i].do = "release" /\ t2[j].do = "release" /\ t1[i].user = t2[j].user
        => t1 = t2 /\ i = j

\* The keys of the men, their attempts and the rooms.
RoomTaken ==
    \A r \in Room : Live(r) =>
        /\ room[r].user \in User /\ room[r].bot \in Bot /\ user[room[r].user].key = r
KeyHeld ==
    \A u \in User :
        LET k == user[u].key
        IN  k # None => \/ room[k].st = "live" /\ room[k].user = u
                        \/ room[k].st = "claimed" /\ Owner(u, k)
ClaimHeld ==
    \A u \in User : Seeking(u) /\ user[u].room # None =>
        /\ room[user[u].room].st = "claimed"
        /\ \A v \in User : Owner(v, user[u].room) => v = u
NoRoom == \A u \in User : user[u].at \in {"none", "fallback"} => user[u].room = None
Unpaired ==
    \A u \in User : Seeking(u) \/ user[u].at = "fallback"
                    \/ (user[u].at = "none" /\ user[u].st = "queue")
                    => ~Live(user[u].key)
Notified ==
    \A u \in User : user[u].at = "notify" =>
        LET r == user[u].room
        IN  /\ r \in Room /\ Live(r) /\ room[r].user = u /\ room[r].bot = user[u].bot
            /\ user[u].key = r /\ ~Leaving(r) /\ \A b \in Bot : bot[b].chat # r
InTheirRoom ==
    \A u \in User : user[u].shown =>
        user[u].at = "none" /\ Live(user[u].key) /\ ~Leaving(user[u].key)

\* A chat of the map is of a room that is or was the bot's.
Chats ==
    \A b \in Bot : bot[b].chat # None =>
        /\ room[bot[b].chat].st \in {"live", "dead"} /\ room[bot[b].chat].bot = b
        /\ Live(bot[b].chat) \/ LeftDue(b)
Off == ~mgr.enabled => mgr.pool = 0

\* Nobody took a bot twice, and no step outlived a disable.
Tidy == ghost.odd \cap {"late", "shared"} = {}

OneBot == \A u, v \in User : user[u].bot = user[v].bot /\ user[u].bot # None => u = v
OneRoom ==
    \A r, s \in Room : Live(r) /\ Live(s) /\ room[r].bot = room[s].bot => r = s
TakenIsFree ==
    \A u \in User : user[u].bot # None =>
        /\ user[u].bot \in Pool
        /\ bot[user[u].bot].chat = None /\ ~LeftDue(user[u].bot)
        /\ Seeking(u) => (\A r \in Room : Live(r) => room[r].bot # user[u].bot)
LeftIsLeaving == \A r \in Room : Live(r) /\ LeftDue(room[r].bot) => Leaving(r)
\* Only a bot of the map is in the queue or put there, or one that is looked for before.
Queues(t) ==
    \A i \in DOMAIN t : t[i].do \in {"check", "add"} =>
        t[i].bot \in Pool \/ \E j \in DOMAIN t : j < i /\ Frees(t, j, t[i].bot)
QueuedIsThere ==
    /\ \A b \in Bot : bot[b].queue > 0 => b \in Pool
    /\ \A t \in tasks : Queues(t)
Known ==
    \A r \in Room : Live(r) =>
        \/ Leaving(r)
        \/ /\ room[r].bot \in Pool /\ bot[room[r].bot].key = r
           /\ \/ bot[room[r].bot].chat = r
              \/ \E u \in User : user[u].at = "notify" /\ user[u].room = r

-----------------------------------------------------------------------------
(* Sequences.                                                               *)

LEMMA NatMin ==
    ASSUME NEW T, T \subseteq Nat, T # {}
    PROVE  \E x \in T : \A y \in T : x <= y
<1>1. PICK x \in T : \A y \in T : <<y, x>> \notin OpToRel(<, Nat)
  BY NatLessThanWellFounded, WFMin
<1>2. \A y \in T : ~(y < x)
  BY <1>1 DEF OpToRel
<1> QED BY <1>2

\* First is a member of a set of numbers, the least one.
LEMMA FirstIsIn ==
    ASSUME NEW S, S \subseteq Nat, S # {}
    PROVE  First(S) \in S /\ \A y \in S : First(S) <= y
<1>1. PICK x \in S : \A y \in S : x <= y
  BY NatMin
<1> QED BY <1>1 DEF First

LEMMA TailOf ==
    ASSUME NEW S, NEW t \in Seq(S), t # <<>>
    PROVE  /\ Head(t) = t[1] /\ 1 \in DOMAIN t /\ Len(t) \in Nat /\ DOMAIN t = 1..Len(t)
           /\ Tail(t) \in Seq(S) /\ Len(Tail(t)) = Len(t) - 1
           /\ \A i \in DOMAIN Tail(t) : i \in Nat /\ i + 1 \in DOMAIN t /\ Tail(t)[i] = t[i + 1]
           /\ \A i \in DOMAIN t : i # 1 => i - 1 \in DOMAIN Tail(t) /\ t[i] = Tail(t)[i - 1]
OBVIOUS

LEMMA JoinIs ==
    ASSUME NEW S, NEW s \in Seq(S), NEW t \in Seq(S), NEW n, n = s \o t
    PROVE  /\ n \in Seq(S) /\ Len(s) \in Nat /\ Len(n) = Len(s) + Len(t)
           /\ DOMAIN n = 1..Len(n) /\ Len(n) \in Nat
           /\ \A i \in DOMAIN n :
                \/ i \in DOMAIN s /\ n[i] = s[i]
                \/ i > Len(s) /\ i - Len(s) \in DOMAIN t /\ n[i] = t[i - Len(s)]
           /\ \A i \in DOMAIN s : i \in DOMAIN n /\ n[i] = s[i]
           /\ \A i \in DOMAIN t : i + Len(s) \in DOMAIN n /\ n[i + Len(s)] = t[i]
<1>1. n \in Seq(S) /\ Len(n) = Len(s) + Len(t)
      /\ \A i \in 1..Len(s) + Len(t) : n[i] = IF i <= Len(s) THEN s[i] ELSE t[i - Len(s)]
  BY ConcatProperties
<1>2. Len(s) \in Nat /\ Len(t) \in Nat /\ DOMAIN s = 1..Len(s) /\ DOMAIN t = 1..Len(t)
  OBVIOUS
<1>3. DOMAIN n = 1..(Len(s) + Len(t)) /\ DOMAIN n = 1..Len(n) /\ Len(n) \in Nat
  BY <1>1
<1> DEFINE r == n
<1>r. r = n
  OBVIOUS
<1> HIDE DEF r
<1>4. \A i \in 1..(Len(s) + Len(t)) :
          \/ i \in 1..Len(s) /\ r[i] = s[i]
          \/ i > Len(s) /\ i - Len(s) \in 1..Len(t) /\ r[i] = t[i - Len(s)]
  <2>1. \A i \in 1..(Len(s) + Len(t)) : r[i] = IF i <= Len(s) THEN s[i] ELSE t[i - Len(s)]
    BY <1>1, <1>r
  <2> QED BY <1>2, <2>1
<1>5. \A i \in 1..Len(s) : i \in 1..(Len(s) + Len(t)) /\ r[i] = s[i]
  <2>1. \A i \in 1..(Len(s) + Len(t)) : r[i] = IF i <= Len(s) THEN s[i] ELSE t[i - Len(s)]
    BY <1>1, <1>r
  <2> QED BY <1>2, <2>1
<1>6. \A i \in 1..Len(t) : i + Len(s) \in 1..(Len(s) + Len(t)) /\ r[i + Len(s)] = t[i]
  <2> SUFFICES ASSUME NEW i \in 1..Len(t)
               PROVE  i + Len(s) \in 1..(Len(s) + Len(t)) /\ r[i + Len(s)] = t[i]
    OBVIOUS
  <2>1. \A k \in 1..(Len(s) + Len(t)) : r[k] = IF k <= Len(s) THEN s[k] ELSE t[k - Len(s)]
    BY <1>1, <1>r
  <2>2. i + Len(s) \in 1..Len(s) + Len(t) /\ ~(i + Len(s) <= Len(s)) /\ i + Len(s) - Len(s) = i
    BY <1>2
  <2> QED BY <2>1, <2>2
<1> QED BY <1>1, <1>2, <1>3, <1>4, <1>5, <1>6, <1>r

LEMMA EmptyIs ==
    ASSUME NEW S, NEW s \in Seq(S)
    PROVE  s = <<>> <=> Len(s) = 0
BY EmptySeq

\* What addBotsToQueue queues: the bots that are free, and no other.
LEMMA QueueAllOf ==
    ASSUME NEW last \in Nat, NEW free
    PROVE  QueueAll(free, last) \in Seq({Do("check", b, None) : b \in free})
<1> DEFINE T == {Do("check", b, None) : b \in free}
           E(g, n) == IF n = 0 THEN <<>> ELSE g[n - 1] \o (IF n \in free THEN Requeue(n) ELSE <<>>)
           Upto(g, k) == g = [n \in 0..k |-> E(g, n)]
           Bad == {k \in 0..last : \A g : ~Upto(g, k)}
<1>1. Bad = {}
  <2> SUFFICES ASSUME Bad # {} PROVE FALSE
    OBVIOUS
  <2>1. PICK k \in Bad : \A j \in Bad : k <= j
    <3> HIDE DEF Upto
    <3>1. Bad \subseteq Nat
      OBVIOUS
    <3> HIDE DEF Bad
    <3> QED BY <3>1, NatMin
  <2>2. k \in 0..last /\ \A g : ~Upto(g, k)
    BY DEF Bad
  <2>3. CASE k = 0
    <3> DEFINE g == [n \in 0..0 |-> <<>>]
    <3>1. Upto(g, 0)
      OBVIOUS
    <3> QED BY <3>1, <2>2, <2>3
  <2>4. CASE k # 0
    <3>1. k - 1 \in 0..last /\ ~(k <= k - 1) /\ k - 1 \in 0..(k - 1) /\ 0..k = (0..(k - 1)) \cup {k}
      <4>1. k \in Nat /\ last \in Nat /\ k <= last /\ k >= 1
        BY <2>2, <2>4
      <4>2. k - 1 \in 0..last /\ ~(k <= k - 1) /\ k - 1 \in 0..(k - 1)
        BY <4>1
      <4>3. \A n : n \in 0..k <=> n \in 0..(k - 1) \/ n = k
        BY <4>1
      <4> QED BY <4>2, <4>3
    <3>2. PICK f : Upto(f, k - 1)
      <4> HIDE DEF Upto
      <4>1. k - 1 \notin Bad
        <5> HIDE DEF Bad
        <5> QED BY <2>1, <3>1
      <4> QED BY <4>1, <3>1
    <3> DEFINE g == [n \in 0..k |-> IF n = k THEN E(f, k) ELSE f[n]]
    <3>3. \A n \in 0..(k - 1) : n # k /\ n \in 0..k /\ (n # 0 => n - 1 \in 0..(k - 1) /\ n - 1 # k
                                                               /\ n - 1 \in 0..k)
      BY <2>2
    <3>4. \A n \in 0..(k - 1) : g[n] = f[n]
      BY <3>3
    <3>5. \A n \in 0..(k - 1) : f[n] = E(f, n)
      BY <3>2
    <3>6. \A n \in 0..(k - 1) : g[n] = E(g, n)
      BY <3>3, <3>4, <3>5
    <3>7. k \in 0..k /\ g[k] = E(f, k)
      BY <2>2
    <3>8. E(f, k) = E(g, k)
      BY <3>1, <3>4, <2>4
    <3>9. \A n \in 0..k : g[n] = E(g, n)
      BY <3>1, <3>6, <3>7, <3>8
    <3>10. g = [n \in 0..k |-> g[n]]
      OBVIOUS
    <3> HIDE DEF g
    <3>11. Upto(g, k)
      BY <3>9, <3>10
    <3> QED BY <3>11, <2>2
  <2> QED BY <2>3, <2>4
<1> DEFINE h == CHOOSE g : Upto(g, last)
<1>2. QueueAll(free, last) = h[last]
  BY DEF QueueAll
<1>3. Upto(h, last)
  <2>1. \E g : Upto(g, last)
    <3> HIDE DEF Upto
    <3>1. last \in 0..last
      OBVIOUS
    <3> QED BY <1>1, <3>1
  <2> QED BY <2>1
<1> HIDE DEF h
<1>4. \A n \in 0..last : h[n] = E(h, n)
  BY <1>3
<1> DEFINE Wrong == {n \in 0..last : h[n] \notin Seq(T)}
<1>5. Wrong = {}
  <2> SUFFICES ASSUME Wrong # {} PROVE FALSE
    OBVIOUS
  <2>1. PICK n \in Wrong : \A j \in Wrong : n <= j
    <3>1. Wrong \subseteq Nat
      OBVIOUS
    <3> HIDE DEF Wrong
    <3> QED BY <3>1, NatMin
  <2>2. n \in 0..last /\ h[n] \notin Seq(T)
    BY DEF Wrong
  <2>3. n # 0
    <3>1. <<>> \in Seq(T)
      OBVIOUS
    <3>2. n = 0 => h[n] = <<>>
      BY <2>2, <1>4
    <3> QED BY <2>2, <3>1, <3>2
  <2>4. n - 1 \in 0..last /\ ~(n <= n - 1)
    BY <2>2, <2>3
  <2>5. h[n - 1] \in Seq(T)
    BY <2>1, <2>4
  <2>6. (IF n \in free THEN Requeue(n) ELSE <<>>) \in Seq(T)
    <3>1. CASE n \in free
      <4>1. Do("check", n, None) \in T
        BY <3>1
      <4> QED BY <3>1, <4>1 DEF Requeue
    <3>2. CASE n \notin free
      BY <3>2
    <3> QED BY <3>1, <3>2
  <2>7. h[n] = h[n - 1] \o (IF n \in free THEN Requeue(n) ELSE <<>>)
    BY <1>4, <2>2, <2>3
  <2> HIDE DEF T
  <2> QED BY <2>2, <2>5, <2>6, <2>7, ConcatProperties
<1> QED BY <1>2, <1>5

-----------------------------------------------------------------------------
(* Type correctness, one variable after the other.                          *)

BotType == [chat : Room \cup {None}, queue : Nat, key : Room \cup {None}]
ManType == [st : {"idle", "queue", "active"}, shown : BOOLEAN, key : Room \cup {None},
            at : {"none", "fallback", "check", "create", "notify", "abort"},
            bot : Bot \cup {None}, room : Room \cup {None}]
RoomType == [st : {"new", "claimed", "live", "dead"},
             user : User \cup {None}, bot : Bot \cup {None}]

MgrTyped == mgr \in [enabled : BOOLEAN, pool : 0..MaxBots, max : 1..MaxBots, errors : Nat]
BotTyped == bot \in [Bot -> BotType]
RoomTyped == room \in [Room -> RoomType]
UserTyped == user \in [User -> ManType]
TasksTyped == tasks \in SUBSET Seq(Step)
GhostTyped ==
    /\ replies \in SUBSET Reply
    /\ ghost \in [odd : SUBSET {"shared", "late", "crossed"}, busy : BOOLEAN, joins : 0..MaxJoins,
                  messages : 0..MaxMessages, switches : 0..MaxSwitches]
ChatInPool == \A b \in Bot \ Pool : bot[b].chat = None
BotAtWork ==
    \A u \in User : user[u].at \in {"check", "create", "notify", "abort"}
                    <=> user[u].bot # None

LEMMA TypeParts ==
    TypeOK <=> /\ MgrTyped /\ BotTyped /\ RoomTyped /\ UserTyped /\ TasksTyped /\ GhostTyped
               /\ ChatInPool /\ BotAtWork
BY DEF TypeOK, MgrTyped, BotTyped, RoomTyped, UserTyped, TasksTyped, GhostTyped, ChatInPool,
       BotAtWork, BotType, ManType, RoomType

LEMMA Numbers ==
    /\ Bot \subseteq Nat /\ Room \subseteq Nat /\ None \notin Bot /\ None \notin Room /\ None = 0
    /\ MaxBots \in Nat /\ MaxErrors \in Nat \ {0}
BY BotPoolAssumption DEF Bot, Room, None

LEMMA PoolIn ==
    ASSUME MgrTyped
    PROVE  Pool \subseteq Bot /\ mgr.pool \in Nat
BY BotPoolAssumption DEF MgrTyped, Pool, Bot

\* Who changes what.
LEMMA MgrMoves ==
    ASSUME Next
    PROVE  \/ UNCHANGED mgr
           \/ \E u \in User : Fallback(u)
           \/ \E m \in replies : ModelAnswers(m) \/ ModelFails(m)
           \/ \E t \in tasks : Enable(t) \/ Disable(t)
           \/ UpdateConfig
BY Zenon DEF Next, Attempt, Tasks, TaskStep, Replies, Join, Cancel, FindMatch, Check,
       CreateRoom, Notify,
       Leave, SendMessage, AskModel, DeleteRoom, PartnerLeft, CheckQueue, AddToQueue, ReleaseClaim,
       AddBotsToQueue, Dequeue, Done, EnableBots, DisableBots

LEMMA BotMoves ==
    ASSUME Next
    PROVE  \/ UNCHANGED bot
           \/ \E u \in User : FindMatch(u) \/ CreateRoom(u) \/ Notify(u)
           \/ \E m \in replies : ModelFails(m)
           \/ \E t \in tasks : DeleteRoom(t) \/ PartnerLeft(t) \/ AddToQueue(t) \/ ReleaseClaim(t)
                               \/ Dequeue(t) \/ Disable(t)
BY Zenon DEF Next, Attempt, Tasks, TaskStep, Replies, Join, Cancel, Check, Fallback,
       Leave, SendMessage, AskModel, ModelAnswers, CheckQueue,
       AddBotsToQueue, Enable, Done, EnableBots, DisableBots, UpdateConfig, Request

LEMMA RoomMoves ==
    ASSUME Next
    PROVE  \/ UNCHANGED room
           \/ \E u \in User : FindMatch(u) \/ CreateRoom(u)
           \/ \E t \in tasks : DeleteRoom(t)
BY Zenon DEF Next, Attempt, Tasks, TaskStep, Replies, Join, Cancel, Check, Fallback, Notify,
       Leave, SendMessage, AskModel, ModelAnswers, ModelFails, CheckQueue, PartnerLeft, AddToQueue,
       ReleaseClaim, Dequeue, Disable,
       AddBotsToQueue, Enable, Done, EnableBots, DisableBots, UpdateConfig, Request

LEMMA UserMoves ==
    ASSUME Next
    PROVE  \/ UNCHANGED user
           \/ \E u \in User : Join(u) \/ Cancel(u) \/ FindMatch(u) \/ Fallback(u) \/ Check(u)
                              \/ CreateRoom(u) \/ Notify(u) \/ Leave(u)
           \/ \E m \in replies : ModelFails(m)
           \/ \E t \in tasks : DeleteRoom(t) \/ ReleaseClaim(t) \/ Disable(t)
BY Zenon DEF Next, Attempt, Tasks, TaskStep, Replies,
       SendMessage, AskModel, ModelAnswers, CheckQueue, PartnerLeft, AddToQueue, Dequeue,
       AddBotsToQueue, Enable, Done, EnableBots, DisableBots, UpdateConfig, Request

LEMMA TaskMoves ==
    ASSUME Next
    PROVE  \/ UNCHANGED tasks
           \/ \E u \in User : Check(u) \/ Leave(u)
           \/ \E m \in replies : ModelFails(m)
           \/ \E t \in tasks : TaskStep(t)
           \/ EnableBots \/ DisableBots \/ UpdateConfig
BY Zenon DEF Next, Attempt, Tasks, Replies, Join, Cancel, FindMatch, Fallback, CreateRoom, Notify,
       SendMessage, AskModel, ModelAnswers

LEMMA MgrNext ==
    ASSUME MgrTyped, Next
    PROVE  MgrTyped'
<1> USE DEF MgrTyped
<1>1. CASE UNCHANGED mgr
  BY <1>1
<1>2. ASSUME NEW u \in User, Fallback(u)
      PROVE  MgrTyped'
  BY <1>2, BotPoolAssumption DEF Fallback
<1>3. ASSUME NEW m \in replies, ModelAnswers(m) \/ ModelFails(m)
      PROVE  MgrTyped'
  <2>1. 0 \in 0..MaxBots /\ 0 \in Nat /\ FALSE \in BOOLEAN
    BY BotPoolAssumption
  <2>2. CASE ModelAnswers(m)
    BY <2>1, <2>2 DEF ModelAnswers
  <2>3. CASE ModelFails(m)
    <3>1. PICK errors \in {1, mgr.errors + 1} :
              mgr' = [mgr EXCEPT !.errors = errors] \/ mgr' = Disabled
      BY <2>3 DEF ModelFails
    <3>2. errors \in Nat
      OBVIOUS
    <3>3. [mgr EXCEPT !.errors = errors] \in [enabled : BOOLEAN, pool : 0..MaxBots,
                                              max : 1..MaxBots, errors : Nat]
      BY <3>2
    <3>4. Disabled \in [enabled : BOOLEAN, pool : 0..MaxBots, max : 1..MaxBots, errors : Nat]
      BY <2>1 DEF Disabled
    <3> QED BY <3>1, <3>3, <3>4
  <2> QED BY <1>3, <2>2, <2>3
<1>4. ASSUME NEW t \in tasks, Enable(t) \/ Disable(t)
      PROVE  MgrTyped'
  <2>1. 0 \in 0..MaxBots /\ 0 \in Nat /\ FALSE \in BOOLEAN /\ TRUE \in BOOLEAN
        /\ mgr.max \in 0..MaxBots
    BY BotPoolAssumption
  <2>2. mgr' = mgr \/ mgr' = Disabled \/ mgr' = [mgr EXCEPT !.enabled = TRUE, !.pool = mgr.max]
    BY <1>4 DEF Enable, Disable
  <2> QED BY <2>1, <2>2 DEF Disabled
<1>5. CASE UpdateConfig
  <2>1. PICK max \in 1..MaxBots :
            mgr' = [mgr EXCEPT !.max = max,
                               !.pool = IF mgr.enabled /\ @ < max THEN max ELSE @]
    BY <1>5 DEF UpdateConfig
  <2>2. max \in 0..MaxBots
    BY BotPoolAssumption
  <2> QED BY <2>1, <2>2
<1> QED BY <1>1, <1>2, <1>3, <1>4, <1>5, MgrMoves

LEMMA BotNext ==
    ASSUME MgrTyped, BotTyped, UserTyped, RoomTyped, TasksTyped, Next
    PROVE  BotTyped'
<1> USE DEF BotTyped
<1>0. \A b \in Bot : \A k \in Room \cup {None}, n \in Nat :
          /\ [bot[b] EXCEPT !.chat = k] \in BotType /\ [bot[b] EXCEPT !.key = k] \in BotType
          /\ [bot[b] EXCEPT !.queue = n] \in BotType
          /\ [bot[b] EXCEPT !.queue = n, !.key = k] \in BotType
  BY DEF BotType
<1>1. CASE UNCHANGED bot
  BY <1>1
<1>2. ASSUME NEW u \in User, FindMatch(u) \/ CreateRoom(u) \/ Notify(u)
      PROVE  BotTyped'
  <2>1. New # {} => First(New) \in Room
    BY FirstIsIn, Numbers DEF New
  <2>2. user[u].bot \in Bot \cup {None} /\ user[u].room \in Room \cup {None}
    BY DEF UserTyped, ManType
  <2>3. CASE FindMatch(u)
    <3>1. CASE UNCHANGED bot
      BY <3>1
    <3>2. CASE ~UNCHANGED bot
      <4>1. PICK b \in Bot : Claimable(b) /\ New # {}
                             /\ bot' = [bot EXCEPT ![b].queue = @ - 1, ![b].key = First(New)]
        BY <2>3, <3>2 DEF FindMatch
      <4>2. bot[b].queue - 1 \in Nat
        BY <4>1 DEF Claimable, BotType
      <4>3. bot' = [bot EXCEPT ![b] = [bot[b] EXCEPT !.queue = bot[b].queue - 1,
                                                    !.key = First(New)]]
        BY <4>1
      <4>4. [bot[b] EXCEPT !.queue = bot[b].queue - 1, !.key = First(New)] \in BotType
        BY <1>0, <2>1, <4>1, <4>2
      <4> HIDE DEF BotType
      <4> QED BY <4>3, <4>4
    <3> QED BY <3>1, <3>2
  <2>4. CASE CreateRoom(u)
    <3>1. PICK r \in Room \cup {None} : bot' = [bot EXCEPT ![user[u].bot].key = r]
      BY <2>1, <2>2, <2>4 DEF CreateRoom
    <3> QED BY <1>0, <3>1
  <2>5. CASE Notify(u)
    <3>1. bot' = bot \/ \E k \in Room \cup {None} : bot' = [bot EXCEPT ![user[u].bot].chat = k]
      BY <2>2, <2>5 DEF Notify
    <3>2. ASSUME NEW k \in Room \cup {None}, bot' = [bot EXCEPT ![user[u].bot].chat = k]
          PROVE  BotTyped'
      BY <1>0, <3>2
    <3> QED BY <3>1, <3>2
  <2> QED BY <1>2, <2>3, <2>4, <2>5
<1>3. ASSUME NEW t \in tasks, DeleteRoom(t) \/ PartnerLeft(t) \/ AddToQueue(t) \/ ReleaseClaim(t)
                              \/ Dequeue(t)
      PROVE  BotTyped'
  <2> DEFINE s == Head(t)
  <2>1. CASE DeleteRoom(t)
    <3>1. bot' = bot \/ \E k \in {None} : bot' = [bot EXCEPT ![room[s.room].bot].key = k]
      BY <2>1 DEF DeleteRoom, Deleted
    <3>2. ASSUME NEW k \in {None}, bot' = [bot EXCEPT ![room[s.room].bot].key = k]
          PROVE  BotTyped'
      BY <1>0, <3>2
    <3> QED BY <3>1, <3>2
  <2>2. CASE PartnerLeft(t)
    <3>1. bot' = bot \/ \E k \in {None} : bot' = [bot EXCEPT ![s.bot].chat = k]
      BY <2>2 DEF PartnerLeft
    <3>2. ASSUME NEW k \in {None}, bot' = [bot EXCEPT ![s.bot].chat = k]
          PROVE  BotTyped'
      BY <1>0, <3>2
    <3> QED BY <3>1, <3>2
  <2>3. CASE AddToQueue(t)
    <3>1. bot' = [bot EXCEPT ![s.bot].queue = @ + 1]
      BY <2>3 DEF AddToQueue
    <3>2. \A b \in Bot : bot[b].queue + 1 \in Nat
      BY DEF BotType
    <3> QED BY <1>0, <3>1, <3>2
  <2>4. CASE ReleaseClaim(t)
    <3>1. bot' = [bot EXCEPT ![s.bot].key = IF @ = s.room THEN None ELSE @]
      BY <2>4 DEF ReleaseClaim
    <3>2. \A b \in Bot : bot[b].key \in Room \cup {None}
      BY DEF BotType
    <3> QED BY <1>0, <3>1, <3>2
  <2>5. CASE Dequeue(t)
    <3>1. bot' = [bot EXCEPT ![s.bot].queue = IF @ > 0 THEN @ - 1 ELSE 0]
      BY <2>5 DEF Dequeue
    <3>2. \A b \in Bot : (IF bot[b].queue > 0 THEN bot[b].queue - 1 ELSE 0) \in Nat
      BY DEF BotType
    <3> QED BY <1>0, <3>1, <3>2
  <2> QED BY <1>3, <2>1, <2>2, <2>3, <2>4, <2>5
<1>4. ASSUME NEW S, bot' = Freed(S)
      PROVE  BotTyped'
  <2>1. bot' = [b \in Bot |-> IF b \in S THEN [bot[b] EXCEPT !.chat = None] ELSE bot[b]]
    BY <1>4 DEF Freed
  <2>2. \A b \in Bot : (IF b \in S THEN [bot[b] EXCEPT !.chat = None] ELSE bot[b]) \in BotType
    BY <1>0
  <2> QED BY <2>1, <2>2
<1>5. ASSUME NEW m \in replies, ModelFails(m)
      PROVE  BotTyped'
  <2>1. \E S : bot' = Freed(S)
    BY <1>5 DEF ModelFails
  <2> QED BY <1>4, <2>1
<1>6. ASSUME NEW t \in tasks, Disable(t)
      PROVE  BotTyped'
  <2>1. bot' = bot \/ \E S : bot' = Freed(S)
    BY <1>6 DEF Disable
  <2> QED BY <1>4, <2>1
<1> QED BY <1>1, <1>2, <1>3, <1>5, <1>6, BotMoves

LEMMA RoomNext ==
    ASSUME UserTyped, RoomTyped, TasksTyped, BotAtWork, Next
    PROVE  RoomTyped'
<1> USE DEF RoomTyped
<1>0. \A r \in Room : /\ [room[r] EXCEPT !.st = "claimed"] \in RoomType
                      /\ [room[r] EXCEPT !.st = "dead"] \in RoomType
  BY DEF RoomType
<1>1. CASE UNCHANGED room
  BY <1>1
<1>2. ASSUME NEW u \in User, FindMatch(u)
      PROVE  RoomTyped'
  <2>1. room' = room \/ room' = [room EXCEPT ![First(New)].st = "claimed"]
    BY <1>2 DEF FindMatch
  <2> QED BY <1>0, <2>1
<1>3. ASSUME NEW u \in User, CreateRoom(u)
      PROVE  RoomTyped'
  <2>1. PICK r : room' = [room EXCEPT ![r] = [st |-> "live", user |-> u, bot |-> user[u].bot]]
    BY <1>3 DEF CreateRoom
  <2>2. user[u].bot \in Bot \cup {None}
    BY DEF UserTyped, ManType
  <2>3. [st |-> "live", user |-> u, bot |-> user[u].bot] \in RoomType
    BY <2>2 DEF RoomType
  <2> QED BY <2>1, <2>3
<1>4. ASSUME NEW t \in tasks, DeleteRoom(t)
      PROVE  RoomTyped'
  <2>1. room' = room \/ room' = [room EXCEPT ![Head(t).room].st = "dead"]
    BY <1>4 DEF DeleteRoom, Deleted
  <2> QED BY <1>0, <2>1
<1> QED BY <1>1, <1>2, <1>3, <1>4, RoomMoves

LEMMA UserNext ==
    ASSUME MgrTyped, UserTyped, RoomTyped, BotTyped, Next
    PROVE  UserTyped'
<1> USE DEF UserTyped
<1>0. \A u \in User : \A k \in Room \cup {None}, b \in Bot \cup {None} :
          /\ [user[u] EXCEPT !.key = k] \in ManType
          /\ \A a \in {"queue", "idle"} : [user[u] EXCEPT !.st = a] \in ManType
          /\ [user[u] EXCEPT !.st = "idle", !.shown = FALSE] \in ManType
          /\ [user[u] EXCEPT !.shown = FALSE] \in ManType
          /\ \A a \in {"none", "fallback", "create", "abort"} :
                [user[u] EXCEPT !.at = a] \in ManType
          /\ [user[u] EXCEPT !.at = "check", !.bot = b] \in ManType
          /\ [user[u] EXCEPT !.at = "check", !.bot = b, !.room = k, !.key = k] \in ManType
          /\ [user[u] EXCEPT !.at = "notify", !.room = k, !.key = k] \in ManType
          /\ [user[u] EXCEPT !.at = "none", !.st = "active", !.shown = TRUE,
                             !.bot = None, !.room = None] \in ManType
          /\ [user[u] EXCEPT !.at = "none", !.bot = None, !.room = None, !.key = k] \in ManType
  <2> SUFFICES ASSUME NEW u \in User, NEW k \in Room \cup {None}, NEW b \in Bot \cup {None}
      PROVE
          /\ [user[u] EXCEPT !.key = k] \in ManType
          /\ \A a \in {"queue", "idle"} : [user[u] EXCEPT !.st = a] \in ManType
          /\ [user[u] EXCEPT !.st = "idle", !.shown = FALSE] \in ManType
          /\ [user[u] EXCEPT !.shown = FALSE] \in ManType
          /\ \A a \in {"none", "fallback", "create", "abort"} :
                [user[u] EXCEPT !.at = a] \in ManType
          /\ [user[u] EXCEPT !.at = "check", !.bot = b] \in ManType
          /\ [user[u] EXCEPT !.at = "check", !.bot = b, !.room = k, !.key = k] \in ManType
          /\ [user[u] EXCEPT !.at = "notify", !.room = k, !.key = k] \in ManType
          /\ [user[u] EXCEPT !.at = "none", !.st = "active", !.shown = TRUE,
                             !.bot = None, !.room = None] \in ManType
          /\ [user[u] EXCEPT !.at = "none", !.bot = None, !.room = None, !.key = k] \in ManType
    OBVIOUS
  <2>1. user[u] \in ManType
    OBVIOUS
  <2>2. [user[u] EXCEPT !.key = k] \in ManType
    BY <2>1 DEF ManType
  <2>3. /\ \A a \in {"queue", "idle"} : [user[u] EXCEPT !.st = a] \in ManType
        /\ [user[u] EXCEPT !.st = "idle", !.shown = FALSE] \in ManType
        /\ [user[u] EXCEPT !.shown = FALSE] \in ManType
        /\ \A a \in {"none", "fallback", "create", "abort"} : [user[u] EXCEPT !.at = a] \in ManType
    BY <2>1 DEF ManType
  <2>4. /\ [user[u] EXCEPT !.at = "check", !.bot = b] \in ManType
        /\ [user[u] EXCEPT !.at = "check", !.bot = b, !.room = k, !.key = k] \in ManType
    BY <2>1 DEF ManType
  <2>5. /\ [user[u] EXCEPT !.at = "notify", !.room = k, !.key = k] \in ManType
        /\ [user[u] EXCEPT !.at = "none", !.st = "active", !.shown = TRUE,
                           !.bot = None, !.room = None] \in ManType
    BY <2>1 DEF ManType
  <2>6. [user[u] EXCEPT !.at = "none", !.bot = None, !.room = None, !.key = k] \in ManType
    BY <2>1 DEF ManType
  <2> HIDE DEF ManType
  <2> QED BY <2>2, <2>3, <2>4, <2>5, <2>6
<1>n. New # {} => First(New) \in Room
  BY FirstIsIn, Numbers DEF New
<1>1. CASE UNCHANGED user
  BY <1>1
<1>2. ASSUME NEW u \in User, Join(u) \/ Cancel(u) \/ Check(u) \/ Leave(u)
      PROVE  UserTyped'
  <2>1. \/ user' = [user EXCEPT ![u].st = "queue"] \/ user' = [user EXCEPT ![u].st = "idle"]
        \/ user' = [user EXCEPT ![u].at = "create"] \/ user' = [user EXCEPT ![u].at = "abort"]
        \/ user' = [user EXCEPT ![u] = [user[u] EXCEPT !.st = "idle", !.shown = FALSE]]
    BY <1>2 DEF Join, Cancel, Check, Leave
  <2>2. CASE user' = [user EXCEPT ![u].st = "queue"] \/ user' = [user EXCEPT ![u].st = "idle"]
    BY <1>0, <2>2
  <2>3. CASE user' = [user EXCEPT ![u].at = "create"] \/ user' = [user EXCEPT ![u].at = "abort"]
    BY <1>0, <2>3
  <2>4. CASE user' = [user EXCEPT ![u] = [user[u] EXCEPT !.st = "idle", !.shown = FALSE]]
    BY <1>0, <2>4
  <2> QED BY <2>1, <2>2, <2>3, <2>4
<1>3. ASSUME NEW u \in User, FindMatch(u) \/ Fallback(u)
      PROVE  UserTyped'
  <2>1. CASE \E b \in Bot : /\ New # {}
                            /\ user' = [user EXCEPT ![u].at = "check", ![u].bot = b,
                                                    ![u].room = First(New), ![u].key = First(New)]
    <3>1. PICK b \in Bot : user' = [user EXCEPT ![u] =
              [user[u] EXCEPT !.at = "check", !.bot = b, !.room = First(New), !.key = First(New)]]
      BY <2>1
    <3> HIDE DEF ManType
    <3> QED BY <1>0, <1>n, <2>1, <3>1
  <2>2. CASE \E a \in {"none", "fallback"} : user' = [user EXCEPT ![u].at = a]
    BY <1>0, <2>2
  <2>3. CASE \E b \in Bot : user' = [user EXCEPT ![u].at = "check", ![u].bot = b]
    <3>1. PICK b \in Bot : user' = [user EXCEPT ![u] = [user[u] EXCEPT !.at = "check", !.bot = b]]
      BY <2>3
    <3> QED BY <1>0, <3>1
  <2>4. CASE FindMatch(u)
    BY <2>1, <2>2, <2>4 DEF FindMatch
  <2>5. CASE Fallback(u)
    <3> DEFINE free == {b \in Pool : bot[b].chat = None}
    <3>1. free # {} => First(free) \in Bot
      <4>1. free \subseteq Pool /\ free \subseteq Nat
        BY PoolIn, Numbers
      <4> HIDE DEF free
      <4> QED BY <4>1, FirstIsIn, PoolIn
    <3>2. mgr.pool < mgr.max => mgr.pool + 1 \in Bot
      BY BotPoolAssumption DEF MgrTyped, Bot
    <3>3. \/ \E a \in {"none", "fallback"} : user' = [user EXCEPT ![u].at = a]
          \/ free # {} /\ user' = [user EXCEPT ![u].at = "check", ![u].bot = First(free)]
          \/ mgr.pool < mgr.max /\ user' = [user EXCEPT ![u].at = "check", ![u].bot = mgr.pool + 1]
      BY <2>5 DEF Fallback
    <3> HIDE DEF free
    <3> QED BY <2>2, <2>3, <3>1, <3>2, <3>3
  <2> QED BY <1>3, <2>4, <2>5
<1>4. ASSUME NEW u \in User, CreateRoom(u)
      PROVE  UserTyped'
  <2>1. PICK r \in Room : user' = [user EXCEPT ![u].at = "notify", ![u].room = r, ![u].key = r]
    <3>1. user[u].room \in Room \cup {None}
      BY DEF ManType
    <3> QED BY <1>4, <1>n, <3>1 DEF CreateRoom
  <2>2. user' = [user EXCEPT ![u] = [user[u] EXCEPT !.at = "notify", !.room = r, !.key = r]]
    BY <2>1
  <2> QED BY <1>0, <2>2
<1>5. ASSUME NEW u \in User, Notify(u)
      PROVE  UserTyped'
  <2>1. user' = [user EXCEPT ![u] = [user[u] EXCEPT !.at = "none", !.st = "active", !.shown = TRUE,
                                                    !.bot = None, !.room = None]]
    BY <1>5 DEF Notify
  <2> QED BY <1>0, <2>1
<1>6. ASSUME NEW S, user' = Told(S)
      PROVE  UserTyped'
  <2>1. \A u \in User : [user[u] EXCEPT !.shown = FALSE] \in ManType
    BY DEF ManType
  <2>2. \A u \in User : user'[u] = [user[u] EXCEPT !.shown = FALSE] \/ user'[u] = user[u]
    BY <1>6 DEF Told
  <2>3. user' = [u \in User |-> user'[u]]
    BY <1>6 DEF Told
  <2>4. \A u \in User : user'[u] \in ManType
    BY <2>1, <2>2
  <2> QED BY <2>3, <2>4
<1>7. ASSUME NEW m \in replies, ModelFails(m)
      PROVE  UserTyped'
  <2>1. \E S : user' = Told(S)
    BY <1>7 DEF ModelFails
  <2> QED BY <1>6, <2>1
<1>8. ASSUME NEW t \in tasks, Disable(t)
      PROVE  UserTyped'
  <2>1. user' = user \/ \E S : user' = Told(S)
    BY <1>8 DEF Disable
  <2> QED BY <1>6, <2>1
<1>9. ASSUME NEW t \in tasks, DeleteRoom(t)
      PROVE  UserTyped'
  <2>1. user' = user \/ \E k \in {None} : user' = [user EXCEPT ![room[Head(t).room].user].key = k]
    BY <1>9 DEF DeleteRoom, Deleted
  <2>2. ASSUME NEW k \in {None}, user' = [user EXCEPT ![room[Head(t).room].user].key = k]
        PROVE  UserTyped'
    BY <1>0, <2>2
  <2> QED BY <2>1, <2>2
<1>10. ASSUME NEW t \in tasks, ReleaseClaim(t)
       PROVE  UserTyped'
  <2> DEFINE s == Head(t)
             key == IF user[s.user].key = s.room THEN None ELSE user[s.user].key
  <2>1. user' = [user EXCEPT ![s.user] = [user[s.user] EXCEPT !.at = "none", !.bot = None,
                                                              !.room = None, !.key = key]]
    BY <1>10 DEF ReleaseClaim
  <2>2. s.user \in User => key \in Room \cup {None}
    BY DEF ManType
  <2> HIDE DEF key
  <2> QED BY <1>0, <2>1, <2>2
<1> QED BY <1>1, <1>2, <1>3, <1>4, <1>5, <1>7, <1>8, <1>9, <1>10, UserMoves

\* The map only grows, except when the bots are disabled, which frees them all.
LEMMA PoolMoves ==
    ASSUME MgrTyped, Off, Next
    PROVE  Pool \subseteq Pool' \/ bot' = Freed(InChat)
<1>1. CASE UNCHANGED mgr
  BY <1>1 DEF Pool
<1>2. ASSUME NEW u \in User, Fallback(u)
      PROVE  Pool \subseteq Pool'
  BY <1>2 DEF Fallback, Pool, MgrTyped
<1>3. ASSUME NEW m \in replies, ModelAnswers(m)
      PROVE  Pool \subseteq Pool'
  BY <1>3 DEF ModelAnswers, Pool, MgrTyped
<1>4. ASSUME NEW m \in replies, ModelFails(m)
      PROVE  Pool \subseteq Pool' \/ bot' = Freed(InChat)
  <2>1. (\E e \in Nat : mgr' = [mgr EXCEPT !.errors = e]) \/ bot' = Freed(InChat)
    <3>1. mgr.errors + 1 \in Nat /\ 1 \in Nat
      BY DEF MgrTyped
    <3> QED BY <1>4, <3>1 DEF ModelFails
  <2> QED BY <2>1 DEF Pool, MgrTyped
<1>5. ASSUME NEW t \in tasks, Enable(t) \/ Disable(t)
      PROVE  Pool \subseteq Pool' \/ bot' = Freed(InChat)
  <2>1. CASE Enable(t)
    BY <2>1 DEF Enable, Pool, MgrTyped, Off
  <2>2. CASE Disable(t)
    BY <2>2 DEF Disable, Pool
  <2> QED BY <1>5, <2>1, <2>2
<1>6. CASE UpdateConfig
  <2>1. PICK max \in 1..MaxBots :
            mgr' = [mgr EXCEPT !.max = max,
                               !.pool = IF mgr.enabled /\ @ < max THEN max ELSE @]
    BY <1>6 DEF UpdateConfig
  <2>2. mgr'.pool = IF mgr.enabled /\ mgr.pool < max THEN max ELSE mgr.pool
    BY <2>1 DEF MgrTyped
  <2>3. mgr.pool \in Nat /\ max \in Nat
    BY PoolIn
  <2> QED BY <2>2, <2>3 DEF Pool
<1> QED BY <1>1, <1>2, <1>3, <1>4, <1>5, <1>6, MgrMoves

\* The map's chats: only onBotMatched makes one, of a bot that is in the map.
LEMMA ChatMoves ==
    ASSUME BotTyped, Next, NEW b \in Bot
    PROVE  \/ bot'[b].chat \in {bot[b].chat, None}
           \/ \E u \in User : Notify(u) /\ user[u].bot = b /\ b \in Pool
                             /\ bot'[b].chat = user[u].room
<1> USE DEF BotTyped, BotType
<1>1. CASE UNCHANGED bot
  BY <1>1
<1>2. ASSUME NEW u \in User, FindMatch(u) \/ CreateRoom(u)
      PROVE  bot'[b].chat = bot[b].chat
  <2>1. CASE FindMatch(u)
    <3>1. bot' = bot \/ \E c, k, n : bot' = [bot EXCEPT ![c].queue = n, ![c].key = k]
      BY <2>1 DEF FindMatch
    <3>2. ASSUME NEW c, NEW k, NEW n, bot' = [bot EXCEPT ![c].queue = n, ![c].key = k]
          PROVE  bot'[b].chat = bot[b].chat
      BY <3>2
    <3> QED BY <3>1, <3>2
  <2>2. CASE CreateRoom(u)
    BY <2>2 DEF CreateRoom
  <2> QED BY <1>2, <2>1, <2>2
<1>3. ASSUME NEW u \in User, Notify(u)
      PROVE  \/ bot'[b].chat = bot[b].chat
             \/ user[u].bot = b /\ b \in Pool /\ bot'[b].chat = user[u].room
  BY <1>3 DEF Notify
<1>4. ASSUME NEW S, bot' = Freed(S)
      PROVE  bot'[b].chat \in {bot[b].chat, None}
  BY <1>4 DEF Freed
<1>5. ASSUME NEW m \in replies, ModelFails(m)
      PROVE  bot'[b].chat \in {bot[b].chat, None}
  BY <1>4, <1>5 DEF ModelFails
<1>6. ASSUME NEW t \in tasks, Disable(t)
      PROVE  bot'[b].chat \in {bot[b].chat, None}
  BY <1>4, <1>6 DEF Disable
<1>7. ASSUME NEW t \in tasks, DeleteRoom(t) \/ PartnerLeft(t) \/ AddToQueue(t)
      PROVE  bot'[b].chat \in {bot[b].chat, None}
  BY <1>7 DEF DeleteRoom, Deleted, PartnerLeft, AddToQueue
<1>8. ASSUME NEW t \in tasks, ReleaseClaim(t) \/ Dequeue(t)
      PROVE  bot'[b].chat \in {bot[b].chat, None}
  BY <1>8 DEF ReleaseClaim, Dequeue
<1> QED BY <1>1, <1>2, <1>3, <1>5, <1>6, <1>7, <1>8, BotMoves

LEMMA ChatInPoolNext ==
    ASSUME MgrTyped, BotTyped, ChatInPool, Off, Next
    PROVE  ChatInPool'
<1>1. CASE Pool \subseteq Pool'
  <2>1. \A b \in Bot : bot'[b].chat \in {bot[b].chat, None} \/ b \in Pool
    BY ChatMoves
  <2> QED BY <1>1, <2>1 DEF ChatInPool
<1>2. CASE bot' = Freed(InChat)
  <2>1. \A b \in Bot : bot'[b].chat = None
    <3> SUFFICES ASSUME NEW b \in Bot PROVE bot'[b].chat = None
      OBVIOUS
    <3>1. CASE b \in InChat
      BY <1>2, <3>1 DEF Freed, BotTyped, BotType
    <3>2. CASE b \notin InChat
      BY <1>2, <3>2 DEF Freed, InChat, ChatInPool
    <3> QED BY <3>1, <3>2
  <2> QED BY <2>1 DEF ChatInPool
<1> QED BY <1>1, <1>2, PoolMoves

LEMMA OffNext ==
    ASSUME MgrTyped, Off, Next
    PROVE  Off'
<1> USE DEF Off, MgrTyped
<1>1. CASE UNCHANGED mgr
  BY <1>1
<1>2. ASSUME NEW u \in User, Fallback(u)
      PROVE  Off'
  BY <1>2 DEF Fallback
<1>3. ASSUME NEW m \in replies, ModelAnswers(m) \/ ModelFails(m)
      PROVE  Off'
  <2>1. (\E e : mgr' = [mgr EXCEPT !.errors = e]) \/ mgr' = Disabled
    BY <1>3 DEF ModelAnswers, ModelFails
  <2> QED BY <2>1 DEF Disabled
<1>4. ASSUME NEW t \in tasks, Enable(t) \/ Disable(t)
      PROVE  Off'
  BY <1>4 DEF Enable, Disable, Disabled
<1>5. CASE UpdateConfig
  BY <1>5 DEF UpdateConfig
<1> QED BY <1>1, <1>2, <1>3, <1>4, <1>5, MgrMoves

\* A seat of an attempt holds a bot from the pick to the end.
LEMMA BotAtWorkNext ==
    ASSUME MgrTyped, UserTyped, BotAtWork, Next
    PROVE  BotAtWork'
<1> DEFINE Busy(u) == user[u].at \in {"check", "create", "notify", "abort"}
<1>1. \A u \in User : Busy(u) <=> user[u].bot # None
  BY DEF BotAtWork
<1>2. CASE \A u \in User : user'[u].at = user[u].at /\ user'[u].bot = user[u].bot
  BY <1>1, <1>2 DEF BotAtWork
<1>3. ASSUME NEW u \in User, \A v \in User \ {u} : user'[v] = user[v],
             \/ user'[u].at \in {"none", "fallback"} /\ user'[u].bot = None
             \/ user'[u].at \in {"check", "create", "notify", "abort"} /\ user'[u].bot # None
      PROVE  BotAtWork'
  BY <1>1, <1>3 DEF BotAtWork
<1> USE DEF UserTyped, ManType
<1>4. ASSUME NEW u \in User, Join(u) \/ Cancel(u) \/ Leave(u)
      PROVE  BotAtWork'
  BY <1>2, <1>4 DEF Join, Cancel, Leave
<1>5. ASSUME NEW u \in User, FindMatch(u)
      PROVE  BotAtWork'
  <2>1. user[u].bot = None
    BY <1>1, <1>5 DEF FindMatch
  <2> DEFINE k == First(New)
  <2>2. user' = [user EXCEPT ![u].at = "fallback"]
        \/ \E b \in Bot :
              user' = [user EXCEPT ![u].at = "check", ![u].bot = b, ![u].room = k, ![u].key = k]
    BY <1>5 DEF FindMatch
  <2> HIDE DEF k
  <2>3. CASE user' = [user EXCEPT ![u].at = "fallback"]
    BY <1>3, <2>1, <2>3
  <2>4. ASSUME NEW b \in Bot,
               user' = [user EXCEPT ![u].at = "check", ![u].bot = b, ![u].room = k, ![u].key = k]
        PROVE  BotAtWork'
    BY <1>3, <2>4, Numbers
  <2> QED BY <2>2, <2>3, <2>4
<1>6. ASSUME NEW u \in User, Fallback(u)
      PROVE  BotAtWork'
  <2>1. user[u].bot = None
    BY <1>1, <1>6 DEF Fallback
  <2> DEFINE free == {b \in Pool : bot[b].chat = None}
  <2>2. free # {} => First(free) \in Bot
    <3>1. free \subseteq Pool /\ free \subseteq Nat
      BY PoolIn, Numbers
    <3> HIDE DEF free
    <3> QED BY <3>1, FirstIsIn, PoolIn
  <2>3. mgr.pool + 1 # None
    BY PoolIn DEF None
  <2>4. \/ user' = [user EXCEPT ![u].at = "none"]
        \/ \E b : b # None /\ user' = [user EXCEPT ![u].at = "check", ![u].bot = b]
    BY <1>6, <2>2, <2>3, Numbers DEF Fallback
  <2> QED BY <1>3, <2>1, <2>4
<1>7. ASSUME NEW u \in User, Check(u) \/ CreateRoom(u)
      PROVE  BotAtWork'
  <2>1. user[u].bot # None
    BY <1>1, <1>7 DEF Check, CreateRoom
  <2>2. CASE Check(u)
    BY <1>3, <2>1, <2>2 DEF Check
  <2>3. CASE CreateRoom(u)
    <3>1. PICK r : user' = [user EXCEPT ![u].at = "notify", ![u].room = r, ![u].key = r]
      BY <2>3 DEF CreateRoom
    <3> QED BY <1>3, <2>1, <3>1
  <2> QED BY <1>7, <2>2, <2>3
<1>8. ASSUME NEW u \in User, Notify(u)
      PROVE  BotAtWork'
  BY <1>3, <1>8 DEF Notify
<1>9. ASSUME NEW S, user' = Told(S)
      PROVE  BotAtWork'
  <2>1. \A u \in User : user'[u].at = user[u].at /\ user'[u].bot = user[u].bot
    BY <1>9 DEF Told
  <2> QED BY <1>2, <2>1
<1>10. ASSUME NEW m \in replies, ModelFails(m)
       PROVE  BotAtWork'
  BY <1>9, <1>10 DEF ModelFails
<1>11. ASSUME NEW t \in tasks, Disable(t)
       PROVE  BotAtWork'
  BY <1>2, <1>9, <1>11 DEF Disable
<1>12. ASSUME NEW t \in tasks, DeleteRoom(t)
       PROVE  BotAtWork'
  BY <1>2, <1>12 DEF DeleteRoom, Deleted
<1>13. ASSUME NEW t \in tasks, ReleaseClaim(t)
       PROVE  BotAtWork'
  <2> DEFINE s == Head(t)
  <2>1. CASE s.user \in User
    <3>1. \E k : user' = [user EXCEPT ![s.user].at = "none", ![s.user].bot = None,
                                      ![s.user].room = None, ![s.user].key = k]
      BY <1>13 DEF ReleaseClaim
    <3>2. user'[s.user].at = "none" /\ user'[s.user].bot = None
          /\ \A v \in User \ {s.user} : user'[v] = user[v]
      BY <2>1, <3>1
    <3> QED BY <1>3, <2>1, <3>2
  <2>2. CASE s.user \notin User
    BY <1>2, <1>13, <2>2 DEF ReleaseClaim
  <2> QED BY <2>1, <2>2
<1>14. CASE UNCHANGED user
  BY <1>2, <1>14
<1> QED BY <1>4, <1>5, <1>6, <1>7, <1>8, <1>10, <1>11, <1>12, <1>13, <1>14, UserMoves

LEMMA GhostNext ==
    ASSUME GhostTyped, UserTyped, RoomTyped, RoomTaken, Next
    PROVE  GhostTyped'
<1> DEFINE GhostType == [odd : SUBSET {"shared", "late", "crossed"}, busy : BOOLEAN,
                         joins : 0..MaxJoins, messages : 0..MaxMessages, switches : 0..MaxSwitches]
<1>1. replies \in SUBSET Reply /\ ghost \in GhostType
  BY DEF GhostTyped
<1>2. replies' \in SUBSET Reply
  <2>1. \A m \in Reply : /\ [m EXCEPT !.at = "model"] \in Reply
                         /\ [m EXCEPT !.old = (@ \/ m.at = "model")] \in Reply
    BY DEF Reply
  <2>2. ASSUME NEW u \in User, SendMessage(u)
        PROVE  replies' \in SUBSET Reply
    <3> DEFINE r == user[u].key
    <3>1. r \in Room /\ room[r].bot \in Bot
      <4>1. Live(r) /\ r \in Room \cup {None}
        BY <2>2 DEF SendMessage, UserTyped, ManType
      <4>2. r \in Room
        BY <4>1 DEF Live
      <4> QED BY <4>1, <4>2 DEF RoomTaken
    <3>2. ghost.messages + 1 \in 1..MaxMessages
      BY <1>1, <2>2, BotPoolAssumption DEF SendMessage
    <3>3. [id |-> ghost.messages + 1, user |-> u, bot |-> room[r].bot,
           room |-> r, at |-> "think", old |-> FALSE] \in Reply
      BY <3>1, <3>2 DEF Reply
    <3> QED BY <1>1, <2>2, <3>3 DEF SendMessage
  <2>3. ASSUME NEW m \in replies, AskModel(m)
        PROVE  replies' \in SUBSET Reply
    <3>1. replies' \subseteq replies \cup {[m EXCEPT !.at = "model"]}
      BY <2>3 DEF AskModel
    <3> QED BY <1>1, <2>1, <3>1
  <2>4. ASSUME NEW m \in replies, ModelAnswers(m)
        PROVE  replies' \in SUBSET Reply
    BY <1>1, <2>4 DEF ModelAnswers
  <2>5. \A S \in SUBSET Reply : Olden(S) \in SUBSET Reply
    BY <2>1 DEF Olden
  <2>6. ASSUME NEW m \in replies, ModelFails(m)
        PROVE  replies' \in SUBSET Reply
    <3>1. replies' = replies \ {m} \/ replies' = Olden(replies \ {m})
      BY <2>6 DEF ModelFails
    <3> QED BY <1>1, <2>5, <3>1
  <2>7. ASSUME NEW t \in tasks, Disable(t)
        PROVE  replies' \in SUBSET Reply
    BY <1>1, <2>5, <2>7 DEF Disable
  <2>8. \/ UNCHANGED replies
        \/ \E u \in User : SendMessage(u)
        \/ \E m \in replies : AskModel(m) \/ ModelAnswers(m) \/ ModelFails(m)
        \/ \E t \in tasks : Disable(t)
    <3>1. UNCHANGED replies \/ (\E u \in User : SendMessage(u)) \/ Tasks \/ Replies
      BY Zenon DEF Next, Attempt, Join, Cancel, FindMatch, Fallback, Check, CreateRoom, Notify,
             Leave,
             EnableBots, DisableBots, UpdateConfig, Request
    <3>2. CASE Tasks
      BY <3>2 DEF Tasks, TaskStep, DeleteRoom, PartnerLeft, CheckQueue, AddToQueue, ReleaseClaim,
                  Enable, AddBotsToQueue, Dequeue, Done
    <3> QED BY <3>1, <3>2 DEF Replies
  <2> QED BY <1>1, <2>2, <2>3, <2>4, <2>6, <2>7, <2>8
<1>3. ghost' \in GhostType
  <2>1. \A S \in SUBSET {"shared", "late", "crossed"} :
            Flag(S) => ghost' \in GhostType
    BY <1>1 DEF Flag
  <2>2. ASSUME NEW u \in User, Join(u)
        PROVE  ghost' \in GhostType
    BY <1>1, <2>2, BotPoolAssumption DEF Join
  <2>3. ASSUME NEW u \in User, SendMessage(u)
        PROVE  ghost' \in GhostType
    BY <1>1, <2>3, BotPoolAssumption DEF SendMessage
  <2>4. ASSUME NEW todo, Request(todo)
        PROVE  ghost' \in GhostType
    <3>1. ghost.switches + 1 \in 0..MaxSwitches
      BY <1>1, <2>4, BotPoolAssumption DEF Request
    <3>2. ghost' = [ghost EXCEPT !.busy = TRUE, !.switches = ghost.switches + 1]
      BY <2>4 DEF Request
    <3> QED BY <1>1, <3>1, <3>2
  <2>5. ASSUME NEW t \in tasks, Done(t)
        PROVE  ghost' \in GhostType
    BY <1>1, <2>5 DEF Done
  <2>6. ASSUME NEW u \in User, FindMatch(u) \/ Fallback(u)
        PROVE  ghost' \in GhostType
    <3>1. \A b : Taken(b) => ghost' \in GhostType
      <4>1. {"shared"} \in SUBSET {"shared", "late", "crossed"}
            /\ {} \in SUBSET {"shared", "late", "crossed"}
        OBVIOUS
      <4> HIDE DEF GhostType
      <4> QED BY <2>1, <4>1 DEF Taken
    <3>2. UNCHANGED ghost \/ \E b : Taken(b)
      BY <2>6 DEF FindMatch, Fallback
    <3> QED BY <1>1, <3>1, <3>2
  <2>7. ASSUME NEW m \in replies, ModelFails(m)
        PROVE  ghost' \in GhostType
    <3>1. \E S \in SUBSET {"shared", "late", "crossed"} : Flag(S)
      <4> DEFINE b == m.bot
                 ended == IF m.old \/ bot[b].chat = None THEN {} ELSE {b}
                 crossed == ended # {} /\ (bot[b].chat # m.room \/ user[m.user].key # m.room)
                 c == IF crossed THEN {"crossed"} ELSE {}
                 l == IF UnderWay \/ ended # {} THEN {"late"} ELSE {}
      <4>1. Flag(c) \/ Flag(c \cup l)
        BY <2>7 DEF ModelFails
      <4>2. c \subseteq {"crossed"} /\ l \subseteq {"late"}
        OBVIOUS
      <4> HIDE DEF c, l
      <4> QED BY <4>1, <4>2
    <3> HIDE DEF GhostType
    <3> QED BY <2>1, <3>1
  <2>8. ASSUME NEW t \in tasks, Disable(t)
        PROVE  ghost' \in GhostType
    <3>1. UNCHANGED ghost \/ \E S \in SUBSET {"shared", "late", "crossed"} : Flag(S)
      <4>1. UNCHANGED ghost \/ Flag({}) \/ Flag({"late"})
        BY <2>8 DEF Disable
      <4> QED BY <4>1
    <3> HIDE DEF GhostType
    <3> QED BY <1>1, <2>1, <3>1
  <2>9. \/ UNCHANGED ghost
        \/ \E u \in User : Join(u) \/ SendMessage(u) \/ FindMatch(u) \/ Fallback(u)
        \/ \E m \in replies : ModelFails(m)
        \/ \E t \in tasks : Disable(t) \/ Done(t)
        \/ \E todo : Request(todo)
    <3>1. UNCHANGED ghost \/ Tasks \/ Replies
        \/ (\E u \in User : Join(u) \/ SendMessage(u) \/ FindMatch(u) \/ Fallback(u))
        \/ \E todo : Request(todo)
      BY Zenon DEF Next, Attempt, Cancel, Check, CreateRoom, Notify, Leave,
             EnableBots, DisableBots, UpdateConfig
    <3>2. CASE Tasks
      BY <3>2 DEF Tasks, TaskStep, DeleteRoom, PartnerLeft, CheckQueue, AddToQueue, ReleaseClaim,
                  Enable, AddBotsToQueue, Dequeue
    <3>3. CASE Replies
      BY <3>3 DEF Replies, AskModel, ModelAnswers
    <3> QED BY <3>1, <3>2, <3>3
  <2> QED BY <1>1, <2>2, <2>3, <2>4, <2>5, <2>6, <2>7, <2>8, <2>9
<1> QED BY <1>2, <1>3 DEF GhostTyped

-----------------------------------------------------------------------------
(* The tasks.                                                               *)

LEMMA DoStep ==
    ASSUME NEW b \in Bot \cup {None}, NEW r \in Room \cup {None}
    PROVE  \A what \in {"delete", "left", "check", "add", "release", "dequeue",
                        "disable", "test", "queueAll", "done"} : Do(what, b, r) \in Step
BY DEF Do, Step

LEMMA SoundTail ==
    ASSUME NEW t \in Seq(Step), Sound(t), Tail(t) # <<>>
    PROVE  Sound(Tail(t))
<1> DEFINE r == Tail(t)
<1>0. t # <<>>
  BY DEF Sound
<1>1. /\ r \in Seq(Step) /\ Len(r) = Len(t) - 1 /\ Len(t) \in Nat /\ DOMAIN r = 1..Len(r)
      /\ \A i \in DOMAIN r : i \in Nat /\ i + 1 \in DOMAIN t /\ r[i] = t[i + 1]
  BY <1>0, TailOf
<1> HIDE DEF r
<1>2. r[Len(r)] = t[Len(t)]
  <2>1. Len(r) \in DOMAIN r
    BY <1>1
  <2> QED BY <1>1, <2>1
<1>3. ASSUME NEW i \in DOMAIN r, NEW j \in DOMAIN r, i < j
      PROVE  /\ r[i].do = "left" => r[j].do \in {"check", "add"}
             /\ r[i].do \in {"test", "queueAll"} => r[j].do = "done"
  <2>1. i + 1 < j + 1 /\ i + 1 \in DOMAIN t /\ j + 1 \in DOMAIN t
        /\ r[i] = t[i + 1] /\ r[j] = t[j + 1]
    BY <1>1, <1>3
  <2> QED BY <2>1 DEF Sound
<1>4. r[Len(r)].do # "disable"
  BY <1>2 DEF Sound
<1> QED BY <1>3, <1>4 DEF Sound, r

LEMMA FitsTail ==
    ASSUME NEW t \in Seq(Step), Fits(t), Tail(t) # <<>>
    PROVE  Fits(Tail(t))
<1> DEFINE r == Tail(t)
<1>0. t # <<>>
  BY DEF Fits, Sound
<1>1. /\ r \in Seq(Step)
      /\ \A i \in DOMAIN r : i \in Nat /\ i + 1 \in DOMAIN t /\ r[i] = t[i + 1]
      /\ \A i \in DOMAIN t : i # 1 => i - 1 \in DOMAIN r /\ t[i] = r[i - 1]
      /\ DOMAIN t \subseteq Nat
  BY <1>0, TailOf
<1>2. Sound(r)
  BY SoundTail DEF Fits
<1> HIDE DEF r
<1>3. EndsWell(r)
  <2> SUFFICES ASSUME NEW b \in Bot, bot[b].chat # None,
                      NEW i \in DOMAIN r, Deletes(r, i, bot[b].chat)
               PROVE  \E j \in DOMAIN r : i < j /\ Frees(r, j, b)
    BY DEF EndsWell
  <2>1. Deletes(t, i + 1, bot[b].chat)
    BY <1>1 DEF Deletes
  <2>2. PICK j \in DOMAIN t : i + 1 < j /\ Frees(t, j, b)
    BY <1>1, <2>1 DEF Fits, EndsWell
  <2>3. j # 1 /\ i < j - 1
    BY <1>1, <2>2
  <2> QED BY <1>1, <2>2, <2>3 DEF Frees
<1>4. \A i \in DOMAIN r : StepOK(r[i])
  BY <1>1 DEF Fits
<1> QED BY <1>2, <1>3, <1>4 DEF Fits, r

\* A step of the system leaves a task in order, if the rooms and the attempts it is about do not
\* go back, and the map forgets chats at most.
LEMMA Carried ==
    ASSUME NEW t \in Seq(Step), Fits(t),
           \A r \in Room : room[r].st \in {"live", "dead"} => room'[r].st \in {"live", "dead"},
           \A i \in DOMAIN t : t[i].do = "release" /\ user[t[i].user].at = "abort" =>
                /\ user'[t[i].user].at = "abort" /\ user'[t[i].user].bot = user[t[i].user].bot
                /\ user'[t[i].user].room = user[t[i].user].room,
           \A b \in Bot : \/ bot'[b].chat \in {bot[b].chat, None}
                          \/ \A i \in DOMAIN t : ~Deletes(t, i, bot'[b].chat)
    PROVE  Fits(t)'
<1>1. EndsWell(t)'
  <2> SUFFICES ASSUME NEW b \in Bot, bot'[b].chat # None,
                      NEW i \in DOMAIN t, Deletes(t, i, bot'[b].chat)
               PROVE  \E j \in DOMAIN t : i < j /\ Frees(t, j, b)
    BY DEF EndsWell, Deletes, Frees
  <2>1. bot'[b].chat = bot[b].chat
    OBVIOUS
  <2> QED BY <2>1 DEF Fits, EndsWell
<1>2. \A i \in DOMAIN t : StepOK(t[i])'
  BY DEF Fits, StepOK
<1> QED BY <1>1, <1>2 DEF Fits, Sound

\* A task that deletes no room and drops no claim.
LEMMA CalmFits ==
    ASSUME NEW t, Sound(t),
           \A i \in DOMAIN t : /\ t[i].do \notin {"delete", "release"}
                               /\ t[i].do \in {"left", "check", "add"} => t[i].bot \in Bot
    PROVE  Fits(t)'
<1>1. EndsWell(t)'
  BY DEF EndsWell, Deletes
<1>2. \A i \in DOMAIN t : StepOK(t[i])'
  BY DEF StepOK
<1> QED BY <1>1, <1>2 DEF Fits, Sound

LEMMA BecomesIn ==
    ASSUME NEW t, NEW rest, Becomes(t, rest)
    PROVE  \A n \in tasks' : n \in tasks \/ (n = rest /\ rest # <<>>)
BY DEF Becomes

\* The rooms' ways.
LEMMA RoomsAge ==
    ASSUME RoomTyped, UserTyped, ClaimHeld, BotAtWork, Next
    PROVE  \A r \in Room : room[r].st \in {"live", "dead"} => room'[r].st \in {"live", "dead"}
<1> USE DEF RoomTyped, RoomType
<1>n. New # {} => First(New) \in New
  <2>1. New \subseteq Nat
    BY Numbers DEF New
  <2> QED BY <2>1, FirstIsIn
<1>1. CASE UNCHANGED room
  BY <1>1
<1>2. ASSUME NEW u \in User, FindMatch(u)
      PROVE  \A r \in Room : room[r].st \in {"live", "dead"} => room'[r].st \in {"live", "dead"}
  <2>1. room' = room \/ (New # {} /\ room' = [room EXCEPT ![First(New)].st = "claimed"])
    BY <1>2 DEF FindMatch
  <2>2. First(New) \in New => room[First(New)].st = "new"
    BY DEF New
  <2> QED BY <1>n, <2>1, <2>2
<1>3. ASSUME NEW u \in User, CreateRoom(u)
      PROVE  \A r \in Room : room[r].st \in {"live", "dead"} => room'[r].st \in {"live", "dead"}
  <2>1. PICK r : room' = [room EXCEPT ![r] = [st |-> "live", user |-> u, bot |-> user[u].bot]]
    BY <1>3 DEF CreateRoom
  <2> QED BY <2>1
<1>4. ASSUME NEW t \in tasks, DeleteRoom(t)
      PROVE  \A r \in Room : room[r].st \in {"live", "dead"} => room'[r].st \in {"live", "dead"}
  <2>1. room' = room \/ room' = [room EXCEPT ![Head(t).room].st = "dead"]
    BY <1>4 DEF DeleteRoom, Deleted
  <2> QED BY <2>1
<1> QED BY <1>1, <1>2, <1>3, <1>4, RoomMoves

LEMMA AbortsStay ==
    ASSUME MgrTyped, UserTyped, RoomTyped, Next, NEW u \in User, user[u].at = "abort"
    PROVE  \/ user'[u].at = "abort" /\ user'[u].bot = user[u].bot /\ user'[u].room = user[u].room
           \/ \E t \in tasks : ReleaseClaim(t) /\ Head(t).user = u
<1> USE DEF UserTyped, ManType
<1>1. CASE UNCHANGED user
  BY <1>1
<1>2. ASSUME NEW v \in User, Join(v) \/ Cancel(v) \/ Leave(v)
      PROVE  user'[u].at = "abort" /\ user'[u].bot = user[u].bot /\ user'[u].room = user[u].room
  <2>1. \/ \E st \in {"queue", "idle"} : user' = [user EXCEPT ![v].st = st]
        \/ user' = [user EXCEPT ![v].st = "idle", ![v].shown = FALSE]
    BY <1>2 DEF Join, Cancel, Leave
  <2> QED BY <2>1
<1>3. ASSUME NEW v \in User,
             FindMatch(v) \/ Fallback(v) \/ Check(v) \/ CreateRoom(v) \/ Notify(v)
      PROVE  user'[u] = user[u]
  <2>1. v # u
    BY <1>3 DEF FindMatch, Fallback, Check, CreateRoom, Notify
  <2>2. CASE FindMatch(v)
    BY <2>1, <2>2 DEF FindMatch
  <2>3. CASE Fallback(v)
    BY <2>1, <2>3 DEF Fallback
  <2>4. CASE Check(v)
    BY <2>1, <2>4 DEF Check
  <2>5. CASE CreateRoom(v)
    BY <2>1, <2>5 DEF CreateRoom
  <2>6. CASE Notify(v)
    BY <2>1, <2>6 DEF Notify
  <2> QED BY <1>3, <2>2, <2>3, <2>4, <2>5, <2>6
<1>4. ASSUME NEW S, user' = Told(S)
      PROVE  user'[u].at = "abort" /\ user'[u].bot = user[u].bot /\ user'[u].room = user[u].room
  BY <1>4 DEF Told
<1>5. ASSUME NEW m \in replies, ModelFails(m)
      PROVE  user'[u].at = "abort" /\ user'[u].bot = user[u].bot /\ user'[u].room = user[u].room
  BY <1>4, <1>5 DEF ModelFails
<1>6. ASSUME NEW t \in tasks, Disable(t)
      PROVE  user'[u].at = "abort" /\ user'[u].bot = user[u].bot /\ user'[u].room = user[u].room
  BY <1>4, <1>6 DEF Disable
<1>7. ASSUME NEW t \in tasks, DeleteRoom(t)
      PROVE  user'[u].at = "abort" /\ user'[u].bot = user[u].bot /\ user'[u].room = user[u].room
  BY <1>7 DEF DeleteRoom, Deleted
<1>8. ASSUME NEW t \in tasks, ReleaseClaim(t), Head(t).user # u
      PROVE  user'[u] = user[u]
  BY <1>8 DEF ReleaseClaim
<1> QED BY <1>1, <1>2, <1>3, <1>5, <1>6, <1>7, <1>8, UserMoves

LEMMA FitsOn ==
    ASSUME MgrTyped, UserTyped, RoomTyped, BotTyped, ClaimHeld, BotAtWork, Notified, Next,
           NEW n \in Seq(Step), Fits(n),
           \A i \in DOMAIN n, r \in Room : Deletes(n, i, r) => Leaving(r),
           \A t \in tasks : ReleaseClaim(t) =>
               \A i \in DOMAIN n : n[i].do = "release" => n[i].user # Head(t).user
    PROVE  Fits(n)'
<1>1. \A i \in DOMAIN n : n[i].do = "release" /\ user[n[i].user].at = "abort" =>
          /\ user'[n[i].user].at = "abort" /\ user'[n[i].user].bot = user[n[i].user].bot
          /\ user'[n[i].user].room = user[n[i].user].room
  <2> SUFFICES ASSUME NEW i \in DOMAIN n, n[i].do = "release"
               PROVE  /\ user'[n[i].user].at = "abort" /\ user'[n[i].user].bot = user[n[i].user].bot
                      /\ user'[n[i].user].room = user[n[i].user].room
    OBVIOUS
  <2>1. n[i].user \in User /\ user[n[i].user].at = "abort"
    BY DEF Fits, StepOK
  <2>2. PICK u \in User : u = n[i].user
    BY <2>1
  <2>3. \A t \in tasks : ReleaseClaim(t) => Head(t).user # u
    BY <2>2
  <2> QED BY <2>1, <2>2, <2>3, AbortsStay
<1>2. ASSUME NEW b \in Bot
      PROVE  \/ bot'[b].chat \in {bot[b].chat, None}
             \/ \A i \in DOMAIN n : ~Deletes(n, i, bot'[b].chat)
  <2>1. ASSUME NEW u \in User, Notify(u), bot'[b].chat = user[u].room
        PROVE  \A i \in DOMAIN n : ~Deletes(n, i, bot'[b].chat)
    <3>1. user[u].room \in Room /\ ~Leaving(user[u].room)
      BY <2>1 DEF Notify, Notified
    <3>2. PICK r \in Room : r = user[u].room
      BY <3>1
    <3> QED BY <2>1, <3>1, <3>2
  <2> QED BY <2>1, ChatMoves
<1> QED BY <1>1, <1>2, RoomsAge, Carried

LEMMA DeletesLeave ==
    ASSUME NEW t \in tasks, t \in Seq(Step), t # <<>>
    PROVE  /\ \A i \in DOMAIN t, r \in Room : Deletes(t, i, r) => Leaving(r)
           /\ \A i \in DOMAIN Tail(t), r \in Room : Deletes(Tail(t), i, r) => Leaving(r)
<1>1. \A i \in DOMAIN t, r \in Room : Deletes(t, i, r) => Leaving(r)
  BY DEF Deletes, Leaving
<1>2. \A i \in DOMAIN Tail(t) : i + 1 \in DOMAIN t /\ Tail(t)[i] = t[i + 1]
  BY TailOf
<1> QED BY <1>1, <1>2 DEF Deletes, Leaving

\* A task that is there before and after a step, and what is left of one, stay in order.
LEMMA OldFits ==
    ASSUME TypeOK, TasksFit, ReleasedOnce, ClaimHeld, Notified, Next
    PROVE  /\ \A n \in tasks : n \in tasks' => Fits(n)'
           /\ \A t \in tasks : Tail(t) # <<>> => Fits(Tail(t))'
<1>0. /\ MgrTyped /\ UserTyped /\ RoomTyped /\ BotTyped /\ BotAtWork
      /\ \A t \in tasks : t \in Seq(Step) /\ t # <<>> /\ Fits(t) /\ Head(t) = t[1] /\ 1 \in DOMAIN t
  <2>1. \A t \in tasks : t \in Seq(Step) /\ t # <<>> /\ Fits(t)
    BY TypeParts DEF TasksTyped, TasksFit, Fits, Sound
  <2> QED BY <2>1, TypeParts, TailOf
<1>1. ASSUME NEW n \in tasks, n \in tasks'
      PROVE  Fits(n)'
  <2>1. ASSUME NEW t \in tasks, ReleaseClaim(t)
        PROVE  \A i \in DOMAIN n : n[i].do = "release" => n[i].user # Head(t).user
    <3> SUFFICES ASSUME NEW i \in DOMAIN n, n[i].do = "release", n[i].user = Head(t).user
                 PROVE  FALSE
      OBVIOUS
    <3>1. Head(t) = t[1] /\ 1 \in DOMAIN t /\ t[1].do = "release"
      BY <1>0, <2>1 DEF ReleaseClaim, Runs
    <3>2. n = t
      BY <3>1 DEF ReleasedOnce
    <3>3. t = Tail(t)
      BY <1>1, <2>1, <3>2 DEF ReleaseClaim, Goes, Becomes
    <3>4. Len(Tail(t)) = Len(t) - 1 /\ Len(t) \in Nat
      BY <1>0, TailOf
    <3> QED BY <3>3, <3>4
  <2> QED BY <1>0, <2>1, DeletesLeave, FitsOn
<1>2. ASSUME NEW t \in tasks, Tail(t) # <<>>
      PROVE  Fits(Tail(t))'
  <2> DEFINE n == Tail(t)
  <2>1. n \in Seq(Step) /\ Fits(n) /\ \A i \in DOMAIN n : i \in Nat /\ i + 1 \in DOMAIN t
                                                          /\ n[i] = t[i + 1]
    BY <1>0, <1>2, FitsTail, TailOf
  <2>2. ASSUME NEW t2 \in tasks, ReleaseClaim(t2)
        PROVE  \A i \in DOMAIN n : n[i].do = "release" => n[i].user # Head(t2).user
    <3> HIDE DEF n
    <3> SUFFICES ASSUME NEW i \in DOMAIN n, n[i].do = "release", n[i].user = Head(t2).user
                 PROVE  FALSE
      OBVIOUS
    <3>1. Head(t2) = t2[1] /\ 1 \in DOMAIN t2 /\ t2[1].do = "release"
      BY <1>0, <2>2 DEF ReleaseClaim, Runs
    <3>2. i + 1 = 1
      BY <2>1, <3>1 DEF ReleasedOnce
    <3> QED BY <2>1, <3>2
  <2>3. \A i \in DOMAIN n, r \in Room : Deletes(n, i, r) => Leaving(r)
    BY <1>0, DeletesLeave
  <2> HIDE DEF n
  <2>4. Fits(n)'
    BY <1>0, <2>1, <2>2, <2>3, FitsOn
  <2> QED BY <2>4 DEF n
<1> QED BY <1>1, <1>2

\* No step of n drops a claim.
Claimless(n) == \A i \in DOMAIN n : n[i].do # "release"
\* No step of n ends a chat, and only bots of the map are looked for in the queue.
Quiet(n) ==
    \A i \in DOMAIN n : /\ n[i].do \notin {"delete", "left", "add"}
                        /\ n[i].do = "check" => n[i].bot \in Pool

LEMMA Tuples ==
    ASSUME NEW a, NEW b, NEW c
    PROVE  <<a>> \o <<b>> = <<a, b>> /\ <<a>> \o (<<b>> \o <<c>>) = <<a, b, c>>
<1> DEFINE S == {a, b, c}
<1>1. \A s \in Seq(S) : /\ Len(<<a>> \o s) = 1 + Len(s) /\ <<a>> \o s \in Seq(S)
                        /\ \A i \in 1..1 + Len(s) : (<<a>> \o s)[i] = IF i <= 1 THEN a ELSE s[i - 1]
  <2> SUFFICES ASSUME NEW s \in Seq(S)
               PROVE  /\ Len(<<a>> \o s) = 1 + Len(s) /\ <<a>> \o s \in Seq(S)
                      /\ \A i \in 1..1 + Len(s) :
                            (<<a>> \o s)[i] = IF i <= 1 THEN a ELSE s[i - 1]
    OBVIOUS
  <2>1. <<a>> \in Seq(S) /\ Len(<<a>>) = 1 /\ <<a>>[1] = a
    OBVIOUS
  <2>2. \A i \in 1..1 + Len(s) : i <= 1 => i = 1
    OBVIOUS
  <2> QED BY <2>1, <2>2, ConcatProperties
<1>2. <<a>> \o <<b>> = <<a, b>>
  <2> DEFINE r == <<a>> \o <<b>>
  <2>1. Len(r) = 2 /\ r \in Seq(S) /\ r[1] = a /\ r[2] = b
    <3>1. <<b>> \in Seq(S) /\ Len(<<b>>) = 1 /\ <<b>>[1] = b
      OBVIOUS
    <3> QED BY <1>1, <3>1
  <2> HIDE DEF r
  <2>2. r = <<a, b>>
    BY <2>1
  <2> QED BY <2>2 DEF r
<1>3. <<b>> \o <<c>> = <<b, c>>
  <2> DEFINE r == <<b>> \o <<c>>
  <2>1. Len(r) = 2 /\ r \in Seq(S) /\ r[1] = b /\ r[2] = c
    <3>1. <<c>> \in Seq(S) /\ Len(<<c>>) = 1 /\ <<c>>[1] = c
      OBVIOUS
    <3>2. <<b>> \in Seq(S) /\ Len(<<b>>) = 1 /\ <<b>>[1] = b
      OBVIOUS
    <3> QED BY <3>1, <3>2, ConcatProperties
  <2> HIDE DEF r
  <2>2. r = <<b, c>>
    BY <2>1
  <2> QED BY <2>2 DEF r
<1>4. <<a>> \o <<b, c>> = <<a, b, c>>
  <2> DEFINE r == <<a>> \o <<b, c>>
  <2>1. Len(r) = 3 /\ r \in Seq(S) /\ r[1] = a /\ r[2] = b /\ r[3] = c
    <3>1. <<b, c>> \in Seq(S) /\ Len(<<b, c>>) = 2 /\ <<b, c>>[1] = b /\ <<b, c>>[2] = c
      OBVIOUS
    <3> QED BY <1>1, <3>1
  <2> HIDE DEF r
  <2>2. r = <<a, b, c>>
    BY <2>1
  <2> QED BY <2>2 DEF r
<1> QED BY <1>2, <1>3, <1>4

\* The tasks that chats which end from the bot's side leave behind.
LEMMA EndingShape ==
    ASSUME NEW S, NEW back, NEW n \in Ending(S, back)
    PROVE  \E b \in S : \/ n = <<Do("delete", None, bot[b].chat)>> /\ b \notin back
                        \/ /\ n = <<Do("check", b, None), Do("delete", None, bot[b].chat)>>
                           /\ b \in back
<1>1. PICK b \in S : n = (IF b \in back THEN Requeue(b) ELSE <<>>)
                          \o <<Do("delete", None, bot[b].chat)>>
  BY DEF Ending
<1> DEFINE d == Do("delete", None, bot[b].chat)
           c == Do("check", b, None)
<1> HIDE DEF d, c
<1>2. CASE b \in back
  <2>1. n = <<c>> \o <<d>>
    BY <1>1, <1>2 DEF Requeue, c, d
  <2>2. n = <<c, d>>
    BY <2>1, Tuples
  <2> QED BY <1>2, <2>2 DEF c, d
<1>3. CASE b \notin back
  <2>1. n = <<>> \o <<d>>
    BY <1>1, <1>3 DEF d
  <2>2. n = <<d>>
    BY <2>1
  <2> QED BY <1>3, <2>2 DEF d
<1> QED BY <1>2, <1>3

LEMMA EndingFits ==
    ASSUME BotTyped, RoomTyped, Chats, ChatInPool, UNCHANGED room,
           NEW S, S \subseteq InChat, bot' = Freed(S), NEW back, NEW n \in Ending(S, back),
           Pool \subseteq Bot
    PROVE  n \in Seq(Step) /\ n # <<>> /\ Fits(n)'
<1> USE DEF BotTyped, BotType
<1>1. PICK b \in S : \/ n = <<Do("delete", None, bot[b].chat)>>
                     \/ n = <<Do("check", b, None), Do("delete", None, bot[b].chat)>>
  BY EndingShape
<1>2. b \in Bot /\ bot[b].chat \in Room /\ bot[b].chat # None
  BY DEF InChat
<1>3. room[bot[b].chat].st \in {"live", "dead"} /\ room[bot[b].chat].bot = b
  BY <1>2 DEF Chats
<1>4. PICK r \in Room : r = bot[b].chat
  BY <1>2
<1>5. \A c \in Bot : bot'[c].chat # r
  <2> SUFFICES ASSUME NEW c \in Bot, bot'[c].chat = r PROVE FALSE
    OBVIOUS
  <2>1. r # None
    BY Numbers
  <2>2. bot[c].chat = r /\ c \notin S
    BY <2>1 DEF Freed
  <2>3. room[r].bot = c
    BY <2>1, <2>2 DEF Chats
  <2> QED BY <1>3, <1>4, <2>2, <2>3
<1> DEFINE d == Do("delete", None, r)
           c == Do("check", b, None)
<1>6. d \in Step /\ c \in Step /\ d.do = "delete" /\ c.do = "check" /\ d.room = r /\ c.bot = b
  BY <1>2, DoStep DEF Do
<1> HIDE DEF d, c
<1>7. n = <<d>> \/ n = <<c, d>>
  BY <1>1, <1>4 DEF d, c
<1>8. n \in Seq(Step) /\ n # <<>> /\ Sound(n)
  <2>1. CASE n = <<d>>
    <3>1. DOMAIN n = {1} /\ Len(n) = 1 /\ n[1] = d
      BY <2>1
    <3> QED BY <1>6, <2>1, <3>1 DEF Sound
  <2>2. CASE n = <<c, d>>
    <3>1. DOMAIN n = {1, 2} /\ Len(n) = 2 /\ n[1] = c /\ n[2] = d
      BY <2>2
    <3> QED BY <1>6, <2>2, <3>1 DEF Sound
  <2> QED BY <1>7, <2>1, <2>2
<1>9. \A i \in DOMAIN n : n[i] \in {c, d}
  BY <1>7
<1>10. EndsWell(n)'
  BY <1>5, <1>6, <1>9 DEF EndsWell, Deletes
<1>11. \A i \in DOMAIN n : StepOK(n[i])'
  BY <1>2, <1>3, <1>4, <1>6, <1>9 DEF StepOK
<1> QED BY <1>8, <1>10, <1>11 DEF Fits, Sound

LEMMA CheckFits ==
    ASSUME UserTyped, NEW u \in User, Check(u), user[u].bot \in Bot,
           NEW n, n = Requeue(user[u].bot)
                      \o <<[Do("release", user[u].bot, user[u].room) EXCEPT !.user = u]>>,
           user[u].st # "queue"
    PROVE  n \in Seq(Step) /\ n # <<>> /\ Fits(n)'
<1> DEFINE cc == Do("check", user[u].bot, None)
           dd == [Do("release", user[u].bot, user[u].room) EXCEPT !.user = u]
<1>1. user[u].bot \in Bot /\ user[u].room \in Room \cup {None}
  BY DEF UserTyped, ManType
<1>2. /\ cc \in Step /\ cc.do = "check" /\ cc.bot \in Bot
      /\ dd \in Step /\ dd.do = "release" /\ dd.bot = user[u].bot /\ dd.room = user[u].room
      /\ dd.user = u
  BY <1>1 DEF Do, Step
<1>3. n = <<cc>> \o <<dd>>
  BY DEF Requeue
<1> HIDE DEF cc, dd
<1>a. PICK c \in Step : c = cc
  BY <1>2
<1>b. PICK d \in Step : d = dd
  BY <1>2
<1>4. n = <<c, d>> /\ DOMAIN n = {1, 2} /\ Len(n) = 2 /\ n[1] = c /\ n[2] = d
  <2>1. n = <<c, d>>
    BY <1>3, <1>a, <1>b, Tuples
  <2>2. DOMAIN <<c, d>> = {1, 2} /\ Len(<<c, d>>) = 2 /\ <<c, d>>[1] = c /\ <<c, d>>[2] = d
    OBVIOUS
  <2> QED BY <2>1, <2>2
<1>c. /\ c.do = "check" /\ c.bot \in Bot
      /\ d.do = "release" /\ d.bot = user[u].bot /\ d.room = user[u].room /\ d.user = u
  BY <1>2, <1>a, <1>b
<1>5. n \in Seq(Step) /\ n # <<>> /\ Sound(n)
  <2>1. n \in Seq(Step) /\ n # <<>>
    <3>1. <<c, d>> \in Seq(Step) /\ <<c, d>> # <<>>
      OBVIOUS
    <3>2. n = <<c, d>>
      BY <1>4
    <3> QED BY <3>1, <3>2
  <2>2. \A i, j \in DOMAIN n : i < j => i = 1 /\ j = 2
    BY <1>4
  <2> QED BY <1>c, <1>4, <2>1, <2>2 DEF Sound
<1>6. EndsWell(n)'
  BY <1>c, <1>4 DEF EndsWell, Deletes
<1>7. user'[u].at = "abort" /\ user'[u].room = user[u].room /\ user'[u].bot = user[u].bot
  BY DEF Check, UserTyped, ManType
<1>8. \A i \in DOMAIN n : StepOK(n[i])'
  <2>1. StepOK(c)'
    BY <1>c DEF StepOK
  <2>2. StepOK(d)'
    BY <1>c, <1>7 DEF StepOK
  <2> QED BY <1>4, <2>1, <2>2
<1> QED BY <1>5, <1>6, <1>8 DEF Fits, Sound

\* The task of a leave: the room goes, then the bot is freed and put back.
LEMMA LeaveShape ==
    ASSUME NEW r \in Room, NEW b \in Bot
    PROVE  LET n == <<Do("delete", None, r)>> \o AfterLeave(b)
           IN  /\ n = <<Do("delete", None, r), Do("left", b, None), Do("check", b, None)>>
               /\ n \in Seq(Step) /\ n # <<>> /\ DOMAIN n = {1, 2, 3} /\ Sound(n)
<1> DEFINE d == Do("delete", None, r)
           l == Do("left", b, None)
           c == Do("check", b, None)
           n == <<d>> \o (<<l>> \o <<c>>)
<1>1. d \in Step /\ l \in Step /\ c \in Step /\ d.do = "delete" /\ l.do = "left" /\ c.do = "check"
  BY DoStep DEF Do
<1> HIDE DEF d, l, c
<1>2. n = <<d, l, c>>
  BY Tuples
<1> HIDE DEF n
<1>3. DOMAIN n = {1, 2, 3} /\ Len(n) = 3 /\ n[1] = d /\ n[2] = l /\ n[3] = c
  BY <1>2
<1>4. n \in Seq(Step) /\ n # <<>> /\ Sound(n)
  BY <1>1, <1>2, <1>3 DEF Sound
<1> QED BY <1>2, <1>3, <1>4 DEF n, d, l, c, AfterLeave, Requeue

LEMMA LeaveFits ==
    ASSUME BotTyped, Chats, NEW r \in Room, Live(r), room[r].bot \in Bot, UNCHANGED <<room, bot>>,
           NEW n, n = <<Do("delete", None, r)>> \o AfterLeave(room[r].bot)
    PROVE  n \in Seq(Step) /\ n # <<>> /\ Fits(n)'
<1>0. PICK b \in Bot : b = room[r].bot
  OBVIOUS
<1> DEFINE d == Do("delete", None, r)
           l == Do("left", b, None)
           c == Do("check", b, None)
<1>1. n = <<d, l, c>> /\ n \in Seq(Step) /\ n # <<>> /\ DOMAIN n = {1, 2, 3} /\ Sound(n)
  BY <1>0, LeaveShape
<1>2. /\ d.do = "delete" /\ l.do = "left" /\ c.do = "check" /\ d.room = r /\ l.bot = b /\ c.bot = b
  BY DEF Do
<1> HIDE DEF d, l, c
<1>3. n[1] = d /\ n[2] = l /\ n[3] = c
  BY <1>1
<1>4. EndsWell(n)'
  <2> SUFFICES ASSUME NEW a \in Bot, bot[a].chat # None,
                      NEW i \in DOMAIN n, Deletes(n, i, bot[a].chat)
               PROVE  \E j \in DOMAIN n : i < j /\ Frees(n, j, a)
    BY DEF EndsWell, Deletes, Frees
  <2>1. i = 1 /\ bot[a].chat = r
    BY <1>1, <1>2, <1>3 DEF Deletes
  <2>2. a = b
    BY <1>0, <2>1 DEF Chats
  <2>3. 2 \in DOMAIN n /\ i < 2 /\ n[2].do = "left" /\ n[2].bot = a
    BY <1>1, <1>2, <1>3, <2>1, <2>2
  <2> QED BY <2>3 DEF Frees
<1>5. \A i \in DOMAIN n : StepOK(n[i])'
  <2>1. StepOK(d)' /\ StepOK(l)' /\ StepOK(c)'
    BY <1>2 DEF StepOK, Live
  <2> QED BY <1>1, <1>3, <2>1
<1> QED BY <1>1, <1>4, <1>5 DEF Fits, Sound

\* A step put before what is left of a task.
LEMMA PutBefore ==
    ASSUME NEW s \in Step, s.do \in {"add", "queueAll"}, s.do = "add" => s.bot \in Bot,
           NEW r \in Seq(Step), r # <<>> => Fits(r),
           s.do = "queueAll" => \A i \in DOMAIN r : r[i].do = "done",
           NEW n, n = <<s>> \o r, UNCHANGED <<user, room, bot>>
    PROVE  n \in Seq(Step) /\ n # <<>> /\ Fits(n)'
<1>1. /\ n \in Seq(Step) /\ Len(r) \in Nat /\ Len(n) = 1 + Len(r) /\ DOMAIN n = 1..Len(n)
      /\ DOMAIN r = 1..Len(r)
      /\ \A i \in DOMAIN n : (i = 1 /\ n[i] = s) \/ (i > 1 /\ i - 1 \in DOMAIN r /\ n[i] = r[i - 1])
      /\ \A i \in DOMAIN r : i + 1 \in DOMAIN n /\ n[i + 1] = r[i]
  <2>1. <<s>> \in Seq(Step) /\ Len(<<s>>) = 1 /\ DOMAIN <<s>> = {1} /\ <<s>>[1] = s
    OBVIOUS
  <2>2. Len(r) \in Nat /\ DOMAIN r = 1..Len(r)
    OBVIOUS
  <2> QED BY <2>1, <2>2, JoinIs
<1>2. n # <<>>
  BY <1>1, EmptyIs
<1>3. r # <<>> => Len(r) \in DOMAIN r
  BY <1>1, EmptyIs
<1>4. n[Len(n)].do # "disable"
  <2>1. Len(n) \in DOMAIN n
    BY <1>1
  <2>2. CASE Len(n) = 1
    BY <1>1, <2>1, <2>2
  <2>3. CASE Len(n) # 1
    <3>1. n[Len(n)] = r[Len(r)] /\ r # <<>>
      BY <1>1, <2>1, <2>3, EmptyIs
    <3> QED BY <3>1 DEF Fits, Sound
  <2> QED BY <2>2, <2>3
<1>5. ASSUME NEW i \in DOMAIN n, NEW j \in DOMAIN n, i < j
      PROVE  /\ n[i].do = "left" => n[j].do \in {"check", "add"}
             /\ n[i].do \in {"test", "queueAll"} => n[j].do = "done"
  <2>1. j - 1 \in DOMAIN r /\ n[j] = r[j - 1] /\ r # <<>>
    <3>1. j # 1
      BY <1>1, <1>5
    <3>2. j - 1 \in DOMAIN r /\ n[j] = r[j - 1]
      BY <1>1, <3>1
    <3>3. Len(r) # 0
      BY <1>1, <3>2
    <3> QED BY <3>2, <3>3, EmptyIs
  <2>2. CASE i = 1
    BY <1>1, <2>1, <2>2
  <2>3. CASE i # 1
    <3>1. i - 1 \in DOMAIN r /\ n[i] = r[i - 1] /\ i - 1 < j - 1
      BY <1>1, <1>5, <2>3
    <3> QED BY <2>1, <3>1 DEF Fits, Sound
  <2> QED BY <2>2, <2>3
<1>6. EndsWell(n)
  <2> SUFFICES ASSUME NEW b \in Bot, bot[b].chat # None,
                      NEW i \in DOMAIN n, Deletes(n, i, bot[b].chat)
               PROVE  \E j \in DOMAIN n : i < j /\ Frees(n, j, b)
    BY DEF EndsWell
  <2>1. i > 1 /\ i - 1 \in DOMAIN r /\ n[i] = r[i - 1]
    BY <1>1 DEF Deletes
  <2>2. Len(r) # 0 /\ r # <<>>
    <3>1. Len(r) # 0
      BY <1>1, <2>1
    <3> QED BY <3>1, EmptyIs
  <2>3. Deletes(r, i - 1, bot[b].chat)
    BY <2>1 DEF Deletes
  <2>4. PICK j \in DOMAIN r : i - 1 < j /\ Frees(r, j, b)
    BY <2>1, <2>2, <2>3 DEF Fits, EndsWell
  <2>5. i < j + 1
    BY <1>1, <2>4
  <2> QED BY <1>1, <2>4, <2>5 DEF Frees
<1>7. \A i \in DOMAIN n : StepOK(n[i])
  <2>1. StepOK(s)
    BY DEF StepOK
  <2>2. ASSUME NEW i \in DOMAIN r
        PROVE  StepOK(r[i])
    <3>1. Len(r) # 0 /\ r # <<>>
      <4>1. Len(r) # 0
        BY <1>1
      <4> QED BY <4>1, EmptyIs
    <3> QED BY <3>1 DEF Fits
  <2> QED BY <1>1, <2>1, <2>2
<1>8. Fits(n)
  BY <1>2, <1>4, <1>5, <1>6, <1>7 DEF Fits, Sound
<1> QED BY <1>1, <1>2, <1>8, Carried

LEMMA MoreToDo ==
    ASSUME NEW t \in Seq(Step), Sound(t), t[1].do = "disable", NEW r, r = Tail(t)
    PROVE  r # <<>>
<1>1. t # <<>>
  BY DEF Sound
<1>2. Len(t) \in Nat /\ DOMAIN t = 1..Len(t) /\ Len(r) = Len(t) - 1 /\ r \in Seq(Step)
  BY <1>1, TailOf
<1>3. Len(t) # 1
  BY DEF Sound
<1>4. Len(r) # 0
  BY <1>2, <1>3
<1>5. r = <<>> <=> Len(r) = 0
  <2>1. \A s \in Seq(Step) : s = <<>> <=> Len(s) = 0
    BY EmptyIs
  <2> QED BY <1>2, <2>1
<1> QED BY <1>4, <1>5

LEMMA ChecksThenDone ==
    ASSUME MgrTyped, NEW q \in Seq(Step), NEW r \in Seq(Step), NEW n, n = q \o r, n # <<>>,
           \A i \in DOMAIN q : q[i].do = "check" /\ q[i].bot \in Pool,
           \A i \in DOMAIN r : r[i].do = "done"
    PROVE  n \in Seq(Step) /\ Fits(n)' /\ Claimless(n) /\ Quiet(n)
<1>5. /\ n \in Seq(Step) /\ DOMAIN n = 1..Len(n) /\ Len(n) \in Nat
      /\ \A i \in DOMAIN n : \/ i \in DOMAIN q /\ n[i] = q[i]
                             \/ i - Len(q) \in DOMAIN r /\ n[i] = r[i - Len(q)]
  BY JoinIs
<1>6. \A i \in DOMAIN n : n[i].do \in {"check", "done"} /\ (n[i].do = "check" => n[i].bot \in Pool)
  <2> SUFFICES ASSUME NEW i \in DOMAIN n
               PROVE  n[i].do \in {"check", "done"} /\ (n[i].do = "check" => n[i].bot \in Pool)
    OBVIOUS
  <2>1. CASE i \in DOMAIN q /\ n[i] = q[i]
    BY <2>1
  <2>2. ASSUME NEW k \in DOMAIN r, n[i] = r[k]
        PROVE  n[i].do = "done"
    BY <2>2
  <2> QED BY <1>5, <2>1, <2>2
<1>7. Sound(n)
  <2>1. Len(n) \in DOMAIN n
    <3>1. Len(n) # 0
      BY <1>5, EmptyIs
    <3> QED BY <1>5, <3>1
  <2> QED BY <1>6, <2>1 DEF Sound
<1>8. \A i \in DOMAIN n : n[i].do = "check" => n[i].bot \in Bot
  BY <1>6, PoolIn
<1> QED BY <1>5, <1>6, <1>7, <1>8, CalmFits DEF Claimless, Quiet

\* The bots that addBotsToQueue puts into the queue, before what is left of its request.
LEMMA QueueAllFits ==
    ASSUME MgrTyped, NEW t \in Seq(Step), Fits(t), t[1].do = "queueAll",
           NEW n, n = QueueAll({b \in Pool : bot[b].chat = None}, mgr.pool) \o Tail(t), n # <<>>
    PROVE  n \in Seq(Step) /\ Fits(n)' /\ Claimless(n) /\ Quiet(n)
<1> DEFINE free == {b \in Pool : bot[b].chat = None}
           qq == QueueAll(free, mgr.pool)
           rr == Tail(t)
<1>0. t # <<>> /\ 1 \in DOMAIN t
  <2>1. t # <<>>
    BY DEF Fits, Sound
  <2> QED BY <2>1, TailOf
<1>1. /\ rr \in Seq(Step) /\ DOMAIN rr \subseteq Nat
      /\ \A i \in DOMAIN rr : i \in Nat /\ i + 1 \in DOMAIN t /\ rr[i] = t[i + 1]
  BY <1>0, TailOf
<1>2. \A i \in DOMAIN rr : rr[i].do = "done"
  <2> SUFFICES ASSUME NEW i \in DOMAIN rr PROVE rr[i].do = "done"
    OBVIOUS
  <2>1. i + 1 \in DOMAIN t /\ 1 < i + 1 /\ rr[i] = t[i + 1]
    <3>1. i \in 1..Len(rr)
      BY <1>1
    <3> QED BY <1>1, <3>1
  <2> QED BY <1>0, <2>1 DEF Fits, Sound
<1>3. qq \in Seq(Step) /\ \A i \in DOMAIN qq : qq[i].do = "check" /\ qq[i].bot \in Pool
  <2> DEFINE C == {Do("check", b, None) : b \in free}
  <2>1. qq \in Seq(C)
    BY PoolIn, QueueAllOf
  <2>2. \A c \in C : c \in Step /\ c.do = "check" /\ c.bot \in Pool
    <3>1. \A b \in Pool : LET c == Do("check", b, None)
                         IN  c \in Step /\ c.do = "check" /\ c.bot \in Pool
      BY PoolIn, DoStep DEF Do
    <3> QED BY <3>1
  <2> HIDE DEF C, qq
  <2>3. \A i \in DOMAIN qq : qq[i] \in C
    BY <2>1
  <2>4. C \subseteq Step
    BY <2>2
  <2>5. qq \in Seq(Step)
    BY <2>1, <2>4
  <2> QED BY <2>2, <2>3, <2>5
<1> HIDE DEF qq, rr
<1>a. PICK q \in Seq(Step) : q = qq
  BY <1>3
<1>b. PICK r \in Seq(Step) : r = rr
  BY <1>1
<1>4. n = q \o r
  BY <1>a, <1>b DEF qq, rr
<1>c. /\ \A i \in DOMAIN q : q[i].do = "check" /\ q[i].bot \in Pool
      /\ \A i \in DOMAIN r : r[i].do = "done"
  BY <1>2, <1>3, <1>a, <1>b
<1> QED BY <1>4, <1>c, ChecksThenDone

\* The requests of the administrator.
LEMMA RequestFits ==
    ASSUME MgrTyped, NEW n,
           \/ n = <<Do("test", None, None)>> \o <<Do("done", None, None)>>
           \/ n = <<>> \o <<Do("done", None, None)>>
           \/ n = ([b \in Pool |-> Do("dequeue", b, None)] \o <<Do("disable", None, None)>>)
                      \o <<Do("done", None, None)>>
    PROVE  n \in Seq(Step) /\ n # <<>> /\ Fits(n)' /\ Claimless(n) /\ Quiet(n)
<1> DEFINE ts == Do("test", None, None)
           dn == Do("done", None, None)
           ds == Do("disable", None, None)
           qs == [b \in Pool |-> Do("dequeue", b, None)]
<1>1. /\ ts \in Step /\ dn \in Step /\ ds \in Step
      /\ ts.do = "test" /\ dn.do = "done" /\ ds.do = "disable"
  BY DoStep DEF Do
<1>2. qs \in Seq(Step) /\ \A i \in DOMAIN qs : qs[i].do = "dequeue"
  <2>1. \A b \in Pool : Do("dequeue", b, None) \in Step /\ Do("dequeue", b, None).do = "dequeue"
    BY PoolIn, DoStep DEF Do
  <2>2. mgr.pool \in Nat /\ Pool = 1..mgr.pool
    BY PoolIn DEF Pool
  <2> HIDE DEF Pool
  <2>3. qs \in [1..mgr.pool -> Step]
    BY <2>1, <2>2
  <2> QED BY <2>1, <2>2, <2>3
<1> HIDE DEF ts, dn, ds, qs
<1>3. n = <<ts>> \o <<dn>> \/ n = <<>> \o <<dn>> \/ n = (qs \o <<ds>>) \o <<dn>>
  BY DEF ts, dn, ds, qs
<1>4. \A x \in Step : <<x>> \in Seq(Step) /\ Len(<<x>>) = 1 /\ DOMAIN <<x>> = {1} /\ <<x>>[1] = x
  OBVIOUS
<1>5. ASSUME NEW s \in Seq(Step), n = s \o <<dn>>,
             \A i \in DOMAIN s : \/ s[i].do \in {"dequeue", "disable"}
                                 \/ s[i].do = "test" /\ Len(s) = 1
      PROVE  n \in Seq(Step) /\ n # <<>> /\ Fits(n)' /\ Claimless(n) /\ Quiet(n)
  <2>1. /\ n \in Seq(Step) /\ Len(s) \in Nat /\ Len(n) = Len(s) + 1
        /\ \A i \in DOMAIN n : \/ i \in DOMAIN s /\ n[i] = s[i]
                               \/ i > Len(s) /\ i - Len(s) = 1 /\ n[i] = dn
    BY <1>1, <1>4, <1>5, JoinIs
  <2>2. DOMAIN n = 1..Len(n) /\ Len(n) \in DOMAIN n /\ n # <<>> /\ DOMAIN s = 1..Len(s)
    BY <2>1
  <2>3. n[Len(n)].do = "done"
    <3>1. Len(n) \notin DOMAIN s
      BY <2>1, <2>2
    <3> QED BY <1>1, <2>1, <2>2, <3>1
  <2>4. \A i \in DOMAIN n : n[i].do \in {"dequeue", "disable", "test", "done"}
    BY <1>1, <1>5, <2>1
  <2>5. ASSUME NEW i \in DOMAIN n, NEW j \in DOMAIN n, i < j, n[i].do \in {"test", "queueAll"}
        PROVE  n[j].do = "done"
    <3>1. n[i].do = "test" /\ i \in DOMAIN s /\ n[i] = s[i]
      BY <1>1, <2>1, <2>4, <2>5
    <3>2. Len(s) = 1 /\ i \in 1..Len(s)
      BY <1>5, <2>2, <3>1
    <3>3. i \in Int /\ j \in Int /\ i < j /\ 1 <= i
      <4>1. i \in 1..Len(n) /\ j \in 1..Len(n)
        BY <2>2
      <4> QED BY <2>5, <4>1
    <3>4. j \notin 1..Len(s)
      BY <3>2, <3>3
    <3>5. j \notin DOMAIN s
      BY <2>2, <3>4
    <3> QED BY <1>1, <2>1, <3>5
  <2>6. Sound(n)
    BY <2>2, <2>3, <2>4, <2>5 DEF Sound
  <2>7. Fits(n)'
    BY <2>4, <2>6, CalmFits
  <2> QED BY <2>1, <2>2, <2>4, <2>7 DEF Claimless, Quiet
<1>6. CASE n = <<ts>> \o <<dn>>
  <2>1. PICK s \in Seq(Step) : s = <<ts>>
    BY <1>1, <1>4
  <2>2. Len(s) = 1 /\ \A i \in DOMAIN s : s[i].do = "test"
    BY <1>1, <1>4, <2>1
  <2> QED BY <1>5, <1>6, <2>1, <2>2
<1>7. CASE n = <<>> \o <<dn>>
  <2>1. <<>> \in Seq(Step) /\ DOMAIN <<>> = {}
    OBVIOUS
  <2> QED BY <1>5, <1>7, <2>1
<1>8. CASE n = (qs \o <<ds>>) \o <<dn>>
  <2> DEFINE ss == qs \o <<ds>>
  <2>1. /\ ss \in Seq(Step)
        /\ \A i \in DOMAIN ss : ss[i].do \in {"dequeue", "disable"}
    <3>1. /\ ss \in Seq(Step)
          /\ \A i \in DOMAIN ss : \/ i \in DOMAIN qs /\ ss[i] = qs[i]
                                  \/ i - Len(qs) \in DOMAIN <<ds>> /\ ss[i] = <<ds>>[i - Len(qs)]
      BY <1>1, <1>2, <1>4, JoinIs
    <3> QED BY <1>1, <1>2, <1>4, <3>1
  <2> HIDE DEF ss
  <2>2. PICK s \in Seq(Step) : s = ss
    BY <2>1
  <2>3. n = s \o <<dn>>
    BY <1>8, <2>2 DEF ss
  <2> QED BY <1>5, <2>1, <2>2, <2>3
<1> QED BY <1>3, <1>6, <1>7, <1>8

LEMMA TasksNext ==
    ASSUME TypeOK, TasksFit, ReleasedOnce, RoomTaken, ClaimHeld, Notified, Chats, Next
    PROVE  TasksTyped' /\ TasksFit'
<1> DEFINE Good(n) == n \in Seq(Step) /\ n # <<>> /\ Fits(n)'
<1>0. /\ MgrTyped /\ UserTyped /\ RoomTyped /\ BotTyped /\ ChatInPool /\ BotAtWork
      /\ Pool \subseteq Bot
      /\ \A t \in tasks : t \in Seq(Step) /\ t # <<>> /\ Fits(t) /\ Head(t) = t[1] /\ 1 \in DOMAIN t
                          /\ Tail(t) \in Seq(Step)
  <2>1. \A t \in tasks : t \in Seq(Step) /\ t # <<>> /\ Fits(t)
    BY TypeParts DEF TasksTyped, TasksFit, Fits, Sound
  <2> QED BY <2>1, TypeParts, TailOf, PoolIn
<1>1. \A n \in tasks : n \in tasks' => Good(n)
  BY <1>0, OldFits
<1>2. \A t \in tasks : Tail(t) # <<>> => Good(Tail(t))
  BY <1>0, OldFits
<1>3. ASSUME \A n \in tasks' : n \in tasks \/ Good(n)
      PROVE  TasksTyped' /\ TasksFit'
  BY <1>1, <1>3 DEF TasksTyped, TasksFit
<1> HIDE DEF Good
<1>4. CASE UNCHANGED tasks
  BY <1>3, <1>4
<1>5. ASSUME NEW u \in User, Check(u)
      PROVE  TasksTyped' /\ TasksFit'
  <2>1. CASE user[u].st = "queue"
    BY <1>4, <1>5, <2>1 DEF Check
  <2>2. CASE user[u].st # "queue"
    <3>1. user[u].bot \in Bot
      <4>1. user[u].bot # None /\ user[u].bot \in Bot \cup {None}
        BY <1>0, <1>5 DEF Check, BotAtWork, UserTyped, ManType
      <4> QED BY <4>1
    <3>2. PICK n : /\ n = Requeue(user[u].bot)
                            \o <<[Do("release", user[u].bot, user[u].room) EXCEPT !.user = u]>>
                   /\ tasks' = tasks \cup {n}
      BY <1>5, <2>2 DEF Check
    <3>3. Good(n)
      BY <1>0, <1>5, <2>2, <3>1, <3>2, CheckFits DEF Good
    <3> QED BY <1>3, <3>2, <3>3
  <2> QED BY <2>1, <2>2
<1>6. ASSUME NEW u \in User, Leave(u)
      PROVE  TasksTyped' /\ TasksFit'
  <2>1. PICK r \in Room : r = user[u].key /\ Live(r)
    <3>1. Live(user[u].key) /\ user[u].key \in Room \cup {None}
      BY <1>0, <1>6 DEF Leave, UserTyped, ManType
    <3> QED BY <3>1 DEF Live
  <2>2. PICK n : n = <<Do("delete", None, r)>> \o AfterLeave(room[r].bot) /\ tasks' = tasks \cup {n}
    BY <1>6, <2>1 DEF Leave
  <2>3. room[r].bot \in Bot /\ UNCHANGED <<room, bot>>
    BY <1>6, <2>1 DEF Leave, RoomTaken
  <2>4. Good(n)
    BY <1>0, <2>1, <2>2, <2>3, LeaveFits DEF Good
  <2> QED BY <1>3, <2>2, <2>4
<1>7. ASSUME NEW m \in replies, ModelFails(m)
      PROVE  TasksTyped' /\ TasksFit'
  <2>1. PICK S, back : /\ S \subseteq InChat /\ bot' = Freed(S) /\ UNCHANGED room
                       /\ tasks' = tasks \cup Ending(S, back)
    <3> DEFINE b == m.bot
               ended == IF m.old \/ bot[b].chat = None THEN {} ELSE {b}
    <3>1. ended \subseteq InChat
      <4>1. m.bot \in Bot
        BY TypeParts DEF GhostTyped, Reply
      <4> QED BY <1>0, <4>1 DEF InChat, ChatInPool
    <3>2. UNCHANGED room
      BY <1>7 DEF ModelFails
    <3>3. \/ bot' = Freed(ended) /\ tasks' = tasks \cup Ending(ended, ended)
          \/ bot' = Freed(InChat) /\ tasks' = tasks \cup Ending(InChat, ended)
      BY <1>7 DEF ModelFails
    <3> HIDE DEF ended
    <3> QED BY <3>1, <3>2, <3>3
  <2>2. ASSUME NEW n \in Ending(S, back)
        PROVE  Good(n)
    BY <1>0, <2>1, EndingFits DEF Good
  <2> QED BY <1>3, <2>1, <2>2
<1>8. ASSUME NEW t \in tasks, NEW rest, Becomes(t, rest), rest # <<>> => Good(rest)
      PROVE  TasksTyped' /\ TasksFit'
  BY <1>3, <1>8, BecomesIn
<1>9. ASSUME NEW t \in tasks, Goes(t)
      PROVE  TasksTyped' /\ TasksFit'
  <2>1. PICK rest : rest = Tail(t) /\ Becomes(t, rest)
    BY <1>9 DEF Goes
  <2> QED BY <1>2, <1>8, <2>1
<1>10. ASSUME NEW t \in tasks,
              DeleteRoom(t) \/ AddToQueue(t) \/ ReleaseClaim(t) \/ Dequeue(t) \/ Done(t)
       PROVE  TasksTyped' /\ TasksFit'
  BY <1>9, <1>10 DEF DeleteRoom, AddToQueue, ReleaseClaim, Dequeue, Done
<1>11. ASSUME NEW t \in tasks, PartnerLeft(t)
       PROVE  TasksTyped' /\ TasksFit'
  <2>1. Goes(t) \/ Becomes(t, <<>>)
    BY <1>11 DEF PartnerLeft
  <2> QED BY <1>8, <1>9, <2>1
<1>12. ASSUME NEW t \in tasks, CheckQueue(t)
       PROVE  TasksTyped' /\ TasksFit'
  <2>1. CASE bot[Head(t).bot].queue > 0
    BY <1>9, <1>12, <2>1 DEF CheckQueue, Goes
  <2>2. CASE ~(bot[Head(t).bot].queue > 0)
    <3>1. Head(t).do = "check" /\ Head(t).bot \in Bot
      BY <1>0, <1>12 DEF CheckQueue, Runs, Fits, StepOK
    <3>2. PICK b \in Bot : b = Head(t).bot
      BY <3>1
    <3>3. PICK s \in Step : s = Do("add", b, None)
      BY DoStep
    <3>4. PICK r \in Seq(Step) : r = Tail(t)
      BY <1>0
    <3>5. PICK n : n = <<s>> \o r
      OBVIOUS
    <3>6. Becomes(t, n) /\ UNCHANGED <<user, room, bot>>
      BY <1>12, <2>2, <3>2, <3>3, <3>4, <3>5 DEF CheckQueue
    <3>7. r # <<>> => Fits(r)
      BY <1>0, <3>4, FitsTail
    <3>8. Good(n)
      BY <3>3, <3>5, <3>6, <3>7, PutBefore DEF Good, Do
    <3> QED BY <1>8, <3>6, <3>8
  <2> QED BY <2>1, <2>2
<1>13. ASSUME NEW t \in tasks, Enable(t)
       PROVE  TasksTyped' /\ TasksFit'
  <2>1. CASE Becomes(t, Tail(t))
    BY <1>9, <2>1 DEF Goes
  <2>2. CASE ~Becomes(t, Tail(t))
    <3>3. PICK s \in Step : s = Do("queueAll", None, None)
      BY DoStep
    <3>4. PICK r \in Seq(Step) : r = Tail(t)
      BY <1>0
    <3>5. PICK n : n = <<s>> \o r
      OBVIOUS
    <3>6. Becomes(t, n) /\ UNCHANGED <<user, room, bot>>
      BY <1>13, <2>2, <3>3, <3>4, <3>5 DEF Enable
    <3>7. r # <<>> => Fits(r)
      BY <1>0, <3>4, FitsTail
    <3>8. \A i \in DOMAIN r : r[i].do = "done"
      <4>1. t[1].do = "test" /\ 1 \in DOMAIN t
        BY <1>0, <1>13 DEF Enable, Runs
      <4> SUFFICES ASSUME NEW i \in DOMAIN r PROVE r[i].do = "done"
        OBVIOUS
      <4>2. i \in Nat /\ i # 0 /\ i + 1 \in DOMAIN t /\ r[i] = t[i + 1]
        <5>1. i \in 1..Len(r)
          OBVIOUS
        <5> QED BY <1>0, <3>4, <5>1, TailOf
      <4>3. 1 < i + 1
        BY <4>2
      <4> QED BY <1>0, <4>1, <4>2, <4>3 DEF Fits, Sound
    <3>9. Good(n)
      BY <3>3, <3>5, <3>6, <3>7, <3>8, PutBefore DEF Good, Do
    <3> QED BY <1>8, <3>6, <3>9
  <2> QED BY <2>1, <2>2
<1>14. ASSUME NEW t \in tasks, AddBotsToQueue(t)
       PROVE  TasksTyped' /\ TasksFit'
  <2>1. PICK n : n = QueueAll({b \in Pool : bot[b].chat = None}, mgr.pool) \o Tail(t)
                 /\ Becomes(t, n)
    BY <1>14 DEF AddBotsToQueue
  <2>2. t[1].do = "queueAll"
    BY <1>0, <1>14 DEF AddBotsToQueue, Runs
  <2>3. n # <<>> => Good(n)
    BY <1>0, <2>1, <2>2, QueueAllFits DEF Good
  <2> QED BY <1>8, <2>1, <2>3
<1>15. ASSUME NEW t \in tasks, Disable(t)
       PROVE  TasksTyped' /\ TasksFit'
  <2>1. CASE ~mgr.enabled
    BY <1>9, <1>15, <2>1 DEF Disable
  <2>2. CASE mgr.enabled
    <3>1. PICK r : r = Tail(t)
      OBVIOUS
    <3>2. t[1].do = "disable"
      BY <1>0, <1>15 DEF Disable, Runs
    <3>3. r # <<>>
      BY <1>0, <3>1, <3>2, MoreToDo DEF Fits
    <3>4. Good(r)
      BY <1>2, <3>1, <3>3
    <3>5. /\ tasks' = (tasks \ {t}) \cup {r} \cup Ending(InChat, {})
          /\ bot' = Freed(InChat) /\ UNCHANGED room
      BY <1>15, <2>2, <3>1 DEF Disable
    <3>6. ASSUME NEW n \in Ending(InChat, {})
          PROVE  Good(n)
      BY <1>0, <3>5, EndingFits DEF Good
    <3> QED BY <1>3, <3>4, <3>5, <3>6
  <2> QED BY <2>1, <2>2
<1>16. CASE EnableBots \/ DisableBots \/ UpdateConfig
  <2>1. PICK n : /\ tasks' = tasks \cup {n}
                 /\ \/ n = <<Do("test", None, None)>> \o <<Do("done", None, None)>>
                    \/ n = <<>> \o <<Do("done", None, None)>>
                    \/ n = ([b \in Pool |-> Do("dequeue", b, None)]
                               \o <<Do("disable", None, None)>>) \o <<Do("done", None, None)>>
    BY <1>16 DEF EnableBots, DisableBots, UpdateConfig, Request
  <2>2. Good(n)
    BY <1>0, <2>1, RequestFits DEF Good
  <2> QED BY <1>3, <2>1, <2>2
<1> QED BY <1>4, <1>5, <1>6, <1>7, <1>10, <1>11, <1>12, <1>13, <1>14, <1>15, <1>16, TaskMoves
        DEF TaskStep

LEMMA OnceKept ==
    ASSUME ReleasedOnce, NEW t \in tasks, NEW r, NEW d \in {0, 1},
           \A i \in DOMAIN r : /\ i \in Nat
                               /\ r[i].do = "release" => i + d \in DOMAIN t /\ r[i] = t[i + d],
           \A n \in tasks' : n \in tasks \ {t} \/ n = r \/ Claimless(n)
    PROVE  ReleasedOnce'
<1> SUFFICES ASSUME NEW n1 \in tasks', NEW n2 \in tasks',
                    NEW i \in DOMAIN n1, NEW j \in DOMAIN n2,
                    n1[i].do = "release", n2[j].do = "release", n1[i].user = n2[j].user
             PROVE  n1 = n2 /\ i = j
  BY DEF ReleasedOnce
<1>1. (n1 \in tasks \ {t} \/ n1 = r) /\ (n2 \in tasks \ {t} \/ n2 = r)
  BY DEF Claimless
<1>2. CASE n1 \in tasks \ {t} /\ n2 \in tasks \ {t}
  BY <1>2 DEF ReleasedOnce
<1>3. CASE n1 = r /\ n2 = r
  <2>1. i + d = j + d
    BY <1>3 DEF ReleasedOnce
  <2>2. i \in Nat /\ j \in Nat
    BY <1>3
  <2> QED BY <1>3, <2>1, <2>2
<1>4. CASE n1 \in tasks \ {t} /\ n2 = r
  BY <1>4 DEF ReleasedOnce
<1>5. CASE n1 = r /\ n2 \in tasks \ {t}
  BY <1>5 DEF ReleasedOnce
<1> QED BY <1>1, <1>2, <1>3, <1>4, <1>5

LEMMA OnceMore ==
    ASSUME ReleasedOnce, \A n \in tasks' : n \in tasks \/ Claimless(n)
    PROVE  ReleasedOnce'
BY DEF ReleasedOnce, Claimless

LEMMA ReleasedOnceNext ==
    ASSUME TypeOK, TasksFit, ReleasedOnce, RoomTaken, Next
    PROVE  ReleasedOnce'
<1>0. /\ MgrTyped /\ UserTyped /\ RoomTyped /\ BotAtWork /\ Pool \subseteq Bot
      /\ \A t \in tasks : /\ t \in Seq(Step) /\ t # <<>> /\ Fits(t)
                          /\ Head(t) = t[1] /\ 1 \in DOMAIN t
                          /\ DOMAIN t \subseteq Nat
                          /\ Tail(t) \in Seq(Step)
                          /\ \A i \in DOMAIN Tail(t) : /\ i \in Nat /\ i + 1 \in DOMAIN t
                                                       /\ Tail(t)[i] = t[i + 1]
  <2>1. \A t \in tasks : t \in Seq(Step) /\ t # <<>> /\ Fits(t)
    BY TypeParts DEF TasksTyped, TasksFit, Fits, Sound
  <2>2. \A t \in Seq(Step) : t # <<>> =>
            /\ Head(t) = t[1] /\ 1 \in DOMAIN t /\ DOMAIN t \subseteq Nat /\ Tail(t) \in Seq(Step)
            /\ \A i \in DOMAIN Tail(t) : i \in Nat /\ i + 1 \in DOMAIN t /\ Tail(t)[i] = t[i + 1]
    BY TailOf
  <2> QED BY <2>1, <2>2, TypeParts, PoolIn
<1>1. CASE UNCHANGED tasks
  BY <1>1, OnceMore
<1>2. ASSUME NEW u \in User, Check(u)
      PROVE  ReleasedOnce'
  <2>1. CASE user[u].st = "queue"
    BY <1>1, <1>2, <2>1 DEF Check
  <2>2. CASE user[u].st # "queue"
    <3>1. user[u].bot \in Bot /\ user[u].room \in Room \cup {None}
      <4>1. user[u].bot # None /\ user[u].bot \in Bot \cup {None}
        BY <1>0, <1>2 DEF Check, BotAtWork, UserTyped, ManType
      <4> QED BY <1>0, <4>1 DEF UserTyped, ManType
    <3>2. PICK b \in Bot : b = user[u].bot
      BY <3>1
    <3>3. PICK r \in Room \cup {None} : r = user[u].room
      BY <3>1
    <3> DEFINE c == Do("check", b, None)
               s == [Do("release", b, r) EXCEPT !.user = u]
    <3>4. c.do = "check" /\ s.user = u
      BY DEF Do
    <3> HIDE DEF c, s
    <3>5. PICK n : n = <<c, s>> /\ tasks' = tasks \cup {n}
      BY <1>2, <2>2, <3>2, <3>3, Tuples DEF Check, Requeue, c, s
    <3>6. DOMAIN n = {1, 2} /\ n[1] = c /\ n[2] = s
      BY <3>5
    <3>7. \A m \in tasks : \A i \in DOMAIN m : m[i].do = "release" => m[i].user # u
      BY <1>0, <1>2 DEF Fits, StepOK, Check
    <3>8. \A i \in DOMAIN n : n[i].do = "release" => i = 2 /\ n[i].user = u
      BY <3>4, <3>6
    <3>9. ASSUME NEW n1 \in tasks', NEW n2 \in tasks',
                 NEW i \in DOMAIN n1, NEW j \in DOMAIN n2,
                 n1[i].do = "release", n2[j].do = "release", n1[i].user = n2[j].user
          PROVE  n1 = n2 /\ i = j
      <4>1. (n1 \in tasks \/ n1 = n) /\ (n2 \in tasks \/ n2 = n)
        BY <3>5
      <4>2. CASE n1 \in tasks /\ n2 \in tasks
        BY <3>9, <4>2 DEF ReleasedOnce
      <4>3. CASE n1 = n /\ n2 = n
        BY <3>8, <3>9, <4>3
      <4>4. CASE n1 \in tasks /\ n2 = n
        BY <3>7, <3>8, <3>9, <4>4
      <4>5. CASE n1 = n /\ n2 \in tasks
        BY <3>7, <3>8, <3>9, <4>5
      <4> QED BY <4>1, <4>2, <4>3, <4>4, <4>5
    <3> QED BY <3>9 DEF ReleasedOnce
  <2> QED BY <2>1, <2>2
<1>3. ASSUME NEW u \in User, Leave(u)
      PROVE  ReleasedOnce'
  <2>1. PICK r \in Room : r = user[u].key /\ Live(r)
    <3>1. Live(user[u].key) /\ user[u].key \in Room \cup {None}
      BY <1>0, <1>3 DEF Leave, UserTyped, ManType
    <3> QED BY <3>1 DEF Live
  <2>2. PICK b \in Bot : b = room[r].bot
    BY <2>1 DEF RoomTaken
  <2> DEFINE d == Do("delete", None, r)
             l == Do("left", b, None)
             c == Do("check", b, None)
  <2>3. PICK n : n = <<d, l, c>> /\ tasks' = tasks \cup {n}
    BY <1>3, <2>1, <2>2, LeaveShape DEF Leave
  <2>4. d.do = "delete" /\ l.do = "left" /\ c.do = "check"
    BY DEF Do
  <2> HIDE DEF d, l, c
  <2>5. DOMAIN n = {1, 2, 3} /\ n[1] = d /\ n[2] = l /\ n[3] = c
    BY <2>3
  <2>6. Claimless(n)
    BY <2>4, <2>5 DEF Claimless
  <2> QED BY <2>3, <2>6, OnceMore
<1>4. ASSUME NEW S, NEW back, NEW n \in Ending(S, back)
      PROVE  Claimless(n)
  <2>1. PICK b \in S : \/ n = <<Do("delete", None, bot[b].chat)>>
                       \/ n = <<Do("check", b, None), Do("delete", None, bot[b].chat)>>
    BY <1>4, EndingShape
  <2> DEFINE d == Do("delete", None, bot[b].chat)
             c == Do("check", b, None)
  <2>2. d.do = "delete" /\ c.do = "check"
    BY DEF Do
  <2> HIDE DEF d, c
  <2>3. \A i \in DOMAIN n : n[i] \in {c, d}
    <3>1. n = <<d>> \/ n = <<c, d>>
      BY <2>1 DEF c, d
    <3> QED BY <3>1
  <2> QED BY <2>2, <2>3 DEF Claimless
<1>5. ASSUME NEW m \in replies, ModelFails(m)
      PROVE  ReleasedOnce'
  <2>1. PICK S, back : tasks' = tasks \cup Ending(S, back)
    BY <1>5 DEF ModelFails
  <2> QED BY <1>4, <2>1, OnceMore
<1>6. ASSUME NEW t \in tasks,
             \A n \in tasks' : n \in tasks \ {t} \/ n = Tail(t) \/ Claimless(n)
      PROVE  ReleasedOnce'
  <2>1. PICK r : r = Tail(t)
    OBVIOUS
  <2>2. \A i \in DOMAIN r : i \in Nat /\ i + 1 \in DOMAIN t /\ r[i] = t[i + 1]
    BY <1>0, <2>1
  <2> QED BY <1>6, <2>1, <2>2, OnceKept
<1>7. ASSUME NEW t \in tasks, Goes(t)
      PROVE  ReleasedOnce'
  <2>1. \A n \in tasks' : n \in tasks \ {t} \/ n = Tail(t)
    BY <1>7 DEF Goes, Becomes
  <2> QED BY <1>6, <2>1
<1>8. ASSUME NEW t \in tasks,
             DeleteRoom(t) \/ AddToQueue(t) \/ ReleaseClaim(t) \/ Dequeue(t) \/ Done(t)
      PROVE  ReleasedOnce'
  BY <1>7, <1>8 DEF DeleteRoom, AddToQueue, ReleaseClaim, Dequeue, Done
<1>9. ASSUME NEW t \in tasks, PartnerLeft(t)
      PROVE  ReleasedOnce'
  <2>1. Goes(t) \/ tasks' \subseteq tasks
    BY <1>9 DEF PartnerLeft, Becomes
  <2> QED BY <1>7, <2>1, OnceMore
<1>10. ASSUME NEW t \in tasks, NEW s \in Step, s.do # "release", NEW n, n = <<s>> \o Tail(t),
              Becomes(t, n)
       PROVE  ReleasedOnce'
  <2>1. PICK r \in Seq(Step) : r = Tail(t)
    BY <1>0
  <2>2. <<s>> \in Seq(Step) /\ Len(<<s>>) = 1 /\ DOMAIN <<s>> = {1} /\ <<s>>[1] = s
    OBVIOUS
  <2>3. n = <<s>> \o r
    BY <1>10, <2>1
  <2>4. /\ DOMAIN n = 1..Len(n)
        /\ \A i \in DOMAIN n : (i = 1 /\ n[i] = s) \/ (i - 1 \in DOMAIN r /\ n[i] = r[i - 1])
    BY <2>2, <2>3, JoinIs
  <2>5. \A i \in DOMAIN r : i \in Nat /\ i + 1 \in DOMAIN t /\ r[i] = t[i + 1]
    BY <1>0, <2>1
  <2>6. ASSUME NEW i \in DOMAIN n, n[i].do = "release"
        PROVE  i + 0 \in DOMAIN t /\ n[i] = t[i + 0]
    <3>1. i - 1 \in DOMAIN r /\ n[i] = r[i - 1]
      BY <1>10, <2>4, <2>6
    <3>2. i - 1 + 1 = i + 0
      BY <2>4
    <3> QED BY <2>5, <3>1, <3>2
  <2>7. \A i \in DOMAIN n : i \in Nat
    BY <2>4
  <2>8. \A m \in tasks' : m \in tasks \ {t} \/ m = n
    BY <1>10 DEF Becomes
  <2>9. \A i \in DOMAIN n :
              i \in Nat /\ (n[i].do = "release" => i + 0 \in DOMAIN t /\ n[i] = t[i + 0])
    BY <2>6, <2>7
  <2>10. \E d \in {0, 1} : \A i \in DOMAIN n :
             i \in Nat /\ (n[i].do = "release" => i + d \in DOMAIN t /\ n[i] = t[i + d])
    BY <2>9
  <2> QED BY <2>8, <2>10, OnceKept
<1>11. ASSUME NEW t \in tasks, CheckQueue(t) \/ Enable(t)
       PROVE  ReleasedOnce'
  <2>1. Goes(t) \/ \E s \in Step : s.do # "release" /\ Becomes(t, <<s>> \o Tail(t))
    <3>1. CASE CheckQueue(t)
      <4>1. Head(t).bot \in Bot
        BY <1>0, <3>1 DEF CheckQueue, Runs, Fits, StepOK
      <4>2. Do("add", Head(t).bot, None) \in Step /\ Do("add", Head(t).bot, None).do = "add"
        BY <4>1, DoStep DEF Do
      <4> QED BY <3>1, <4>2 DEF CheckQueue, Goes
    <3>2. CASE Enable(t)
      <4>1. Do("queueAll", None, None) \in Step /\ Do("queueAll", None, None).do = "queueAll"
        BY DoStep DEF Do
      <4> QED BY <3>2, <4>1 DEF Enable, Goes
    <3> QED BY <1>11, <3>1, <3>2
  <2> QED BY <1>7, <1>10, <2>1
<1>12. ASSUME NEW t \in tasks, AddBotsToQueue(t)
       PROVE  ReleasedOnce'
  <2>1. PICK n : n = QueueAll({b \in Pool : bot[b].chat = None}, mgr.pool) \o Tail(t)
                 /\ Becomes(t, n)
    BY <1>12 DEF AddBotsToQueue
  <2>2. t[1].do = "queueAll"
    BY <1>0, <1>12 DEF AddBotsToQueue, Runs
  <2>3. n # <<>> => Claimless(n)
    BY <1>0, <2>1, <2>2, QueueAllFits DEF Claimless
  <2>4. \A m \in tasks' : m \in tasks \/ Claimless(m)
    BY <2>1, <2>3 DEF Becomes
  <2> QED BY <2>4, OnceMore
<1>13. ASSUME NEW t \in tasks, Disable(t)
       PROVE  ReleasedOnce'
  <2>1. CASE ~mgr.enabled
    BY <1>7, <1>13, <2>1 DEF Disable
  <2>2. CASE mgr.enabled
    <3>1. tasks' = (tasks \ {t}) \cup {Tail(t)} \cup Ending(InChat, {})
      BY <1>13, <2>2 DEF Disable
    <3> QED BY <1>4, <1>6, <3>1
  <2> QED BY <2>1, <2>2
<1>14. CASE EnableBots \/ DisableBots \/ UpdateConfig
  <2>1. PICK n : /\ tasks' = tasks \cup {n}
                 /\ \/ n = <<Do("test", None, None)>> \o <<Do("done", None, None)>>
                    \/ n = <<>> \o <<Do("done", None, None)>>
                    \/ n = ([b \in Pool |-> Do("dequeue", b, None)]
                               \o <<Do("disable", None, None)>>) \o <<Do("done", None, None)>>
    BY <1>14 DEF EnableBots, DisableBots, UpdateConfig, Request
  <2>2. Claimless(n)
    BY <1>0, <2>1, RequestFits
  <2> QED BY <2>1, <2>2, OnceMore
<1> QED BY <1>1, <1>2, <1>3, <1>5, <1>8, <1>9, <1>11, <1>12, <1>13, <1>14, TaskMoves DEF TaskStep

-----------------------------------------------------------------------------
(* The keys of the men, their attempts and the rooms.                       *)

Keys == RoomTaken /\ KeyHeld /\ ClaimHeld /\ NoRoom /\ Unpaired
Unmet(u) == Seeking(u) \/ user[u].at = "fallback" \/ (user[u].at = "none" /\ user[u].st = "queue")
Claims(u) == Seeking(u) /\ user[u].room # None

\* Who is told something, or begins or ends to search, keeps his key and his claim.
LEMMA KeysCalm ==
    ASSUME Keys, UNCHANGED room,
           \A u \in User :
               /\ user'[u].key = user[u].key /\ user'[u].room = user[u].room
               /\ Claims(u)' <=> Claims(u)
               /\ user'[u].at \in {"none", "fallback"} => user[u].room = None
               /\ Unmet(u)' => Unmet(u) \/ ~Live(user[u].key)
    PROVE  Keys'
<1>1. \A r : Live(r)' = Live(r)
  BY DEF Live
<1>2. RoomTaken'
  BY <1>1 DEF Keys, RoomTaken
<1>3. \A u \in User : \A r : r # None => (Owner(u, r)' <=> Owner(u, r))
  BY DEF Owner, Claims
<1>4. KeyHeld'
  <2> SUFFICES ASSUME NEW u \in User, user'[u].key # None
               PROVE  \/ room'[user'[u].key].st = "live" /\ room'[user'[u].key].user = u
                      \/ /\ room'[user'[u].key].st = "claimed" /\ Seeking(u)'
                         /\ user'[u].room = user'[u].key
    BY DEF KeyHeld, Owner, Seeking
  <2>1. \/ room[user[u].key].st = "live" /\ room[user[u].key].user = u
        \/ room[user[u].key].st = "claimed" /\ Owner(u, user[u].key)
    BY DEF Keys, KeyHeld
  <2>2. Owner(u, user[u].key) => Claims(u)
    BY DEF Owner, Claims
  <2> QED BY <2>1, <2>2 DEF Owner, Claims
<1>5. ClaimHeld'
  <2> SUFFICES ASSUME NEW u \in User, Claims(u)'
               PROVE  /\ room'[user'[u].room].st = "claimed"
                      /\ \A v \in User : Owner(v, user[u].room)' => v = u
    BY DEF ClaimHeld, Claims, Owner, Seeking
  <2>1. Claims(u) /\ user[u].room # None
    BY DEF Claims
  <2>2. room[user[u].room].st = "claimed" /\ \A v \in User : Owner(v, user[u].room) => v = u
    BY <2>1 DEF Keys, ClaimHeld, Claims
  <2> QED BY <1>3, <2>1, <2>2
<1>6. NoRoom'
  BY DEF NoRoom
<1>7. Unpaired'
  <2>1. \A u \in User : Unmet(u) => ~Live(user[u].key)
    BY DEF Keys, Unpaired, Unmet
  <2> SUFFICES ASSUME NEW u \in User, Unmet(u)'
               PROVE  ~(user'[u].key # None /\ room'[user'[u].key].st = "live")
    BY DEF Unpaired, Unmet, Seeking, Live
  <2> QED BY <2>1 DEF Live
<1> QED BY <1>2, <1>4, <1>5, <1>6, <1>7 DEF Keys

\* A claim is of a room that nobody has.
LEMMA ClaimKeys ==
    ASSUME Keys, RoomTyped, UserTyped, NEW u \in User, NEW r \in Room, NEW b \in Bot,
           room[r].st = "new", user[u].key = None, user[u].at = "none",
           user' = [user EXCEPT ![u].at = "check", ![u].bot = b, ![u].room = r, ![u].key = r],
           room' = [room EXCEPT ![r].st = "claimed"]
    PROVE  Keys'
<1> USE DEF RoomTyped, UserTyped
<1>0. r # None
  BY Numbers
<1>1. /\ user'[u].at = "check" /\ user'[u].room = r /\ user'[u].key = r
      /\ \A v \in User \ {u} : user'[v] = user[v]
  OBVIOUS
<1>2. room'[r].st = "claimed" /\ \A s \in Room \ {r} : room'[s] = room[s]
  BY DEF RoomType
<1>3. \A v \in User : user[v].key # r /\ ~Owner(v, r)
  BY <1>0 DEF Keys, KeyHeld, ClaimHeld, Owner
<1>4. \A v \in User \ {u} : (Seeking(v)' <=> Seeking(v)) /\ \A s : Owner(v, s)' <=> Owner(v, s)
  BY <1>1 DEF Seeking, Owner
<1>5. Seeking(u)' /\ (\A s : Owner(u, s)' <=> s = r) /\ ~Seeking(u)
  BY <1>1 DEF Seeking, Owner
<1>6. \A s \in Room : Live(s)' <=> Live(s) /\ s # r
  BY <1>2 DEF Live
<1>7. RoomTaken'
  <2> SUFFICES ASSUME NEW s \in Room, Live(s)'
               PROVE  /\ room'[s].user \in User /\ room'[s].bot \in Bot
                      /\ user'[room'[s].user].key = s
    BY DEF RoomTaken
  <2>1. s # r /\ Live(s) /\ room'[s] = room[s]
    BY <1>2, <1>6
  <2>2. room[s].user \in User /\ room[s].bot \in Bot /\ user[room[s].user].key = s
    BY <2>1 DEF Keys, RoomTaken
  <2>3. room[s].user # u
    BY <2>1, <2>2 DEF Live
  <2> QED BY <1>1, <2>1, <2>2, <2>3
<1>8. KeyHeld'
  <2> SUFFICES ASSUME NEW v \in User, user'[v].key # None
               PROVE  \/ room'[user'[v].key].st = "live" /\ room'[user'[v].key].user = v
                      \/ /\ room'[user'[v].key].st = "claimed" /\ Seeking(v)'
                         /\ user'[v].room = user'[v].key
    BY DEF KeyHeld, Owner, Seeking
  <2>1. CASE v = u
    BY <1>1, <1>2, <1>5, <2>1
  <2>2. CASE v # u
    <3>1. user'[v] = user[v] /\ user[v].key \in Room /\ user[v].key # r
      BY <1>1, <1>3, <2>2 DEF ManType
    <3>2. PICK k \in Room : k = user[v].key /\ k # r
      BY <3>1
    <3>3. \/ room[k].st = "live" /\ room[k].user = v
          \/ room[k].st = "claimed" /\ Owner(v, k)
      BY <3>1, <3>2 DEF Keys, KeyHeld
    <3> QED BY <1>2, <3>1, <3>2, <3>3 DEF Owner, Seeking
  <2> QED BY <2>1, <2>2
<1>9. ClaimHeld'
  <2> SUFFICES ASSUME NEW v \in User, Claims(v)'
               PROVE  /\ room'[user'[v].room].st = "claimed"
                      /\ \A w \in User : Seeking(w)' /\ user'[w].room = user'[v].room => w = v
    BY DEF ClaimHeld, Claims, Owner, Seeking
  <2>1. \A w \in User \ {u} : Seeking(w)' => user'[w].room # r
    BY <1>1, <1>3 DEF Owner, Seeking
  <2>2. CASE v = u
    BY <1>1, <1>2, <2>1, <2>2
  <2>3. CASE v # u
    <3>1. Seeking(v) /\ user[v].room # None /\ user[v].room \in Room /\ user'[v].room = user[v].room
          /\ user[v].room # r
      BY <1>1, <2>1, <2>3 DEF Claims, Seeking, ManType
    <3>2. room[user[v].room].st = "claimed" /\ \A w \in User : Owner(w, user[v].room) => w = v
      BY <3>1 DEF Keys, ClaimHeld
    <3>3. room'[user[v].room].st = "claimed"
      BY <1>2, <3>1, <3>2
    <3>4. \A w \in User : Seeking(w)' /\ user'[w].room = user'[v].room => w = v
      BY <1>1, <3>1, <3>2 DEF Owner, Seeking
    <3> QED BY <3>1, <3>3, <3>4
  <2> QED BY <2>2, <2>3
<1>10. NoRoom'
  BY <1>1 DEF Keys, NoRoom
<1>11. Unpaired'
  <2> SUFFICES ASSUME NEW v \in User, Unmet(v)'
               PROVE  ~(user'[v].key # None /\ room'[user'[v].key].st = "live")
    BY DEF Unpaired, Unmet, Seeking, Live
  <2>1. CASE v = u
    BY <1>1, <1>2, <2>1
  <2>2. CASE v # u
    <3>1. Unmet(v) /\ user'[v] = user[v] /\ user[v].key \in Room \cup {None}
      BY <1>1, <2>2 DEF Unmet, Seeking, ManType
    <3>2. ~Live(user[v].key)
      BY <3>1 DEF Keys, Unpaired, Unmet
    <3> QED BY <1>2, <3>1, <3>2 DEF Live
  <2> QED BY <2>1, <2>2
<1> QED BY <1>7, <1>8, <1>9, <1>10, <1>11 DEF Keys

\* The room of a pair is claimed by the man, or nobody's.
LEMMA CreateKeys ==
    ASSUME Keys, RoomTyped, UserTyped, NEW u \in User, NEW r \in Room, NEW b \in Bot,
           user[u].at = "create", user[u].room = r \/ (user[u].room = None /\ room[r].st = "new"),
           room' = [room EXCEPT ![r] = [st |-> "live", user |-> u, bot |-> b]],
           user' = [user EXCEPT ![u].at = "notify", ![u].room = r, ![u].key = r]
    PROVE  Keys'
<1> USE DEF RoomTyped, UserTyped
<1>0. r # None
  BY Numbers
<1>1. /\ user'[u].at = "notify" /\ user'[u].room = r /\ user'[u].key = r
      /\ \A v \in User \ {u} : user'[v] = user[v]
  OBVIOUS
<1>2. room'[r] = [st |-> "live", user |-> u, bot |-> b] /\ \A s \in Room \ {r} : room'[s] = room[s]
  OBVIOUS
<1>3. Seeking(u) /\ ~Live(user[u].key)
  BY DEF Keys, Unpaired, Seeking
<1>4. room[r].st \in {"new", "claimed"} /\ \A v \in User : Owner(v, r) => v = u
  <2>1. CASE user[u].room = r
    BY <1>0, <1>3, <2>1 DEF Keys, ClaimHeld
  <2>2. CASE room[r].st = "new"
    BY <1>0, <2>2 DEF Keys, ClaimHeld, Owner
  <2> QED BY <2>1, <2>2
<1>5. \A v \in User \ {u} : user[v].key # r
  BY <1>0, <1>4 DEF Keys, KeyHeld
<1>7. RoomTaken'
  <2> SUFFICES ASSUME NEW s \in Room, room'[s].st = "live"
               PROVE  /\ room'[s].user \in User /\ room'[s].bot \in Bot
                      /\ user'[room'[s].user].key = s
    BY DEF RoomTaken, Live
  <2>1. CASE s = r
    BY <1>1, <1>2, <2>1
  <2>2. CASE s # r
    <3>1. Live(s) /\ room'[s] = room[s]
      BY <1>2, <2>2, Numbers DEF Live
    <3>2. room[s].user \in User /\ room[s].bot \in Bot /\ user[room[s].user].key = s
      BY <3>1 DEF Keys, RoomTaken
    <3>3. room[s].user # u
      BY <1>3, <3>1, <3>2
    <3> QED BY <1>1, <3>1, <3>2, <3>3
  <2> QED BY <2>1, <2>2
<1>8. KeyHeld'
  <2> SUFFICES ASSUME NEW v \in User, user'[v].key # None
               PROVE  \/ room'[user'[v].key].st = "live" /\ room'[user'[v].key].user = v
                      \/ /\ room'[user'[v].key].st = "claimed" /\ Seeking(v)'
                         /\ user'[v].room = user'[v].key
    BY DEF KeyHeld, Owner, Seeking
  <2>1. CASE v = u
    BY <1>1, <1>2, <2>1
  <2>2. CASE v # u
    <3>1. user'[v] = user[v] /\ user[v].key \in Room /\ user[v].key # r
      BY <1>1, <1>5, <2>2 DEF ManType
    <3>2. PICK k \in Room : k = user[v].key /\ k # r
      BY <3>1
    <3>3. \/ room[k].st = "live" /\ room[k].user = v
          \/ room[k].st = "claimed" /\ Owner(v, k)
      BY <3>1, <3>2 DEF Keys, KeyHeld
    <3> QED BY <1>2, <3>1, <3>2, <3>3 DEF Owner, Seeking
  <2> QED BY <2>1, <2>2
<1>9. ClaimHeld'
  <2> SUFFICES ASSUME NEW v \in User, Claims(v)'
               PROVE  /\ room'[user'[v].room].st = "claimed"
                      /\ \A w \in User : Seeking(w)' /\ user'[w].room = user'[v].room => w = v
    BY DEF ClaimHeld, Claims, Owner, Seeking
  <2>1. v # u
    BY <1>1 DEF Claims, Seeking
  <2>2. Seeking(v) /\ user[v].room # None /\ user[v].room \in Room /\ user'[v].room = user[v].room
    BY <1>1, <2>1 DEF Claims, Seeking, ManType
  <2>3. user[v].room # r
    BY <1>4, <2>1, <2>2 DEF Owner
  <2>4. room[user[v].room].st = "claimed" /\ \A w \in User : Owner(w, user[v].room) => w = v
    BY <2>2 DEF Keys, ClaimHeld
  <2>5. room'[user[v].room].st = "claimed"
    BY <1>2, <2>2, <2>3, <2>4
  <2>6. \A w \in User : Seeking(w)' /\ user'[w].room = user'[v].room => w = v
    BY <1>1, <2>2, <2>3, <2>4 DEF Owner, Seeking
  <2> QED BY <2>2, <2>5, <2>6
<1>10. NoRoom'
  BY <1>1 DEF Keys, NoRoom
<1>11. Unpaired'
  <2> SUFFICES ASSUME NEW v \in User, Unmet(v)'
               PROVE  ~(user'[v].key # None /\ room'[user'[v].key].st = "live")
    BY DEF Unpaired, Unmet, Seeking, Live
  <2>1. v # u
    BY <1>1 DEF Unmet, Seeking
  <2>2. Unmet(v) /\ user'[v] = user[v] /\ user[v].key \in Room \cup {None}
    BY <1>1, <2>1 DEF Unmet, Seeking, ManType
  <2>3. ~Live(user[v].key) /\ user[v].key # r
    BY <1>5, <2>1, <2>2 DEF Keys, Unpaired, Unmet
  <2> QED BY <1>2, <2>2, <2>3 DEF Live
<1> QED BY <1>7, <1>8, <1>9, <1>10, <1>11 DEF Keys

LEMMA DeleteKeys ==
    ASSUME Keys, RoomTyped, UserTyped, NEW r \in Room, NEW u \in User, room[r].user = u, Live(r),
           room' = [room EXCEPT ![r].st = "dead"], user' = [user EXCEPT ![u].key = None]
    PROVE  Keys'
<1> USE DEF RoomTyped, UserTyped
<1>1. /\ user'[u] = [user[u] EXCEPT !.key = None] /\ user[u].key = r
      /\ \A v \in User \ {u} : user'[v] = user[v]
  BY DEF Keys, RoomTaken
<1>2. room'[r].st = "dead" /\ \A s \in Room \ {r} : room'[s] = room[s]
  BY DEF RoomType
<1>3. \A v \in User : /\ user'[v].at = user[v].at /\ user'[v].st = user[v].st
                      /\ user'[v].room = user[v].room
  BY <1>1 DEF ManType
<1>4. user'[u].key = None /\ r # None /\ room[r].st = "live"
  BY <1>1 DEF Live, ManType
<1>5. \A v \in User \ {u} : user[v].key # r
  BY <1>4 DEF Keys, KeyHeld
<1>6. \A v \in User : (Seeking(v)' <=> Seeking(v)) /\ (Unmet(v)' <=> Unmet(v))
  BY <1>3 DEF Seeking, Unmet
<1>7. RoomTaken'
  <2> SUFFICES ASSUME NEW s \in Room, room'[s].st = "live"
               PROVE  /\ room'[s].user \in User /\ room'[s].bot \in Bot
                      /\ user'[room'[s].user].key = s
    BY DEF RoomTaken, Live
  <2>1. s # r /\ Live(s) /\ room'[s] = room[s]
    BY <1>2, Numbers DEF Live
  <2>2. room[s].user \in User /\ room[s].bot \in Bot /\ user[room[s].user].key = s
    BY <2>1 DEF Keys, RoomTaken
  <2> QED BY <1>1, <2>1, <2>2
<1>8. KeyHeld'
  <2> SUFFICES ASSUME NEW v \in User, user'[v].key # None
               PROVE  \/ room'[user'[v].key].st = "live" /\ room'[user'[v].key].user = v
                      \/ /\ room'[user'[v].key].st = "claimed" /\ Seeking(v)'
                         /\ user'[v].room = user'[v].key
    BY DEF KeyHeld, Owner, Seeking
  <2>1. v # u /\ user'[v] = user[v] /\ user[v].key \in Room /\ user[v].key # r
    BY <1>1, <1>4, <1>5 DEF ManType
  <2>2. PICK k \in Room : k = user[v].key /\ k # r
    BY <2>1
  <2>3. \/ room[k].st = "live" /\ room[k].user = v
        \/ room[k].st = "claimed" /\ Owner(v, k)
    BY <2>1, <2>2 DEF Keys, KeyHeld
  <2> QED BY <1>2, <1>6, <2>1, <2>2, <2>3 DEF Owner
<1>9. ClaimHeld'
  <2> SUFFICES ASSUME NEW v \in User, Seeking(v)', user'[v].room # None
               PROVE  /\ room'[user'[v].room].st = "claimed"
                      /\ \A w \in User : Seeking(w)' /\ user'[w].room = user'[v].room => w = v
    BY DEF ClaimHeld, Owner, Seeking
  <2>1. Seeking(v) /\ user[v].room \in Room /\ user'[v].room = user[v].room
    BY <1>3, <1>6 DEF ManType
  <2>2. room[user[v].room].st = "claimed" /\ \A w \in User : Owner(w, user[v].room) => w = v
    BY <2>1 DEF Keys, ClaimHeld
  <2>3. user[v].room # r
    BY <1>4, <2>2
  <2> QED BY <1>2, <1>3, <1>6, <2>1, <2>2, <2>3 DEF Owner
<1>10. NoRoom'
  BY <1>3 DEF Keys, NoRoom
<1>11. Unpaired'
  <2> SUFFICES ASSUME NEW v \in User, Unmet(v)'
               PROVE  ~(user'[v].key # None /\ room'[user'[v].key].st = "live")
    BY DEF Unpaired, Unmet, Seeking, Live
  <2>1. ~Live(user[v].key) /\ user[v].key \in Room \cup {None}
    BY <1>6 DEF Keys, Unpaired, Unmet, ManType
  <2> QED BY <1>1, <1>2, <1>4, <2>1 DEF Live
<1> QED BY <1>7, <1>8, <1>9, <1>10, <1>11 DEF Keys

\* An attempt that is given up, and one that has ended.
LEMMA EndKeys ==
    ASSUME Keys, RoomTyped, UserTyped, NEW u \in User, UNCHANGED room,
           \A v \in User \ {u} : user'[v] = user[v],
           user'[u].at = "none", user'[u].room = None,
           \/ user[u].at = "notify" /\ user'[u].st = "active" /\ user'[u].key = user[u].key
           \/ /\ user[u].at = "abort"
              /\ user'[u].key = IF user[u].key = user[u].room THEN None ELSE user[u].key
    PROVE  Keys'
<1> USE DEF RoomTyped, UserTyped
<1>1. user[u].at = "abort" => user'[u].key = None
  <2> SUFFICES ASSUME user[u].at = "abort", user'[u].key # None
               PROVE  FALSE
    OBVIOUS
  <2>1. ~Live(user[u].key) /\ user[u].key # None /\ user[u].key # user[u].room
    BY DEF Keys, Unpaired, Seeking
  <2> QED BY <2>1 DEF Keys, KeyHeld, Owner, Live
<1>2. \A r : Live(r)' = Live(r)
  BY DEF Live
<1>3. ~Seeking(u)' /\ \A v \in User \ {u} : (Seeking(v)' <=> Seeking(v)) /\ (Unmet(v)' <=> Unmet(v))
  BY DEF Seeking, Unmet
<1>4. user[u].at = "notify" => ~Seeking(u) /\ ~Unmet(u)'
  BY DEF Seeking, Unmet
<1>5. RoomTaken'
  <2> SUFFICES ASSUME NEW s \in Room, Live(s)
               PROVE  /\ room[s].user \in User /\ room[s].bot \in Bot
                      /\ user'[room[s].user].key = s
    BY <1>2 DEF RoomTaken
  <2>1. room[s].user \in User /\ room[s].bot \in Bot /\ user[room[s].user].key = s
    BY DEF Keys, RoomTaken
  <2>2. CASE room[s].user = u
    <3>1. user[u].at # "abort"
      BY <2>1, <2>2 DEF Keys, Unpaired, Seeking
    <3> QED BY <2>1, <2>2, <3>1
  <2> QED BY <2>1, <2>2
<1>6. KeyHeld'
  <2> SUFFICES ASSUME NEW v \in User, user'[v].key # None
               PROVE  \/ room[user'[v].key].st = "live" /\ room[user'[v].key].user = v
                      \/ /\ room[user'[v].key].st = "claimed" /\ Seeking(v)'
                         /\ user'[v].room = user'[v].key
    BY DEF KeyHeld, Owner, Seeking
  <2>1. user'[v].key = user[v].key /\ (v = u => user[u].at = "notify")
    BY <1>1
  <2>2. \/ room[user[v].key].st = "live" /\ room[user[v].key].user = v
        \/ room[user[v].key].st = "claimed" /\ Owner(v, user[v].key)
    BY <2>1 DEF Keys, KeyHeld
  <2>3. v = u => ~Owner(v, user[v].key)
    BY <1>4, <2>1 DEF Owner
  <2> QED BY <1>3, <2>1, <2>2, <2>3 DEF Owner
<1>7. ClaimHeld'
  <2> SUFFICES ASSUME NEW v \in User, Seeking(v)', user'[v].room # None
               PROVE  /\ room[user'[v].room].st = "claimed"
                      /\ \A w \in User : Seeking(w)' /\ user'[w].room = user'[v].room => w = v
    BY DEF ClaimHeld, Owner, Seeking
  <2>1. v # u /\ Seeking(v) /\ user'[v].room = user[v].room
    BY <1>3
  <2> QED BY <1>3, <2>1 DEF Keys, ClaimHeld, Owner
<1>8. NoRoom'
  BY DEF Keys, NoRoom
<1>9. Unpaired'
  <2> SUFFICES ASSUME NEW v \in User, Unmet(v)'
               PROVE  ~(user'[v].key # None /\ room[user'[v].key].st = "live")
    BY DEF Unpaired, Unmet, Seeking, Live
  <2>1. CASE v = u
    BY <1>1, <1>4, <2>1
  <2>2. CASE v # u
    BY <1>3, <2>2 DEF Keys, Unpaired, Unmet, Live
  <2> QED BY <2>1, <2>2
<1> QED BY <1>5, <1>6, <1>7, <1>8, <1>9 DEF Keys

LEMMA KeysNext ==
    ASSUME TypeOK, TasksFit, Keys, Next
    PROVE  Keys'
<1>0. /\ UserTyped /\ RoomTyped /\ BotAtWork
      /\ \A u \in User : user[u].bot \in Bot \cup {None} /\ user[u].room \in Room \cup {None}
      /\ \A u \in User : user[u].at \in {"none", "fallback"} => user[u].room = None
      /\ \A t \in tasks : t # <<>> /\ StepOK(Head(t))
  <2>1. \A t \in tasks : t \in Seq(Step) /\ t # <<>> /\ Fits(t)
    BY TypeParts DEF TasksTyped, TasksFit, Fits, Sound
  <2>2. \A t \in tasks : Head(t) = t[1] /\ 1 \in DOMAIN t
    BY <2>1, TailOf
  <2> QED BY <2>1, <2>2, TypeParts DEF Fits, UserTyped, ManType, Keys, NoRoom
<1> USE DEF UserTyped, ManType
<1>n. New # {} => First(New) \in Room /\ room[First(New)].st = "new"
  <2>1. New \subseteq Nat
    BY Numbers DEF New
  <2>2. New # {} => First(New) \in New
    BY <2>1, FirstIsIn
  <2>3. \A r \in New : r \in Room /\ room[r].st = "new"
    BY DEF New
  <2> HIDE DEF New
  <2> QED BY <2>2, <2>3
<1>1. CASE UNCHANGED <<user, room>>
  <2>1. \A u \in User : (Claims(u)' <=> Claims(u)) /\ (Unmet(u)' <=> Unmet(u))
    BY <1>1 DEF Claims, Unmet, Seeking
  <2> QED BY <1>0, <1>1, <2>1, KeysCalm
<1>2. ASSUME NEW u \in User, UNCHANGED room,
             \A v \in User \ {u} : user'[v] = user[v],
             user'[u].key = user[u].key, user'[u].room = user[u].room,
             Claims(u)' <=> Claims(u),
             user'[u].at \in {"none", "fallback"} => user[u].room = None,
             Unmet(u)' => Unmet(u) \/ ~Live(user[u].key)
      PROVE  Keys'
  <2>1. \A v \in User \ {u} : (Claims(v)' <=> Claims(v)) /\ (Unmet(v)' <=> Unmet(v))
    BY <1>2 DEF Claims, Unmet, Seeking
  <2> QED BY <1>0, <1>2, <2>1, KeysCalm
<1>3. ASSUME NEW u \in User, Join(u), ~Live(user[u].key)
      PROVE  Keys'
  <2>1. user' = [user EXCEPT ![u].st = "queue"] /\ UNCHANGED room /\ ~Live(user[u].key)
    BY <1>3 DEF Join
  <2>2. user'[u].at = user[u].at /\ user'[u].room = user[u].room /\ user'[u].key = user[u].key
    BY <1>0, <2>1
  <2>3. Claims(u)' <=> Claims(u)
    BY <2>2 DEF Claims, Seeking
  <2> QED BY <1>0, <1>2, <2>1, <2>2, <2>3
<1>4. ASSUME NEW u \in User, Cancel(u) \/ Leave(u) \/ (Join(u) /\ Live(user[u].key))
      PROVE  Keys'
  <2>1. /\ user' = [user EXCEPT ![u].st = "idle"]
           \/ user' = [user EXCEPT ![u].st = "idle", ![u].shown = FALSE]
        /\ UNCHANGED room
    BY <1>4 DEF Join, Cancel, Leave
  <2>2. user'[u].at = user[u].at /\ user'[u].room = user[u].room /\ user'[u].key = user[u].key
        /\ user'[u].st = "idle"
    BY <1>0, <2>1
  <2>3. (Claims(u)' <=> Claims(u)) /\ (Unmet(u)' => Unmet(u))
    BY <2>2 DEF Claims, Seeking, Unmet
  <2> QED BY <1>0, <1>2, <2>1, <2>2, <2>3
<1>5. ASSUME NEW u \in User, FindMatch(u)
      PROVE  Keys'
  <2>1. user[u].st = "queue" /\ user[u].at = "none" /\ user[u].room = None
    BY <1>0, <1>5 DEF FindMatch
  <2>2. CASE user' = [user EXCEPT ![u].at = "fallback"] /\ UNCHANGED room
    <3>1. user'[u].at = "fallback" /\ user'[u].room = None /\ user'[u].key = user[u].key
      BY <1>0, <2>1, <2>2
    <3>2. ~Claims(u)' /\ ~Claims(u) /\ Unmet(u)
      BY <2>1, <3>1 DEF Claims, Seeking, Unmet
    <3> QED BY <1>0, <1>2, <2>1, <2>2, <3>1, <3>2
  <2>3. CASE ~(user' = [user EXCEPT ![u].at = "fallback"] /\ UNCHANGED room)
    <3> DEFINE k == First(New)
    <3>1. PICK b \in Bot :
              /\ user[u].key = None /\ New # {}
              /\ user' = [user EXCEPT ![u].at = "check", ![u].bot = b, ![u].room = k, ![u].key = k]
              /\ room' = [room EXCEPT ![k].st = "claimed"]
      BY <1>5, <2>3 DEF FindMatch
    <3>2. k \in Room /\ room[k].st = "new"
      BY <1>n, <3>1
    <3> HIDE DEF k
    <3>3. PICK r \in Room : r = k
      BY <3>2
    <3>4. /\ user' = [user EXCEPT ![u].at = "check", ![u].bot = b, ![u].room = r, ![u].key = r]
          /\ room' = [room EXCEPT ![r].st = "claimed"] /\ room[r].st = "new"
      BY <3>1, <3>2, <3>3
    <3>5. UserTyped /\ RoomTyped /\ user[u].key = None /\ user[u].at = "none"
      BY <1>0, <2>1, <3>1
    <3> HIDE DEF UserTyped
    <3> QED BY <3>4, <3>5, ClaimKeys
  <2> QED BY <2>2, <2>3
<1>6. ASSUME NEW u \in User, Fallback(u)
      PROVE  Keys'
  <2>1. user[u].at = "fallback" /\ user[u].room = None /\ UNCHANGED room
    BY <1>0, <1>6 DEF Fallback
  <2>2. (\E b : user' = [user EXCEPT ![u].at = "check", ![u].bot = b])
        \/ user' = [user EXCEPT ![u].at = "none"]
    BY <1>6 DEF Fallback
  <2>3. user'[u].room = None /\ user'[u].key = user[u].key
        /\ \A v \in User \ {u} : user'[v] = user[v]
    BY <1>0, <2>1, <2>2
  <2>4. ~Claims(u)' /\ ~Claims(u) /\ Unmet(u)
    BY <2>1, <2>3 DEF Claims, Seeking, Unmet
  <2> QED BY <1>0, <1>2, <2>1, <2>3, <2>4
<1>7. ASSUME NEW u \in User, Check(u)
      PROVE  Keys'
  <2>1. user[u].at = "check" /\ UNCHANGED room
    BY <1>7 DEF Check
  <2>2. user' = [user EXCEPT ![u].at = "create"] \/ user' = [user EXCEPT ![u].at = "abort"]
    BY <1>7 DEF Check
  <2>3. /\ user'[u].room = user[u].room /\ user'[u].key = user[u].key
        /\ user'[u].at \in {"create", "abort"} /\ \A v \in User \ {u} : user'[v] = user[v]
    BY <1>0, <2>2
  <2>4. (Claims(u)' <=> Claims(u)) /\ Unmet(u)
    BY <2>1, <2>3 DEF Claims, Seeking, Unmet
  <2> QED BY <1>0, <1>2, <2>1, <2>3, <2>4
<1>8. ASSUME NEW u \in User, CreateRoom(u)
      PROVE  Keys'
  <2> DEFINE k == IF user[u].room # None THEN user[u].room ELSE First(New)
  <2>1. /\ user[u].at = "create" /\ (user[u].room = None => New # {})
        /\ room' = [room EXCEPT ![k] = [st |-> "live", user |-> u, bot |-> user[u].bot]]
        /\ user' = [user EXCEPT ![u].at = "notify", ![u].room = k, ![u].key = k]
    BY <1>8 DEF CreateRoom
  <2>2. k \in Room /\ (user[u].room = k \/ (user[u].room = None /\ room[k].st = "new"))
    BY <1>0, <1>n, <2>1
  <2>3. user[u].bot \in Bot
    BY <1>0, <2>1 DEF BotAtWork
  <2> HIDE DEF k
  <2>4. PICK r \in Room, b \in Bot : r = k /\ b = user[u].bot
    BY <2>2, <2>3
  <2>5. /\ room' = [room EXCEPT ![r] = [st |-> "live", user |-> u, bot |-> b]]
        /\ user' = [user EXCEPT ![u].at = "notify", ![u].room = r, ![u].key = r]
        /\ (user[u].room = r \/ (user[u].room = None /\ room[r].st = "new"))
    BY <2>1, <2>2, <2>4
  <2>6. UserTyped /\ RoomTyped /\ user[u].at = "create"
    BY <1>0, <2>1
  <2> HIDE DEF UserTyped
  <2> QED BY <2>5, <2>6, CreateKeys
<1>9. ASSUME NEW u \in User, Notify(u)
      PROVE  Keys'
  <2>1. /\ user[u].at = "notify" /\ UNCHANGED room
        /\ user' = [user EXCEPT ![u].at = "none", ![u].st = "active", ![u].shown = TRUE,
                                ![u].bot = None, ![u].room = None]
    BY <1>9 DEF Notify
  <2>2. /\ user'[u].at = "none" /\ user'[u].st = "active" /\ user'[u].room = None
        /\ user'[u].key = user[u].key /\ \A v \in User \ {u} : user'[v] = user[v]
    BY <1>0, <2>1
  <2> QED BY <1>0, <2>1, <2>2, EndKeys
<1>10. ASSUME NEW S, user' = Told(S), UNCHANGED room
       PROVE  Keys'
  <2>1. \A u \in User : /\ user'[u].at = user[u].at /\ user'[u].room = user[u].room
                        /\ user'[u].key = user[u].key
                        /\ user'[u].st = "queue" => user[u].st = "queue"
    BY <1>10 DEF Told
  <2>2. \A u \in User : (Claims(u)' <=> Claims(u)) /\ (Unmet(u)' => Unmet(u))
    BY <2>1 DEF Claims, Unmet, Seeking
  <2> QED BY <1>0, <1>10, <2>1, <2>2, KeysCalm
<1>11. ASSUME NEW m \in replies, ModelFails(m)
       PROVE  Keys'
  <2>1. PICK S : user' = Told(S) /\ UNCHANGED room
    BY <1>11 DEF ModelFails
  <2> QED BY <1>10, <2>1
<1>12. ASSUME NEW t \in tasks, Disable(t)
       PROVE  Keys'
  <2>1. UNCHANGED <<user, room>> \/ (user' = Told(InChat) /\ UNCHANGED room)
    BY <1>12 DEF Disable
  <2> QED BY <1>1, <1>10, <2>1
<1>13. ASSUME NEW t \in tasks, DeleteRoom(t)
       PROVE  Keys'
  <2>1. Head(t).do = "delete" /\ Deleted(Head(t).room) /\ Head(t).room \in Room
    BY <1>0, <1>13 DEF DeleteRoom, Runs, StepOK
  <2>2. PICK r \in Room : r = Head(t).room
    BY <2>1
  <2>3. CASE ~Live(r)
    BY <1>1, <2>1, <2>2, <2>3 DEF Deleted
  <2>4. CASE Live(r)
    <3>1. room[r].user \in User
      BY <2>4 DEF Keys, RoomTaken
    <3>2. PICK u \in User : u = room[r].user
      BY <3>1
    <3>3. room' = [room EXCEPT ![r].st = "dead"] /\ user' = [user EXCEPT ![u].key = None]
      BY <2>1, <2>2, <2>4, <3>2 DEF Deleted
    <3> QED BY <1>0, <2>4, <3>2, <3>3, DeleteKeys
  <2> QED BY <2>3, <2>4
<1>14. ASSUME NEW t \in tasks, ReleaseClaim(t)
       PROVE  Keys'
  <2> DEFINE s == Head(t)
  <2>1. /\ s.do = "release" /\ UNCHANGED room
        /\ user' = [user EXCEPT ![s.user].at = "none", ![s.user].bot = None,
                                ![s.user].room = None,
                                ![s.user].key = IF @ = s.room THEN None ELSE @]
    BY <1>14 DEF ReleaseClaim, Runs
  <2>2. s.user \in User /\ user[s.user].at = "abort" /\ s.room = user[s.user].room
    BY <1>0, <2>1 DEF StepOK
  <2> HIDE DEF s
  <2>3. PICK u \in User : u = s.user
    BY <2>2
  <2>4. PICK k : k = IF user[u].key = user[u].room THEN None ELSE user[u].key
    OBVIOUS
  <2>5. user' = [user EXCEPT ![u].at = "none", ![u].bot = None, ![u].room = None, ![u].key = k]
    BY <2>1, <2>2, <2>3, <2>4
  <2>6. /\ user'[u].at = "none" /\ user'[u].room = None /\ user'[u].key = k
        /\ \A v \in User \ {u} : user'[v] = user[v]
    BY <1>0, <2>5
  <2> QED BY <1>0, <2>1, <2>2, <2>3, <2>4, <2>6, EndKeys
<1>15. CASE UNCHANGED user
  BY <1>1, <1>5, <1>8, <1>13, <1>15, RoomMoves
<1> QED BY <1>3, <1>4, <1>5, <1>6, <1>7, <1>8, <1>9, <1>11, <1>12, <1>13, <1>14, <1>15, UserMoves

-----------------------------------------------------------------------------
(* Which rooms are being ended, and which bots are about to be freed.       *)

Dels(t) == {t[i].room : i \in {j \in DOMAIN t : t[j].do = "delete"}}
Lefts(t) == {t[i].bot : i \in {j \in DOMAIN t : t[j].do = "left"}}

LEMMA ViewsAre ==
    /\ \A r : Leaving(r) <=> \E t \in tasks : r \in Dels(t)
    /\ \A b : LeftDue(b) <=> \E t \in tasks : b \in Lefts(t)
    /\ \A r : Leaving(r)' <=> \E t \in tasks' : r \in Dels(t)
    /\ \A b : LeftDue(b)' <=> \E t \in tasks' : b \in Lefts(t)
BY DEF Leaving, LeftDue, Dels, Lefts

LEMMA TailViews ==
    ASSUME NEW t \in Seq(Step), t # <<>>, NEW r, r = Tail(t)
    PROVE  /\ Dels(r) \subseteq Dels(t)
           /\ \A x \in Dels(t) : x \in Dels(r) \/ (Head(t).do = "delete" /\ x = Head(t).room)
           /\ Lefts(r) \subseteq Lefts(t)
           /\ \A x \in Lefts(t) : x \in Lefts(r) \/ (Head(t).do = "left" /\ x = Head(t).bot)
<1>1. /\ Head(t) = t[1]
      /\ \A i \in DOMAIN r : i + 1 \in DOMAIN t /\ r[i] = t[i + 1]
      /\ \A i \in DOMAIN t : i # 1 => i - 1 \in DOMAIN r /\ t[i] = r[i - 1]
  BY TailOf
<1>2. \A i \in DOMAIN r : \E j \in DOMAIN t : r[i] = t[j]
  BY <1>1
<1>3. \A i \in DOMAIN t : t[i] = Head(t) \/ \E j \in DOMAIN r : t[i] = r[j]
  BY <1>1
<1> QED BY <1>2, <1>3 DEF Dels, Lefts

LEMMA SameViews ==
    ASSUME NEW n, NEW r, NEW s, s.do \notin {"delete", "left"},
           \A i \in DOMAIN n : n[i] = s \/ \E j \in DOMAIN r : n[i] = r[j],
           \A i \in DOMAIN r : \E j \in DOMAIN n : r[i] = n[j]
    PROVE  Dels(n) = Dels(r) /\ Lefts(n) = Lefts(r)
<1>1. \A x : x \in Dels(n) => x \in Dels(r)
  BY DEF Dels
<1>2. \A x : x \in Dels(r) => x \in Dels(n)
  BY DEF Dels
<1>3. \A x : x \in Lefts(n) => x \in Lefts(r)
  BY DEF Lefts
<1>4. \A x : x \in Lefts(r) => x \in Lefts(n)
  BY DEF Lefts
<1> QED BY <1>1, <1>2, <1>3, <1>4

LEMMA PutViews ==
    ASSUME NEW s \in Step, s.do \notin {"delete", "left"}, NEW r \in Seq(Step),
           NEW n, n = <<s>> \o r
    PROVE  Dels(n) = Dels(r) /\ Lefts(n) = Lefts(r)
<1>1. <<s>> \in Seq(Step) /\ \A i \in DOMAIN <<s>> : <<s>>[i] = s
  OBVIOUS
<1>2. /\ \A i \in DOMAIN n : \/ i \in DOMAIN <<s>> /\ n[i] = <<s>>[i]
                             \/ i - Len(<<s>>) \in DOMAIN r /\ n[i] = r[i - Len(<<s>>)]
      /\ \A i \in DOMAIN r : i + Len(<<s>>) \in DOMAIN n /\ n[i + Len(<<s>>)] = r[i]
  BY <1>1, JoinIs
<1>3. \A i \in DOMAIN n : n[i] = s \/ \E j \in DOMAIN r : n[i] = r[j]
  BY <1>1, <1>2
<1>4. \A i \in DOMAIN r : \E j \in DOMAIN n : r[i] = n[j]
  BY <1>2
<1>5. PICK m, q : m = n /\ q = r
  OBVIOUS
<1>6. /\ \A i \in DOMAIN m : m[i] = s \/ \E j \in DOMAIN q : m[i] = q[j]
      /\ \A i \in DOMAIN q : \E j \in DOMAIN m : q[i] = m[j]
  BY <1>3, <1>4, <1>5
<1>7. Dels(m) = Dels(q) /\ Lefts(m) = Lefts(q)
  BY <1>6, SameViews
<1> QED BY <1>5, <1>7

LEMMA NoViews ==
    ASSUME NEW n, \A i \in DOMAIN n : n[i].do \notin {"delete", "left"}
    PROVE  Dels(n) = {} /\ Lefts(n) = {}
BY DEF Dels, Lefts

LEMMA LeaveViews ==
    ASSUME NEW r \in Room, NEW b \in Bot, NEW n, n = <<Do("delete", None, r)>> \o AfterLeave(b)
    PROVE  Dels(n) = {r} /\ Lefts(n) = {b}
<1> DEFINE d == Do("delete", None, r)
           l == Do("left", b, None)
           c == Do("check", b, None)
<1>1. PICK m : m = n /\ m = <<d, l, c>>
  BY LeaveShape
<1>2. d.do = "delete" /\ l.do = "left" /\ c.do = "check" /\ d.room = r /\ l.bot = b
  BY DEF Do
<1> HIDE DEF d, l, c
<1>3. DOMAIN m = {1, 2, 3} /\ m[1] = d /\ m[2] = l /\ m[3] = c
  <2> SUFFICES ASSUME m = <<d, l, c>>
               PROVE  DOMAIN m = {1, 2, 3} /\ m[1] = d /\ m[2] = l /\ m[3] = c
    BY <1>1
  <2> QED OBVIOUS
<1>4. Dels(m) = {r} /\ Lefts(m) = {b}
  BY <1>2, <1>3 DEF Dels, Lefts
<1> QED BY <1>1, <1>4

LEMMA EndingView ==
    ASSUME NEW b, NEW n,
           \/ n = <<Do("delete", None, bot[b].chat)>>
           \/ n = <<Do("check", b, None), Do("delete", None, bot[b].chat)>>
    PROVE  Lefts(n) = {} /\ Dels(n) = {bot[b].chat}
<1> DEFINE d == Do("delete", None, bot[b].chat)
           c == Do("check", b, None)
<1>1. d.do = "delete" /\ c.do = "check" /\ d.room = bot[b].chat
  BY DEF Do
<1> HIDE DEF d, c
<1>2. n = <<d>> \/ n = <<c, d>>
  BY DEF d, c
<1>3. CASE n = <<d>>
  <2>1. DOMAIN n = {1} /\ n[1] = d
    BY <1>3
  <2> QED BY <1>1, <2>1 DEF Dels, Lefts
<1>4. CASE n = <<c, d>>
  <2>1. DOMAIN n = {1, 2} /\ n[1] = c /\ n[2] = d
    BY <1>4
  <2> QED BY <1>1, <2>1 DEF Dels, Lefts
<1> QED BY <1>2, <1>3, <1>4

LEMMA EndingViews ==
    ASSUME NEW S, NEW back
    PROVE  \A n \in Ending(S, back) : Lefts(n) = {} /\ \E b \in S : Dels(n) = {bot[b].chat}
<1> SUFFICES ASSUME NEW n \in Ending(S, back)
             PROVE  Lefts(n) = {} /\ \E b \in S : Dels(n) = {bot[b].chat}
  OBVIOUS
<1>1. PICK b \in S : \/ n = <<Do("delete", None, bot[b].chat)>>
                     \/ n = <<Do("check", b, None), Do("delete", None, bot[b].chat)>>
  BY EndingShape
<1>2. Lefts(n) = {} /\ Dels(n) = {bot[b].chat}
  BY <1>1, EndingView
<1> QED BY <1>2

LEMMA EndingDels ==
    ASSUME NEW S, NEW back, NEW b \in S
    PROVE  \E n \in Ending(S, back) : Dels(n) = {bot[b].chat}
<1>1. PICK n : n = (IF b \in back THEN Requeue(b) ELSE <<>>) \o <<Do("delete", None, bot[b].chat)>>
  OBVIOUS
<1>2. n \in Ending(S, back)
  BY <1>1 DEF Ending
<1> DEFINE d == Do("delete", None, bot[b].chat)
           c == Do("check", b, None)
<1>3. n = <<d>> \/ n = <<c, d>>
  <2> HIDE DEF d, c
  <2>1. n = <<c>> \o <<d>> \/ n = <<>> \o <<d>>
    BY <1>1 DEF Requeue, c, d
  <2>2. <<c>> \o <<d>> = <<c, d>> /\ <<>> \o <<d>> = <<d>>
    BY Tuples
  <2> QED BY <2>1, <2>2
<1>4. Dels(n) = {bot[b].chat}
  BY <1>3, EndingView
<1> QED BY <1>2, <1>4

\* The chats of the bots in S end from the bot's side.
Ends(S) == S \subseteq InChat /\ bot' = Freed(S) /\ user' = Told(S) /\ UNCHANGED room

\* How the two views move in a step.
Grows ==
    /\ \A r \in Room : Leaving(r)' => \/ Leaving(r) \/ \E u \in User : Leave(u) /\ user[u].key = r
                                      \/ \E S : Ends(S) /\ \E b \in S : bot[b].chat = r
    /\ \A b \in Bot : LeftDue(b)' => \/ LeftDue(b)
                                     \/ \E u \in User : Leave(u) /\ room[user[u].key].bot = b
Lasts ==
    /\ \A r \in Room : Leaving(r) =>
            Leaving(r)' \/ \E t \in tasks : DeleteRoom(t) /\ Head(t).room = r
    /\ \A b \in Bot : LeftDue(b) =>
            LeftDue(b)' \/ \E t \in tasks : PartnerLeft(t) /\ Head(t).bot = b

LEMMA SwapViews ==
    ASSUME NEW t \in tasks, t \in Seq(Step), t # <<>>, NEW rest, NEW N, NEW r, r = Tail(t),
           tasks' = (tasks \ {t}) \cup (IF rest = <<>> THEN {} ELSE {rest}) \cup N,
           Dels(rest) = Dels(r), Lefts(rest) = Lefts(r), \A n \in N : Lefts(n) = {}
    PROVE  /\ \A q : Leaving(q)' => Leaving(q) \/ \E n \in N : q \in Dels(n)
           /\ \A q : Leaving(q) => Leaving(q)' \/ (Head(t).do = "delete" /\ q = Head(t).room)
           /\ \A b : LeftDue(b)' => LeftDue(b)
           /\ \A b : LeftDue(b) => LeftDue(b)' \/ (Head(t).do = "left" /\ b = Head(t).bot)
<1>2. /\ Dels(r) \subseteq Dels(t)
      /\ \A x \in Dels(t) : x \in Dels(r) \/ (Head(t).do = "delete" /\ x = Head(t).room)
      /\ Lefts(r) \subseteq Lefts(t)
      /\ \A x \in Lefts(t) : x \in Lefts(r) \/ (Head(t).do = "left" /\ x = Head(t).bot)
  BY TailViews
<1>3. Dels(rest) = Dels(r) /\ Lefts(rest) = Lefts(r)
  OBVIOUS
<1>4. rest = <<>> => Dels(rest) = {} /\ Lefts(rest) = {}
  BY DEF Dels, Lefts
<1>5. \A n \in tasks' : n \in tasks \/ (n = rest /\ rest # <<>>) \/ n \in N
  OBVIOUS
<1>6. \A n \in tasks : n \in tasks' \/ n = t
  OBVIOUS
<1>7. rest \in tasks' \/ (Dels(rest) = {} /\ Lefts(rest) = {})
  BY <1>4
<1> QED BY <1>2, <1>3, <1>5, <1>6, <1>7, ViewsAre

LEMMA MoreViews ==
    ASSUME NEW N, tasks' = tasks \cup N
    PROVE  /\ \A r : Leaving(r)' <=> Leaving(r) \/ \E n \in N : r \in Dels(n)
           /\ \A b : LeftDue(b)' <=> LeftDue(b) \/ \E n \in N : b \in Lefts(n)
BY ViewsAre

\* A failed reply ends one chat or none, or it ends them all, disables the bots, and what is
\* under way then is late.
LEMMA FailsBy ==
    ASSUME TypeOK, NEW m \in replies, ModelFails(m)
    PROVE  \E S, back :
               /\ Ends(S) /\ tasks' = tasks \cup Ending(S, back) /\ back \subseteq InChat
               /\ Tidy' => Tidy
               /\ \/ \E e \in Nat : mgr' = [mgr EXCEPT !.errors = e]
                  \/ mgr' = Disabled /\ S = InChat /\ (Tidy' => ~UnderWay /\ back = {})
<1> DEFINE b == m.bot
           ended == IF m.old \/ bot[b].chat = None THEN {} ELSE {b}
           crossed == ended # {} /\ (bot[b].chat # m.room \/ user[m.user].key # m.room)
           c == IF crossed THEN {"crossed"} ELSE {}
           l == IF UnderWay \/ ended # {} THEN {"late"} ELSE {}
<1>0. ghost.odd \in SUBSET {"shared", "late", "crossed"} /\ DOMAIN ghost =
          {"odd", "busy", "joins", "messages", "switches"} /\ mgr.errors \in Nat
  BY TypeParts DEF GhostTyped, MgrTyped
<1>1. ended \subseteq InChat
  <2>1. m.bot \in Bot
    BY TypeParts DEF GhostTyped, Reply
  <2> QED BY <2>1, TypeParts DEF InChat, ChatInPool
<1>2. UNCHANGED room
  BY DEF ModelFails
<1>3. \A odd : Flag(odd) => ghost'.odd = ghost.odd \cup odd
  BY <1>0 DEF Flag
<1>4. \/ /\ user' = Told(ended) /\ bot' = Freed(ended) /\ tasks' = tasks \cup Ending(ended, ended)
         /\ Flag(c) /\ \E e \in {1, mgr.errors + 1} : mgr' = [mgr EXCEPT !.errors = e]
      \/ /\ user' = Told(InChat) /\ bot' = Freed(InChat)
         /\ tasks' = tasks \cup Ending(InChat, ended) /\ mgr' = Disabled /\ Flag(c \cup l)
  BY DEF ModelFails
<1>5. 1 \in Nat /\ mgr.errors + 1 \in Nat
  BY <1>0
<1>6. "late" \in l <=> UnderWay \/ ended # {}
  OBVIOUS
<1> HIDE DEF ended, c, l
<1>7. CASE /\ user' = Told(ended) /\ bot' = Freed(ended) /\ tasks' = tasks \cup Ending(ended, ended)
           /\ Flag(c) /\ \E e \in {1, mgr.errors + 1} : mgr' = [mgr EXCEPT !.errors = e]
  <2>1. Ends(ended)
    BY <1>1, <1>2, <1>7 DEF Ends
  <2>2. Tidy' => Tidy
    BY <1>3, <1>7 DEF Tidy
  <2>3. \E e \in Nat : mgr' = [mgr EXCEPT !.errors = e]
    BY <1>5, <1>7
  <2> QED BY <1>1, <1>7, <2>1, <2>2, <2>3
<1>8. CASE /\ user' = Told(InChat) /\ bot' = Freed(InChat)
           /\ tasks' = tasks \cup Ending(InChat, ended) /\ mgr' = Disabled /\ Flag(c \cup l)
  <2>1. Ends(InChat)
    BY <1>2, <1>8 DEF Ends
  <2>2. Tidy' => Tidy /\ "late" \notin l
    BY <1>3, <1>8 DEF Tidy
  <2> QED BY <1>1, <1>6, <1>8, <2>1, <2>2
<1> QED BY <1>4, <1>7, <1>8

LEMMA DisablesBy ==
    ASSUME TypeOK, NEW t \in tasks, Disable(t)
    PROVE  \/ Goes(t) /\ UNCHANGED <<mgr, bot, user, room, ghost>>
           \/ /\ Ends(InChat) /\ tasks' = (tasks \ {t}) \cup {Tail(t)} \cup Ending(InChat, {})
              /\ mgr' = Disabled /\ (Tidy' => Tidy /\ ~UnderWay)
<1>1. CASE ~mgr.enabled
  BY <1>1 DEF Disable
<1>2. CASE mgr.enabled
  <2>1. ghost.odd \in SUBSET {"shared", "late", "crossed"} /\ DOMAIN ghost =
            {"odd", "busy", "joins", "messages", "switches"}
    BY TypeParts DEF GhostTyped
  <2>2. \A odd : Flag(odd) => ghost'.odd = ghost.odd \cup odd
    BY <2>1 DEF Flag
  <2>3. Flag(IF UnderWay THEN {"late"} ELSE {})
    BY <1>2 DEF Disable
  <2>4. "late" \in (IF UnderWay THEN {"late"} ELSE {}) <=> UnderWay
    OBVIOUS
  <2> DEFINE l == IF UnderWay THEN {"late"} ELSE {}
  <2> HIDE DEF l
  <2>5. Tidy' => Tidy /\ "late" \notin l
    BY <2>2, <2>3 DEF Tidy, l
  <2>6. Ends(InChat)
    BY <1>2 DEF Disable, Ends
  <2> QED BY <1>2, <2>4, <2>5, <2>6 DEF Disable, l
<1> QED BY <1>1, <1>2

LEMMA ViewsNext ==
    ASSUME TypeOK, TasksFit, RoomTaken, Next
    PROVE  Grows /\ Lasts
<1>0. /\ MgrTyped /\ UserTyped /\ RoomTyped /\ BotAtWork /\ Pool \subseteq Bot
      /\ \A t \in tasks : t \in Seq(Step) /\ t # <<>> /\ Fits(t) /\ Head(t) = t[1] /\ 1 \in DOMAIN t
  <2>1. \A t \in tasks : t \in Seq(Step) /\ t # <<>> /\ Fits(t)
    BY TypeParts DEF TasksTyped, TasksFit, Fits, Sound
  <2>2. \A t \in tasks : Head(t) = t[1] /\ 1 \in DOMAIN t
    BY <2>1, TailOf
  <2> QED BY <2>1, <2>2, TypeParts, PoolIn
<1>1. CASE UNCHANGED tasks
  <2>1. (\A r : Leaving(r)' <=> Leaving(r)) /\ (\A b : LeftDue(b)' <=> LeftDue(b))
    BY <1>1, ViewsAre
  <2> QED BY <2>1 DEF Grows, Lasts
<1>2. ASSUME NEW n, tasks' = tasks \cup {n}, Dels(n) = {}, Lefts(n) = {}
      PROVE  Grows /\ Lasts
  <2>1. (\A r : Leaving(r)' <=> Leaving(r)) /\ (\A b : LeftDue(b)' <=> LeftDue(b))
    BY <1>2, MoreViews
  <2> QED BY <2>1 DEF Grows, Lasts
<1>3. ASSUME NEW u \in User, Check(u)
      PROVE  Grows /\ Lasts
  <2>1. CASE user[u].st = "queue"
    BY <1>1, <1>3, <2>1 DEF Check
  <2>2. CASE user[u].st # "queue"
    <3> DEFINE c == Do("check", user[u].bot, None)
               s == [Do("release", user[u].bot, user[u].room) EXCEPT !.user = u]
    <3>1. c.do = "check" /\ s.do = "release"
      BY DEF Do
    <3> HIDE DEF c, s
    <3>2. PICK n : n = <<c, s>> /\ tasks' = tasks \cup {n}
      BY <1>3, <2>2, Tuples DEF Check, Requeue, c, s
    <3>3. DOMAIN n = {1, 2} /\ n[1] = c /\ n[2] = s
      BY <3>2
    <3>4. Dels(n) = {} /\ Lefts(n) = {}
      BY <3>1, <3>3, NoViews
    <3> QED BY <1>2, <3>2, <3>4
  <2> QED BY <2>1, <2>2
<1>4. ASSUME NEW u \in User, Leave(u)
      PROVE  Grows /\ Lasts
  <2>1. PICK r \in Room : r = user[u].key /\ Live(r)
    <3>1. Live(user[u].key) /\ user[u].key \in Room \cup {None}
      BY <1>0, <1>4 DEF Leave, UserTyped, ManType
    <3> QED BY <3>1 DEF Live
  <2>2. PICK b \in Bot : b = room[r].bot
    BY <2>1 DEF RoomTaken
  <2>3. PICK n : n = <<Do("delete", None, r)>> \o AfterLeave(b) /\ tasks' = tasks \cup {n}
    BY <1>4, <2>1, <2>2 DEF Leave
  <2>4. Dels(n) = {r} /\ Lefts(n) = {b}
    BY <2>3, LeaveViews
  <2>5. /\ \A q : Leaving(q)' <=> Leaving(q) \/ q = r
        /\ \A c : LeftDue(c)' <=> LeftDue(c) \/ c = b
    <3>1. PICK N : N = {n}
      OBVIOUS
    <3>2. tasks' = tasks \cup N
      BY <2>3, <3>1
    <3>3. /\ \A q : Leaving(q)' <=> Leaving(q) \/ \E k \in N : q \in Dels(k)
          /\ \A c : LeftDue(c)' <=> LeftDue(c) \/ \E k \in N : c \in Lefts(k)
      BY <3>2, MoreViews
    <3> QED BY <2>4, <3>1, <3>3
  <2> QED BY <1>4, <2>1, <2>2, <2>5 DEF Grows, Lasts
<1>5. ASSUME NEW m \in replies, ModelFails(m)
      PROVE  Grows /\ Lasts
  <2>1. PICK S, back : Ends(S) /\ tasks' = tasks \cup Ending(S, back)
    BY <1>5, FailsBy
  <2>2. \A n \in Ending(S, back) : Lefts(n) = {} /\ \E b \in S : Dels(n) = {bot[b].chat}
    BY EndingViews
  <2>3. /\ \A r : Leaving(r)' => Leaving(r) \/ \E b \in S : bot[b].chat = r
        /\ \A r : Leaving(r) => Leaving(r)'
        /\ \A b : LeftDue(b)' <=> LeftDue(b)
    <3>1. PICK N : N = Ending(S, back)
      OBVIOUS
    <3>2. tasks' = tasks \cup N
      BY <2>1, <3>1
    <3>3. /\ \A q : Leaving(q)' <=> Leaving(q) \/ \E k \in N : q \in Dels(k)
          /\ \A c : LeftDue(c)' <=> LeftDue(c) \/ \E k \in N : c \in Lefts(k)
      BY <3>2, MoreViews
    <3> QED BY <2>2, <3>1, <3>3
  <2> QED BY <2>1, <2>3 DEF Grows, Lasts
<1>6. ASSUME NEW t \in tasks, NEW rest, Becomes(t, rest),
             Dels(rest) = Dels(Tail(t)), Lefts(rest) = Lefts(Tail(t)),
             Head(t).do = "delete" => DeleteRoom(t), Head(t).do = "left" => PartnerLeft(t)
      PROVE  Grows /\ Lasts
  <2>1. PICK N : N = {}
    OBVIOUS
  <2>2. tasks' = (tasks \ {t}) \cup (IF rest = <<>> THEN {} ELSE {rest}) \cup N
    BY <1>6, <2>1 DEF Becomes
  <2>3. t \in Seq(Step) /\ t # <<>>
    BY <1>0
  <2>4. /\ \A r : Leaving(r)' => Leaving(r)
        /\ \A r : Leaving(r) => Leaving(r)' \/ (Head(t).do = "delete" /\ r = Head(t).room)
        /\ \A b : LeftDue(b)' => LeftDue(b)
        /\ \A b : LeftDue(b) => LeftDue(b)' \/ (Head(t).do = "left" /\ b = Head(t).bot)
    <3>1. PICK r : r = Tail(t)
      OBVIOUS
    <3>2. Dels(rest) = Dels(r) /\ Lefts(rest) = Lefts(r) /\ \A n \in N : Lefts(n) = {}
      BY <1>6, <2>1, <3>1
    <3>3. /\ \A q : Leaving(q)' => Leaving(q) \/ \E n \in N : q \in Dels(n)
          /\ \A q : Leaving(q) => Leaving(q)' \/ (Head(t).do = "delete" /\ q = Head(t).room)
          /\ \A b : LeftDue(b)' => LeftDue(b)
          /\ \A b : LeftDue(b) => LeftDue(b)' \/ (Head(t).do = "left" /\ b = Head(t).bot)
      BY <2>2, <2>3, <3>1, <3>2, SwapViews
    <3> QED BY <2>1, <3>3
  <2> QED BY <1>6, <2>4 DEF Grows, Lasts
<1>7. ASSUME NEW t \in tasks, Goes(t),
             Head(t).do = "delete" => DeleteRoom(t), Head(t).do = "left" => PartnerLeft(t)
      PROVE  Grows /\ Lasts
  BY <1>6, <1>7 DEF Goes
<1>8. ASSUME NEW t \in tasks,
             DeleteRoom(t) \/ AddToQueue(t) \/ ReleaseClaim(t) \/ Dequeue(t) \/ Done(t)
      PROVE  Grows /\ Lasts
  BY <1>7, <1>8 DEF DeleteRoom, AddToQueue, ReleaseClaim, Dequeue, Done, Runs
<1>9. ASSUME NEW t \in tasks, PartnerLeft(t)
      PROVE  Grows /\ Lasts
  <2>1. Head(t).do = "left" /\ t[1].do = "left"
    BY <1>0, <1>9 DEF PartnerLeft, Runs
  <2>2. CASE Goes(t)
    BY <1>7, <1>9, <2>1, <2>2
  <2>3. CASE Becomes(t, <<>>)
    <3>1. PICK r : r = Tail(t)
      OBVIOUS
    <3>2. \A i \in DOMAIN r : r[i].do \notin {"delete", "left"}
      <4> SUFFICES ASSUME NEW i \in DOMAIN r PROVE r[i].do \notin {"delete", "left"}
        OBVIOUS
      <4>1. r \in Seq(Step) /\ i \in Nat /\ i + 1 \in DOMAIN t /\ r[i] = t[i + 1]
        BY <1>0, <3>1, TailOf
      <4>2. 1 < i + 1
        <5>1. i \in 1..Len(r)
          BY <4>1
        <5> QED BY <5>1
      <4> QED BY <1>0, <2>1, <4>1, <4>2 DEF Fits, Sound
    <3>3. Dels(r) = {} /\ Lefts(r) = {} /\ Dels(<<>>) = {} /\ Lefts(<<>>) = {}
      BY <3>2, NoViews
    <3>4. PICK rest : rest = <<>>
      OBVIOUS
    <3> QED BY <1>6, <1>9, <2>1, <2>3, <3>1, <3>3, <3>4
  <2> QED BY <1>9, <2>2, <2>3 DEF PartnerLeft
<1>10. ASSUME NEW t \in tasks, NEW s \in Step, s.do \notin {"delete", "left"},
              NEW n, n = <<s>> \o Tail(t), Becomes(t, n), Head(t).do \notin {"delete", "left"}
       PROVE  Grows /\ Lasts
  <2>1. PICK r \in Seq(Step) : r = Tail(t)
    BY <1>0, TailOf
  <2>2. Dels(n) = Dels(r) /\ Lefts(n) = Lefts(r)
    BY <1>10, <2>1, PutViews
  <2> QED BY <1>6, <1>10, <2>1, <2>2
<1>11. ASSUME NEW t \in tasks, CheckQueue(t) \/ Enable(t)
       PROVE  Grows /\ Lasts
  <2>1. Head(t).do \notin {"delete", "left"}
    BY <1>11 DEF CheckQueue, Enable, Runs
  <2>2. Goes(t) \/ \E s \in Step : s.do \notin {"delete", "left"} /\ Becomes(t, <<s>> \o Tail(t))
    <3>1. CASE CheckQueue(t)
      <4>1. Head(t).bot \in Bot
        BY <1>0, <3>1 DEF CheckQueue, Runs, Fits, StepOK
      <4>2. Do("add", Head(t).bot, None) \in Step /\ Do("add", Head(t).bot, None).do = "add"
        BY <4>1, DoStep DEF Do
      <4> QED BY <3>1, <4>2 DEF CheckQueue, Goes
    <3>2. CASE Enable(t)
      <4>1. Do("queueAll", None, None) \in Step /\ Do("queueAll", None, None).do = "queueAll"
        BY DoStep DEF Do
      <4> QED BY <3>2, <4>1 DEF Enable, Goes
    <3> QED BY <1>11, <3>1, <3>2
  <2> QED BY <1>7, <1>10, <2>1, <2>2
<1>12. ASSUME NEW t \in tasks, AddBotsToQueue(t)
       PROVE  Grows /\ Lasts
  <2>1. PICK n : n = QueueAll({b \in Pool : bot[b].chat = None}, mgr.pool) \o Tail(t)
                 /\ Becomes(t, n)
    BY <1>12 DEF AddBotsToQueue
  <2>2. t[1].do = "queueAll" /\ Head(t).do = "queueAll"
    BY <1>0, <1>12 DEF AddBotsToQueue, Runs
  <2>3. n # <<>> => Quiet(n)
    BY <1>0, <2>1, <2>2, QueueAllFits
  <2>4. Dels(n) = {} /\ Lefts(n) = {}
    BY <2>3, NoViews DEF Quiet
  <2>5. PICK r : r = Tail(t)
    OBVIOUS
  <2>6. \A i \in DOMAIN r : r[i].do \notin {"delete", "left"}
    <3> SUFFICES ASSUME NEW i \in DOMAIN r PROVE r[i].do \notin {"delete", "left"}
      OBVIOUS
    <3>1. r \in Seq(Step) /\ i \in Nat /\ i + 1 \in DOMAIN t /\ r[i] = t[i + 1]
      BY <1>0, <2>5, TailOf
    <3>2. 1 < i + 1
      <4>1. i \in 1..Len(r)
        BY <3>1
      <4> QED BY <4>1
    <3> QED BY <1>0, <2>2, <3>1, <3>2 DEF Fits, Sound
  <2>7. Dels(r) = {} /\ Lefts(r) = {}
    BY <2>6, NoViews
  <2> QED BY <1>6, <2>1, <2>2, <2>4, <2>5, <2>7
<1>13. ASSUME NEW t \in tasks, Disable(t)
       PROVE  Grows /\ Lasts
  <2>1. Head(t).do = "disable"
    BY <1>13 DEF Disable, Runs
  <2>2. CASE Goes(t)
    BY <1>7, <2>1, <2>2
  <2>3. CASE Ends(InChat) /\ tasks' = (tasks \ {t}) \cup {Tail(t)} \cup Ending(InChat, {})
    <3>1. PICK N : N = Ending(InChat, {})
      OBVIOUS
    <3>2. \A n \in N : Lefts(n) = {} /\ \E b \in InChat : Dels(n) = {bot[b].chat}
      BY <3>1, EndingViews
    <3>3. PICK r : r = Tail(t)
      OBVIOUS
    <3>4. r # <<>>
      BY <1>0, <2>1, <3>3, MoreToDo DEF Fits
    <3>5. tasks' = (tasks \ {t}) \cup (IF r = <<>> THEN {} ELSE {r}) \cup N
      BY <2>3, <3>1, <3>3, <3>4
    <3>6. t \in Seq(Step) /\ t # <<>>
      BY <1>0
    <3>7. /\ \A q : Leaving(q)' => Leaving(q) \/ \E n \in N : q \in Dels(n)
          /\ \A q : Leaving(q) => Leaving(q)' \/ (Head(t).do = "delete" /\ q = Head(t).room)
          /\ \A b : LeftDue(b)' => LeftDue(b)
          /\ \A b : LeftDue(b) => LeftDue(b)' \/ (Head(t).do = "left" /\ b = Head(t).bot)
      BY <3>2, <3>3, <3>5, <3>6, SwapViews
    <3>8. \A q : (\E n \in N : q \in Dels(n)) => \E b \in InChat : bot[b].chat = q
      BY <3>2
    <3>9. \A q : Leaving(q)' => Leaving(q) \/ \E S : Ends(S) /\ \E b \in S : bot[b].chat = q
      BY <2>3, <3>7, <3>8
    <3> QED BY <2>1, <3>7, <3>9 DEF Grows, Lasts
  <2> QED BY <1>13, <2>2, <2>3, DisablesBy
<1>14. CASE EnableBots \/ DisableBots \/ UpdateConfig
  <2>1. PICK n : /\ tasks' = tasks \cup {n}
                 /\ \/ n = <<Do("test", None, None)>> \o <<Do("done", None, None)>>
                    \/ n = <<>> \o <<Do("done", None, None)>>
                    \/ n = ([b \in Pool |-> Do("dequeue", b, None)]
                               \o <<Do("disable", None, None)>>) \o <<Do("done", None, None)>>
    BY <1>14 DEF EnableBots, DisableBots, UpdateConfig, Request
  <2>2. Quiet(n)
    BY <1>0, <2>1, RequestFits
  <2>3. Dels(n) = {} /\ Lefts(n) = {}
    BY <2>2, NoViews DEF Quiet
  <2> QED BY <1>2, <2>1, <2>3
<1> QED BY <1>1, <1>3, <1>4, <1>5, <1>8, <1>9, <1>11, <1>12, <1>13, <1>14, TaskMoves DEF TaskStep

LEMMA EndedLeaving ==
    ASSUME NEW S, NEW back, Ending(S, back) \subseteq tasks'
    PROVE  \A b \in S : \A r : bot[b].chat = r => Leaving(r)'
<1>1. \A b \in S : \E n \in Ending(S, back) : Dels(n) = {bot[b].chat}
  BY EndingDels
<1>2. ASSUME NEW b \in S, NEW r, bot[b].chat = r
      PROVE  Leaving(r)'
  <2>1. PICK n \in Ending(S, back) : Dels(n) = {r}
    BY <1>1, <1>2
  <2>2. n \in tasks' /\ r \in Dels(n)
    BY <2>1
  <2> QED BY <2>2, ViewsAre
<1> QED BY <1>2

LEMMA LeftLeaving ==
    ASSUME TypeOK, RoomTaken, NEW u \in User, Leave(u)
    PROVE  /\ Live(user[u].key) /\ user[u].key \in Room
           /\ \A r : r = user[u].key => Leaving(r)'
           /\ \A b : b = room[user[u].key].bot => LeftDue(b)'
<1>1. Live(user[u].key) /\ user[u].key \in Room
  <2>1. Live(user[u].key) /\ user[u].key \in Room \cup {None}
    BY TypeParts DEF Leave, UserTyped, ManType
  <2> QED BY <2>1 DEF Live
<1>2. PICK r \in Room : r = user[u].key /\ Live(r)
  BY <1>1
<1>3. PICK b \in Bot : b = room[r].bot
  BY <1>2 DEF RoomTaken
<1>4. PICK n : n = <<Do("delete", None, r)>> \o AfterLeave(b)
  OBVIOUS
<1>5. n \in tasks'
  BY <1>2, <1>3, <1>4 DEF Leave
<1>6. Dels(n) = {r} /\ Lefts(n) = {b}
  BY <1>4, LeaveViews
<1>7. Leaving(r)' /\ LeftDue(b)'
  <2>1. PICK t \in tasks' : r \in Dels(t) /\ b \in Lefts(t)
    BY <1>5, <1>6
  <2> QED BY <2>1, ViewsAre
<1> QED BY <1>1, <1>2, <1>3, <1>7

\* A room that has begun stays its pair's, and lives until it is deleted.
LEMMA RoomSteps ==
    ASSUME TypeOK, TasksFit, Keys, Next, NEW r \in Room
    PROVE  /\ room[r].st \in {"live", "dead"} =>
                  room'[r].user = room[r].user /\ room'[r].bot = room[r].bot
           /\ Live(r) => \/ room'[r] = room[r]
                         \/ \E t \in tasks : DeleteRoom(t) /\ Head(t).room = r
           /\ Live(r)' => Live(r) \/ \E u \in User : CreateRoom(u) /\ user'[u].room = r
<1>0. RoomTyped /\ UserTyped
  BY TypeParts
<1>n. New # {} => First(New) \in Room /\ room[First(New)].st = "new"
  <2>1. New \subseteq Nat
    BY Numbers DEF New
  <2>2. New # {} => First(New) \in New
    BY <2>1, FirstIsIn
  <2>3. \A x \in New : x \in Room /\ room[x].st = "new"
    BY DEF New
  <2> HIDE DEF New
  <2> QED BY <2>2, <2>3
<1> USE DEF RoomTyped, RoomType
<1>1. CASE room'[r] = room[r]
  BY <1>1 DEF Live
<1>2. ASSUME NEW u \in User, FindMatch(u)
      PROVE  room'[r] = room[r] \/ (room[r].st = "new" /\ room'[r].st = "claimed")
  <2> DEFINE k == First(New)
  <2>1. room' = room \/ (New # {} /\ room' = [room EXCEPT ![k].st = "claimed"])
    BY <1>2 DEF FindMatch
  <2>2. New # {} => k \in Room /\ room[k].st = "new"
    BY <1>n
  <2> HIDE DEF k
  <2> QED BY <1>0, <2>1, <2>2
<1>3. ASSUME NEW u \in User, CreateRoom(u)
      PROVE  \/ room'[r] = room[r]
             \/ room[r].st \in {"new", "claimed"} /\ user'[u].room = r /\ room'[r].st = "live"
  <2> DEFINE k == IF user[u].room # None THEN user[u].room ELSE First(New)
  <2>1. /\ user[u].at = "create" /\ (user[u].room = None => New # {})
        /\ room' = [room EXCEPT ![k] = [st |-> "live", user |-> u, bot |-> user[u].bot]]
        /\ user' = [user EXCEPT ![u].at = "notify", ![u].room = k, ![u].key = k]
    BY <1>3 DEF CreateRoom
  <2>2. user[u].room # None => room[user[u].room].st = "claimed"
    BY <2>1 DEF Keys, ClaimHeld, Seeking
  <2>3. room[k].st \in {"new", "claimed"}
    BY <1>n, <2>1, <2>2
  <2> HIDE DEF k
  <2>4. user'[u].room = k
    BY <1>0, <2>1 DEF UserTyped, ManType
  <2>5. CASE r = k
    BY <1>0, <2>1, <2>3, <2>4, <2>5
  <2>6. CASE r # k
    BY <1>0, <2>1, <2>6
  <2> QED BY <2>5, <2>6
<1>4. ASSUME NEW t \in tasks, DeleteRoom(t)
      PROVE  \/ room'[r] = room[r]
             \/ Head(t).room = r /\ room'[r] = [room[r] EXCEPT !.st = "dead"] /\ Live(r)
  <2>1. room' = room \/ (Live(Head(t).room) /\ room' = [room EXCEPT ![Head(t).room].st = "dead"])
    BY <1>4 DEF DeleteRoom, Deleted
  <2> QED BY <1>0, <2>1
<1>5. \/ UNCHANGED room
      \/ \E u \in User : FindMatch(u) \/ CreateRoom(u)
      \/ \E t \in tasks : DeleteRoom(t)
  BY RoomMoves
<1>6. ASSUME NEW u \in User, CreateRoom(u), room'[r] # room[r]
      PROVE  /\ room[r].st \notin {"live", "dead"} /\ user'[u].room = r
  BY <1>3, <1>6
<1>7. ASSUME NEW u \in User, FindMatch(u), room'[r] # room[r]
      PROVE  room[r].st \notin {"live", "dead"} /\ room'[r].st # "live"
  BY <1>2, <1>7
<1>8. ASSUME NEW t \in tasks, DeleteRoom(t), room'[r] # room[r]
      PROVE  /\ room'[r].user = room[r].user /\ room'[r].bot = room[r].bot
             /\ room'[r].st # "live" /\ Head(t).room = r
  BY <1>0, <1>4, <1>8
<1> QED BY <1>1, <1>5, <1>6, <1>7, <1>8 DEF Live

\* What a step can do to one man.
Still(u) ==
    /\ user'[u].at = user[u].at /\ user'[u].bot = user[u].bot /\ user'[u].room = user[u].room
    /\ user'[u].shown => user[u].shown
    /\ \/ user'[u].key = user[u].key
       \/ \E t \in tasks : DeleteRoom(t) /\ user[u].key = Head(t).room /\ Live(Head(t).room)
Released(u) ==
    /\ user[u].at = "abort" /\ user'[u].at = "none" /\ user'[u].bot = None
    /\ user'[u].shown = user[u].shown
    /\ \E t \in tasks : ReleaseClaim(t) /\ Head(t).user = u

LEMMA ManMoves ==
    ASSUME TypeOK, TasksFit, Keys, Next, NEW u \in User
    PROVE  \/ Still(u)
           \/ Released(u)
           \/ FindMatch(u) \/ Fallback(u) \/ Check(u) \/ CreateRoom(u) \/ Notify(u)
<1>0. /\ UserTyped
      /\ \A t \in tasks : t # <<>> /\ StepOK(Head(t))
  <2>1. \A t \in tasks : t \in Seq(Step) /\ t # <<>> /\ Fits(t)
    BY TypeParts DEF TasksTyped, TasksFit, Fits, Sound
  <2>2. \A t \in tasks : Head(t) = t[1] /\ 1 \in DOMAIN t
    BY <2>1, TailOf
  <2> QED BY <2>1, <2>2, TypeParts DEF Fits
<1> USE DEF UserTyped, ManType
<1>1. ASSUME user'[u] = user[u]
      PROVE  Still(u)
  BY <1>1 DEF Still
<1>2. ASSUME NEW v \in User, Join(v) \/ Cancel(v) \/ Leave(v)
      PROVE  Still(u)
  <2>1. \/ \E st \in {"queue", "idle"} : user' = [user EXCEPT ![v].st = st]
        \/ user' = [user EXCEPT ![v].st = "idle", ![v].shown = FALSE]
    BY <1>2 DEF Join, Cancel, Leave
  <2> QED BY <1>0, <2>1 DEF Still
<1>3. ASSUME NEW v \in User, v # u,
             FindMatch(v) \/ Fallback(v) \/ Check(v) \/ CreateRoom(v) \/ Notify(v)
      PROVE  user'[u] = user[u]
  <2>2. CASE FindMatch(v)
    BY <1>3, <1>0, <2>2 DEF FindMatch
  <2>3. CASE Fallback(v)
    BY <1>3, <1>0, <2>3 DEF Fallback
  <2>4. CASE Check(v)
    BY <1>3, <1>0, <2>4 DEF Check
  <2>5. CASE CreateRoom(v)
    BY <1>3, <1>0, <2>5 DEF CreateRoom
  <2>6. CASE Notify(v)
    BY <1>3, <1>0, <2>6 DEF Notify
  <2> QED BY <1>3, <2>2, <2>3, <2>4, <2>5, <2>6
<1>4. ASSUME NEW S, user' = Told(S)
      PROVE  Still(u)
  BY <1>0, <1>4 DEF Told, Still
<1>5. ASSUME NEW m \in replies, ModelFails(m)
      PROVE  Still(u)
  BY <1>4, <1>5 DEF ModelFails
<1>6. ASSUME NEW t \in tasks, Disable(t)
      PROVE  Still(u)
  BY <1>1, <1>4, <1>6 DEF Disable
<1>7. ASSUME NEW t \in tasks, DeleteRoom(t)
      PROVE  Still(u)
  <2>1. Head(t).do = "delete" /\ Deleted(Head(t).room) /\ Head(t).room \in Room
    BY <1>0, <1>7 DEF DeleteRoom, Runs, StepOK
  <2>2. PICK r \in Room : r = Head(t).room
    BY <2>1
  <2>3. CASE ~Live(r)
    BY <1>1, <2>1, <2>2, <2>3 DEF Deleted
  <2>4. CASE Live(r)
    <3>1. room[r].user \in User /\ user[room[r].user].key = r
      BY <2>4 DEF Keys, RoomTaken
    <3>2. PICK v \in User : v = room[r].user
      BY <3>1
    <3>3. user' = [user EXCEPT ![v].key = None]
      BY <2>1, <2>2, <2>4, <3>2 DEF Deleted
    <3>4. CASE v = u
      <4>1. user'[u] = [user[u] EXCEPT !.key = None]
        BY <1>0, <3>3, <3>4
      <4>2. user[u].key = Head(t).room /\ Live(Head(t).room)
        BY <2>2, <2>4, <3>1, <3>2, <3>4
      <4> QED BY <1>0, <1>7, <4>1, <4>2 DEF Still
    <3>5. CASE v # u
      BY <1>0, <1>1, <3>3, <3>5
    <3> QED BY <3>4, <3>5
  <2> QED BY <2>3, <2>4
<1>8. ASSUME NEW t \in tasks, ReleaseClaim(t)
      PROVE  Still(u) \/ Released(u)
  <2>1. Head(t).do = "release"
    BY <1>8 DEF ReleaseClaim, Runs
  <2>2. Head(t).user \in User /\ user[Head(t).user].at = "abort"
    BY <1>0, <2>1 DEF StepOK
  <2>3. PICK k : user' = [user EXCEPT ![Head(t).user].at = "none", ![Head(t).user].bot = None,
                                      ![Head(t).user].room = None, ![Head(t).user].key = k]
    <3> DEFINE s == Head(t)
    <3>1. user' = [user EXCEPT ![s.user].at = "none", ![s.user].bot = None,
                               ![s.user].room = None,
                               ![s.user].key = IF user[s.user].key = s.room THEN None
                                               ELSE user[s.user].key]
      BY <1>8 DEF ReleaseClaim
    <3> QED BY <3>1
  <2>4. CASE Head(t).user = u
    <3>1. user'[u].at = "none" /\ user'[u].bot = None /\ user'[u].shown = user[u].shown
      BY <1>0, <2>3, <2>4
    <3> QED BY <1>8, <2>2, <2>4, <3>1 DEF Released
  <2>5. CASE Head(t).user # u
    BY <1>0, <1>1, <2>3, <2>5
  <2> QED BY <2>4, <2>5
<1>9. ASSUME UNCHANGED user
      PROVE  Still(u)
  BY <1>1, <1>9
<1>10. ASSUME NEW v \in User,
              FindMatch(v) \/ Fallback(v) \/ Check(v) \/ CreateRoom(v) \/ Notify(v)
       PROVE  \/ Still(u)
              \/ FindMatch(u) \/ Fallback(u) \/ Check(u) \/ CreateRoom(u) \/ Notify(u)
  <2>1. CASE v = u
    BY <1>10, <2>1
  <2>2. CASE v # u
    BY <1>1, <1>3, <1>10, <2>2
  <2> QED BY <2>1, <2>2
<1> QED BY <1>2, <1>5, <1>6, <1>7, <1>8, <1>9, <1>10, UserMoves

-----------------------------------------------------------------------------
(* The chats, from their making to their end.                               *)

Telling(u) ==
    /\ user[u].room \in Room /\ Live(user[u].room) /\ room[user[u].room].user = u
    /\ room[user[u].room].bot = user[u].bot /\ user[u].key = user[u].room
    /\ ~Leaving(user[u].room) /\ \A b \in Bot : bot[b].chat # user[u].room

\* A step leaves a room that nobody ends in place, with its key, unless its man leaves it or
\* its bot's side ends it.
LEMMA RoomStays ==
    ASSUME TypeOK, TasksFit, Keys, Next, NEW u \in User, NEW r \in Room,
           user[u].key = r, Live(r), room[r].user = u, ~Leaving(r)
    PROVE  /\ room'[r] = room[r]
           /\ Still(u) => user'[u].key = r
           /\ Leaving(r)' => Leave(u) \/ \E S : Ends(S) /\ \E b \in S : bot[b].chat = r
<1>0. /\ \A t \in tasks : t # <<>> /\ Head(t) = t[1] /\ 1 \in DOMAIN t
  <2>1. \A t \in tasks : t \in Seq(Step) /\ t # <<>>
    BY TypeParts DEF TasksTyped, TasksFit, Fits, Sound
  <2> QED BY <2>1, TailOf
<1>1. ~\E t \in tasks : DeleteRoom(t) /\ Head(t).room = r
  BY <1>0 DEF DeleteRoom, Runs, Leaving
<1>2. room'[r] = room[r]
  BY <1>1, RoomSteps
<1>3. Still(u) => user'[u].key = r
  BY <1>1 DEF Still
<1>4. Leaving(r)' => Leave(u) \/ \E S : Ends(S) /\ \E b \in S : bot[b].chat = r
  <2>1. Grows
    BY ViewsNext DEF Keys
  <2>2. ASSUME NEW v \in User, Leave(v), user[v].key = r
        PROVE  v = u
    <3>1. r # None /\ room[r].st = "live"
      BY DEF Live
    <3> QED BY <2>2, <3>1 DEF Keys, KeyHeld
  <2> QED BY <2>1, <2>2 DEF Grows
<1> QED BY <1>2, <1>3, <1>4

LEMMA FoundMoves ==
    ASSUME TypeOK, NEW u \in User, FindMatch(u)
    PROVE  /\ user'[u].st = "queue" /\ user[u].at = "none" /\ user'[u].at \in {"fallback", "check"}
           /\ user'[u].at = "fallback" => user' = [user EXCEPT ![u].at = "fallback"]
           /\ user'[u].shown <=> user[u].shown
<1> USE TypeParts DEF UserTyped, ManType
<1>1. user[u].st = "queue" /\ user[u].at = "none"
  BY DEF FindMatch
<1> DEFINE k == First(New)
<1>2. user' = [user EXCEPT ![u].at = "fallback"]
      \/ \E b \in Bot :
            user' = [user EXCEPT ![u].at = "check", ![u].bot = b, ![u].room = k, ![u].key = k]
  BY DEF FindMatch
<1> HIDE DEF k
<1>3. CASE user' = [user EXCEPT ![u].at = "fallback"]
  <2>1. user'[u].st = "queue" /\ user'[u].at = "fallback"
    BY <1>1, <1>3
  <2>2. user'[u].shown <=> user[u].shown
    BY <1>3
  <2> QED BY <1>1, <1>3, <2>1, <2>2
<1>4. ASSUME NEW b \in Bot,
             user' = [user EXCEPT ![u].at = "check", ![u].bot = b, ![u].room = k, ![u].key = k]
      PROVE  /\ user'[u].st = "queue" /\ user'[u].at = "check"
             /\ user'[u].shown <=> user[u].shown
  <2>1. user' = [user EXCEPT ![u] =
                    [user[u] EXCEPT !.at = "check", !.bot = b, !.room = k, !.key = k]]
    BY <1>4
  <2>2. user'[u].st = "queue" /\ user'[u].at = "check"
    BY <1>1, <2>1
  <2>3. user'[u].shown <=> user[u].shown
    BY <2>1
  <2> QED BY <2>2, <2>3
<1> QED BY <1>1, <1>2, <1>3, <1>4

LEMMA NotifiedNext ==
    ASSUME TypeOK, TasksFit, Keys, Notified, InTheirRoom, Chats, Next
    PROVE  Notified'
<1>0. UserTyped /\ RoomTyped /\ BotTyped /\ BotAtWork
  BY TypeParts
<1> SUFFICES ASSUME NEW u \in User, user'[u].at = "notify"
             PROVE  Telling(u)'
  BY DEF Notified, Telling, Live, Leaving
<1>1. CASE user[u].at = "notify"
  <2>1. Still(u)
    <3>1. ~Released(u)
      BY <1>1 DEF Released
    <3>2. ~(FindMatch(u) \/ Fallback(u) \/ Check(u) \/ CreateRoom(u))
      BY <1>1 DEF FindMatch, Fallback, Check, CreateRoom
    <3>3. ~Notify(u)
      BY <1>0 DEF Notify, UserTyped, ManType
    <3> QED BY <3>1, <3>2, <3>3, ManMoves
  <2>2. PICK r \in Room : r = user[u].room
    BY <1>1 DEF Notified
  <2>3. /\ Live(r) /\ room[r].user = u /\ room[r].bot = user[u].bot /\ user[u].key = r
        /\ ~Leaving(r) /\ \A b \in Bot : bot[b].chat # r
    BY <1>1, <2>2 DEF Notified
  <2>4. /\ room'[r] = room[r] /\ user'[u].key = r
        /\ Leaving(r)' => Leave(u) \/ \E S : Ends(S) /\ \E b \in S : bot[b].chat = r
    BY <2>1, <2>3, RoomStays
  <2>5. ~Leave(u)
    BY <1>1 DEF Leave, InTheirRoom
  <2>6. ~Leaving(r)'
    <3>1. ASSUME NEW S, Ends(S)
          PROVE  S \subseteq Bot
      BY <3>1, TypeParts, PoolIn DEF Ends, InChat
    <3> QED BY <2>3, <2>4, <2>5, <3>1
  <2>7. ASSUME NEW b \in Bot
        PROVE  bot'[b].chat # r
    <3>1. ASSUME NEW v \in User, Notify(v), bot'[b].chat = user[v].room
          PROVE  user[v].room # r
      <4>1. v # u
        BY <1>0, <3>1 DEF Notify, UserTyped, ManType
      <4>2. user[v].at = "notify"
        BY <3>1 DEF Notify
      <4> QED BY <2>3, <4>1, <4>2 DEF Notified
    <3>2. r # None
      BY Numbers
    <3> QED BY <1>0, <2>3, <3>1, <3>2, ChatMoves
  <2>8. user'[u].room = r /\ user'[u].bot = user[u].bot
    BY <2>1, <2>2 DEF Still
  <2>9. Live(r)'
    BY <2>3, <2>4 DEF Live
  <2> QED BY <2>3, <2>4, <2>6, <2>7, <2>8, <2>9 DEF Telling, Live, Leaving
<1>2. CASE user[u].at # "notify"
  <2>1. CreateRoom(u)
    <3>1. ~Still(u) /\ ~Released(u)
      BY <1>2 DEF Still, Released
    <3>2. ~FindMatch(u)
      <4> SUFFICES ASSUME FindMatch(u) PROVE FALSE
        OBVIOUS
      <4> QED BY FoundMoves
    <3>3. ~Fallback(u)
      BY <1>0 DEF Fallback, UserTyped, ManType
    <3>4. ~Check(u) /\ ~Notify(u)
      BY <1>0 DEF Check, Notify, UserTyped, ManType
    <3> QED BY <3>1, <3>2, <3>3, <3>4, ManMoves
  <2> DEFINE k == IF user[u].room # None THEN user[u].room ELSE First(New)
  <2>2. /\ user[u].at = "create" /\ (user[u].room = None => New # {})
        /\ room' = [room EXCEPT ![k] = [st |-> "live", user |-> u, bot |-> user[u].bot]]
        /\ user' = [user EXCEPT ![u].at = "notify", ![u].room = k, ![u].key = k]
        /\ bot' = [bot EXCEPT ![user[u].bot].key = k]
        /\ UNCHANGED tasks
    BY <2>1 DEF CreateRoom
  <2>3. k \in Room /\ room[k].st \in {"new", "claimed"}
    <3>1. New # {} => First(New) \in Room /\ room[First(New)].st = "new"
      <4>1. New \subseteq Nat
        BY Numbers DEF New
      <4>2. New # {} => First(New) \in New
        BY <4>1, FirstIsIn
      <4>3. \A x \in New : x \in Room /\ room[x].st = "new"
        BY DEF New
      <4> HIDE DEF New
      <4> QED BY <4>2, <4>3
    <3>2. user[u].room \in Room \cup {None}
      BY <1>0 DEF UserTyped, ManType
    <3>3. user[u].room # None => room[user[u].room].st = "claimed"
      BY <2>2 DEF Keys, ClaimHeld, Seeking
    <3> QED BY <2>2, <3>1, <3>2, <3>3
  <2> HIDE DEF k
  <2>4. PICK r \in Room : r = k
    BY <2>3
  <2>5. room'[r] = [st |-> "live", user |-> u, bot |-> user[u].bot]
    BY <1>0, <2>2, <2>4 DEF RoomTyped
  <2>6. user'[u].room = r /\ user'[u].key = r /\ user'[u].bot = user[u].bot
    BY <1>0, <2>2, <2>4 DEF UserTyped, ManType
  <2>7. ~Leaving(r)'
    <3> SUFFICES ASSUME Leaving(r)' PROVE FALSE
      OBVIOUS
    <3>1. PICK t \in tasks : \E i \in DOMAIN t : t[i].do = "delete" /\ t[i].room = r
      BY <2>2 DEF Leaving
    <3>2. PICK i \in DOMAIN t : t[i].do = "delete" /\ t[i].room = r
      BY <3>1
    <3>3. room[r].st \in {"live", "dead"}
      BY <3>2 DEF TasksFit, Fits, StepOK
    <3> QED BY <2>3, <2>4, <3>3
  <2>8. \A b \in Bot : bot'[b].chat # r
    <3>1. \A b \in Bot : bot'[b].chat = bot[b].chat
      BY <1>0, <2>2 DEF BotTyped, BotType
    <3>2. \A b \in Bot : bot[b].chat # r
      BY <2>3, <2>4, Numbers DEF Chats
    <3> QED BY <3>1, <3>2
  <2>9. Live(r)'
    BY <2>5, Numbers DEF Live
  <2> QED BY <2>5, <2>6, <2>7, <2>8, <2>9 DEF Telling, Live, Leaving
<1> QED BY <1>1, <1>2

LEMMA InTheirRoomNext ==
    ASSUME TypeOK, TasksFit, Keys, Notified, InTheirRoom, Chats, Next
    PROVE  InTheirRoom'
<1>0. UserTyped /\ RoomTyped /\ BotTyped
  BY TypeParts
<1> SUFFICES ASSUME NEW u \in User, user'[u].shown
             PROVE  /\ user'[u].at = "none"
                    /\ \E r \in Room : user'[u].key = r /\ Live(r)' /\ ~Leaving(r)'
  BY DEF InTheirRoom, Live, Leaving
<1>1. CASE Notify(u)
  <2>1. user[u].at = "notify" /\ UNCHANGED <<tasks, room>>
        /\ user' = [user EXCEPT ![u].at = "none", ![u].st = "active", ![u].shown = TRUE,
                                ![u].bot = None, ![u].room = None]
    BY <1>1 DEF Notify
  <2>2. PICK r \in Room : r = user[u].room /\ Live(r) /\ user[u].key = r /\ ~Leaving(r)
    BY <2>1 DEF Notified
  <2>3. user'[u].at = "none" /\ user'[u].key = r
    BY <1>0, <2>1, <2>2 DEF UserTyped, ManType
  <2>4. Live(r)' /\ ~Leaving(r)'
    BY <2>1, <2>2 DEF Live, Leaving
  <2> QED BY <2>3, <2>4
<1>2. CASE ~Notify(u)
  <2>2. user[u].shown \/ Still(u)
    <3>1. FindMatch(u) => (user'[u].shown <=> user[u].shown)
      BY FoundMoves
    <3>2. Fallback(u) => (user'[u].shown <=> user[u].shown)
      BY <1>0 DEF Fallback, UserTyped, ManType
    <3>3. Check(u) \/ CreateRoom(u) => (user'[u].shown <=> user[u].shown)
      BY <1>0 DEF Check, CreateRoom, UserTyped, ManType
    <3>4. Released(u) => (user'[u].shown <=> user[u].shown)
      BY DEF Released
    <3> QED BY <1>2, <3>1, <3>2, <3>3, <3>4, ManMoves
  <2>3. user[u].shown
    BY <2>2 DEF Still
  <2>4. user[u].at = "none" /\ Live(user[u].key) /\ ~Leaving(user[u].key)
    BY <2>3 DEF InTheirRoom
  <2>1. ~FindMatch(u)
    <3>1. user[u].st # "queue"
      BY <2>4 DEF Keys, Unpaired
    <3> QED BY <3>1 DEF FindMatch
  <2>5. Still(u)
    BY <1>2, <2>1, <2>4, ManMoves DEF Released, Fallback, Check, CreateRoom
  <2>6. PICK r \in Room : r = user[u].key /\ Live(r) /\ ~Leaving(r)
    <3>1. user[u].key \in Room \cup {None}
      BY <1>0 DEF UserTyped, ManType
    <3> QED BY <2>4, <3>1 DEF Live
  <2>7. room[r].user = u
    BY <2>6 DEF Keys, KeyHeld, Live
  <2>8. /\ room'[r] = room[r] /\ user'[u].key = r
        /\ Leaving(r)' => Leave(u) \/ \E S : Ends(S) /\ \E b \in S : bot[b].chat = r
    BY <2>5, <2>6, <2>7, RoomStays
  <2>9. ~Leave(u)
    BY <1>0 DEF Leave, UserTyped, ManType
  <2>10. ASSUME NEW S, Ends(S), NEW b \in S, bot[b].chat = r
         PROVE  FALSE
    <3>1. \E c \in S : room[bot[c].chat].user = u
      BY <2>7, <2>10
    <3>2. user'[u] = [user[u] EXCEPT !.shown = FALSE]
      BY <2>10, <3>1 DEF Ends, Told
    <3> QED BY <1>0, <2>3, <3>2 DEF UserTyped, ManType
  <2>11. Live(r)'
    BY <2>6, <2>8 DEF Live
  <2> QED BY <2>4, <2>5, <2>8, <2>9, <2>10, <2>11 DEF Still
<1> QED BY <1>1, <1>2

LEMMA ChatsNext ==
    ASSUME TypeOK, TasksFit, Keys, Notified, InTheirRoom, Chats, Next
    PROVE  Chats'
<1>0. /\ UserTyped /\ RoomTyped /\ BotTyped /\ ChatInPool /\ Lasts
      /\ \A t \in tasks : t # <<>> /\ Head(t) = t[1] /\ 1 \in DOMAIN t /\ DOMAIN t \subseteq Nat
  <2>1. \A t \in tasks : t \in Seq(Step) /\ t # <<>>
    BY TypeParts DEF TasksTyped, TasksFit, Fits, Sound
  <2>2. \A t \in tasks : Head(t) = t[1] /\ 1 \in DOMAIN t /\ DOMAIN t \subseteq Nat
    BY <2>1, TailOf
  <2> QED BY <2>1, <2>2, TypeParts, ViewsNext DEF Keys
<1> SUFFICES ASSUME NEW b \in Bot, NEW k \in Room, bot'[b].chat = k
             PROVE  /\ room'[k].st \in {"live", "dead"} /\ room'[k].bot = b
                    /\ Live(k)' \/ LeftDue(b)'
  <2>1. BotTyped'
    BY TypeParts, BotNext
  <2>2. \A b \in Bot : bot'[b].chat # None => bot'[b].chat \in Room
    BY <2>1 DEF BotTyped, BotType
  <2> QED BY <2>2 DEF Chats, Live, LeftDue
<1>1. k # None
  BY Numbers
<1>2. ASSUME NEW u \in User, Notify(u), user[u].bot = b, user[u].room = k
      PROVE  /\ room'[k].st \in {"live", "dead"} /\ room'[k].bot = b /\ Live(k)'
  BY <1>2 DEF Notify, Notified, Live
<1>3. CASE bot[b].chat = k
  <2>1. room[k].st \in {"live", "dead"} /\ room[k].bot = b /\ (Live(k) \/ LeftDue(b))
    BY <1>1, <1>3 DEF Chats
  <2>2. room'[k].st \in {"live", "dead"}
    BY <1>0, <2>1, TypeParts, RoomsAge DEF Keys
  <2>3. room'[k].bot = b
    BY <2>1, RoomSteps
  <2>4. ASSUME NEW t \in tasks, DeleteRoom(t), Head(t).room = k
        PROVE  LeftDue(b)
    <3>1. Deletes(t, 1, k)
      BY <1>0, <2>4 DEF DeleteRoom, Runs, Deletes
    <3>2. \E j \in DOMAIN t : 1 < j /\ Frees(t, j, b)
      BY <1>0, <1>1, <1>3, <3>1 DEF TasksFit, Fits, EndsWell
    <3> QED BY <3>2 DEF Frees, LeftDue
  <2>5. Live(k)' \/ LeftDue(b)
    BY <2>1, <2>4, RoomSteps DEF Live
  <2>6. ASSUME NEW t \in tasks, PartnerLeft(t), Head(t).bot = b
        PROVE  FALSE
    <3>1. b \in Pool
      BY <1>0, <1>1, <1>3 DEF ChatInPool
    <3>2. bot'[b].chat = None
      BY <1>0, <2>6, <3>1 DEF PartnerLeft, BotTyped, BotType
    <3> QED BY <1>1, <3>2
  <2>7. LeftDue(b) => LeftDue(b)'
    BY <1>0, <2>6 DEF Lasts
  <2> QED BY <2>2, <2>3, <2>5, <2>7
<1> QED BY <1>0, <1>1, <1>2, <1>3, ChatMoves

-----------------------------------------------------------------------------
(* What a step does to the flags, the map and one bot.                      *)

LEMMA FlagsStay ==
    ASSUME TypeOK, Next
    PROVE  ghost.odd \subseteq ghost'.odd
<1>0. GhostTyped
  BY TypeParts
<1>1. \A odd : Flag(odd) => ghost.odd \subseteq ghost'.odd
  BY <1>0 DEF Flag, GhostTyped
<1>2. ASSUME NEW u \in User, Join(u) \/ SendMessage(u)
      PROVE  ghost'.odd = ghost.odd
  BY <1>0, <1>2 DEF Join, SendMessage, GhostTyped
<1>3. ASSUME NEW todo, Request(todo)
      PROVE  ghost'.odd = ghost.odd
  <2>1. ghost' = [ghost EXCEPT !.busy = TRUE, !.switches = ghost.switches + 1]
    BY <1>3 DEF Request
  <2> QED BY <1>0, <2>1 DEF GhostTyped
<1>4. ASSUME NEW t \in tasks, Done(t)
      PROVE  ghost'.odd = ghost.odd
  BY <1>0, <1>4 DEF Done, GhostTyped
<1>5. ASSUME NEW u \in User, FindMatch(u) \/ Fallback(u)
      PROVE  ghost.odd \subseteq ghost'.odd
  <2>1. UNCHANGED ghost \/ \E odd : Flag(odd)
    BY <1>5 DEF FindMatch, Fallback, Taken
  <2> QED BY <1>1, <2>1
<1>6. ASSUME NEW m \in replies, ModelFails(m)
      PROVE  ghost.odd \subseteq ghost'.odd
  <2>1. \E odd : Flag(odd)
    BY <1>6 DEF ModelFails
  <2> QED BY <1>1, <2>1
<1>7. ASSUME NEW t \in tasks, Disable(t)
      PROVE  ghost.odd \subseteq ghost'.odd
  <2>1. UNCHANGED ghost \/ \E odd : Flag(odd)
    BY <1>7 DEF Disable
  <2> QED BY <1>1, <2>1
<1>8. \/ UNCHANGED ghost
      \/ \E u \in User : Join(u) \/ SendMessage(u) \/ FindMatch(u) \/ Fallback(u)
      \/ \E m \in replies : ModelFails(m)
      \/ \E t \in tasks : Disable(t) \/ Done(t)
      \/ \E todo : Request(todo)
  <2>1. UNCHANGED ghost \/ Tasks \/ Replies
        \/ (\E u \in User : Join(u) \/ SendMessage(u) \/ FindMatch(u) \/ Fallback(u))
        \/ \E todo : Request(todo)
    BY Zenon DEF Next, Attempt, Cancel, Check, CreateRoom, Notify, Leave,
           EnableBots, DisableBots, UpdateConfig
  <2>2. CASE Tasks
    BY <2>2 DEF Tasks, TaskStep, DeleteRoom, PartnerLeft, CheckQueue, AddToQueue, ReleaseClaim,
                Enable, AddBotsToQueue, Dequeue
  <2>3. CASE Replies
    BY <2>3 DEF Replies, AskModel, ModelAnswers
  <2> QED BY <2>1, <2>2, <2>3
<1> QED BY <1>2, <1>3, <1>4, <1>5, <1>6, <1>7, <1>8

LEMMA TidyBefore ==
    ASSUME TypeOK, Next, Tidy'
    PROVE  Tidy
BY FlagsStay DEF Tidy

\* The bots are disabled, and nothing is under way.
Clears ==
    /\ mgr' = Disabled /\ ~UnderWay /\ Ends(InChat) /\ Ending(InChat, {}) \subseteq tasks'
    /\ \A n \in tasks' : n \in tasks \/ (\E t \in tasks : n = Tail(t)) \/ n \in Ending(InChat, {})

LEMMA PoolKept ==
    ASSUME TypeOK, Off, Next, Tidy'
    PROVE  Pool \subseteq Pool' \/ Clears
<1>0. MgrTyped
  BY TypeParts
<1>1. CASE UNCHANGED mgr
  BY <1>1 DEF Pool
<1>2. ASSUME NEW u \in User, Fallback(u)
      PROVE  Pool \subseteq Pool'
  BY <1>0, <1>2 DEF Fallback, Pool, MgrTyped
<1>3. ASSUME NEW m \in replies, ModelAnswers(m)
      PROVE  Pool \subseteq Pool'
  BY <1>0, <1>3 DEF ModelAnswers, Pool, MgrTyped
<1>4. ASSUME NEW m \in replies, ModelFails(m)
      PROVE  Pool \subseteq Pool' \/ Clears
  <2>1. PICK S, back :
            /\ Ends(S) /\ tasks' = tasks \cup Ending(S, back)
            /\ \/ \E e \in Nat : mgr' = [mgr EXCEPT !.errors = e]
               \/ mgr' = Disabled /\ S = InChat /\ ~UnderWay /\ back = {}
    BY <1>4, FailsBy
  <2>2. CASE \E e \in Nat : mgr' = [mgr EXCEPT !.errors = e]
    BY <1>0, <2>2 DEF Pool, MgrTyped
  <2>3. CASE mgr' = Disabled /\ S = InChat /\ ~UnderWay /\ back = {}
    BY <2>1, <2>3 DEF Clears
  <2> QED BY <2>1, <2>2, <2>3
<1>5. ASSUME NEW t \in tasks, Enable(t)
      PROVE  Pool \subseteq Pool'
  BY <1>0, <1>5 DEF Enable, Pool, MgrTyped, Off
<1>6. ASSUME NEW t \in tasks, Disable(t)
      PROVE  Pool \subseteq Pool' \/ Clears
  <2>1. CASE UNCHANGED mgr
    BY <2>1 DEF Pool
  <2>2. CASE /\ Ends(InChat) /\ tasks' = (tasks \ {t}) \cup {Tail(t)} \cup Ending(InChat, {})
             /\ mgr' = Disabled /\ ~UnderWay
    BY <2>2 DEF Clears
  <2> QED BY <1>6, <2>1, <2>2, DisablesBy
<1>7. CASE UpdateConfig
  <2>1. PICK max \in 1..MaxBots :
            mgr' = [mgr EXCEPT !.max = max,
                               !.pool = IF mgr.enabled /\ @ < max THEN max ELSE @]
    BY <1>7 DEF UpdateConfig
  <2>2. mgr'.pool = IF mgr.enabled /\ mgr.pool < max THEN max ELSE mgr.pool
    BY <1>0, <2>1 DEF MgrTyped
  <2>3. mgr.pool \in Nat /\ max \in Nat
    BY <1>0, PoolIn
  <2> QED BY <2>2, <2>3 DEF Pool
<1> QED BY <1>1, <1>2, <1>3, <1>4, <1>5, <1>6, <1>7, MgrMoves

LEMMA QueueMoves ==
    ASSUME TypeOK, Next, NEW b \in Bot, bot'[b].queue > 0
    PROVE  bot[b].queue > 0 \/ \E t \in tasks : AddToQueue(t) /\ Head(t).bot = b
<1>0. BotTyped
  BY TypeParts
<1> USE DEF BotTyped, BotType
<1>1. CASE UNCHANGED bot
  BY <1>1
<1>2. ASSUME NEW u \in User, FindMatch(u)
      PROVE  bot[b].queue > 0
  <2> DEFINE k == First(New)
  <2>1. bot' = bot \/ \E c \in Bot :
            Claimable(c) /\ bot' = [bot EXCEPT ![c].queue = @ - 1, ![c].key = k]
    BY <1>2 DEF FindMatch
  <2> HIDE DEF k
  <2>2. ASSUME NEW c \in Bot, Claimable(c), bot' = [bot EXCEPT ![c].queue = @ - 1, ![c].key = k]
        PROVE  bot[b].queue > 0
    <3>1. CASE c = b
      BY <2>2, <3>1 DEF Claimable
    <3>2. CASE c # b
      <4>1. bot'[b] = bot[b]
        BY <1>0, <2>2, <3>2
      <4> QED BY <4>1
    <3> QED BY <3>1, <3>2
  <2> QED BY <2>1, <2>2
<1>3. ASSUME NEW u \in User, CreateRoom(u) \/ Notify(u)
      PROVE  bot'[b].queue = bot[b].queue
  BY <1>0, <1>3 DEF CreateRoom, Notify
<1>4. ASSUME NEW S, bot' = Freed(S)
      PROVE  bot'[b].queue = bot[b].queue
  BY <1>0, <1>4 DEF Freed
<1>5. ASSUME NEW m \in replies, ModelFails(m)
      PROVE  bot'[b].queue = bot[b].queue
  BY <1>4, <1>5 DEF ModelFails
<1>6. ASSUME NEW t \in tasks, Disable(t)
      PROVE  bot'[b].queue = bot[b].queue
  BY <1>4, <1>6 DEF Disable
<1>7. ASSUME NEW t \in tasks, DeleteRoom(t) \/ PartnerLeft(t) \/ ReleaseClaim(t)
      PROVE  bot'[b].queue = bot[b].queue
  <2>1. \/ bot' = bot
        \/ \E c, k : bot' = [bot EXCEPT ![c].key = k]
        \/ \E c, k : bot' = [bot EXCEPT ![c].chat = k]
    BY <1>7 DEF DeleteRoom, Deleted, PartnerLeft, ReleaseClaim
  <2>2. ASSUME NEW c, NEW k,
               bot' = [bot EXCEPT ![c].key = k] \/ bot' = [bot EXCEPT ![c].chat = k]
        PROVE  bot'[b].queue = bot[b].queue
    BY <1>0, <2>2
  <2> QED BY <2>1, <2>2
<1>8. ASSUME NEW t \in tasks, AddToQueue(t)
      PROVE  bot[b].queue > 0 \/ Head(t).bot = b
  BY <1>0, <1>8 DEF AddToQueue
<1>9. ASSUME NEW t \in tasks, Dequeue(t)
      PROVE  bot[b].queue > 0
  BY <1>0, <1>9 DEF Dequeue
<1> QED BY <1>1, <1>2, <1>3, <1>5, <1>6, <1>7, <1>8, <1>9, BotMoves

LEMMA KeyMoves ==
    ASSUME TypeOK, Next, NEW b \in Bot
    PROVE  \/ bot'[b].key = bot[b].key \/ bot[b].key = None
           \/ \E u \in User : CreateRoom(u) /\ user[u].bot = b
           \/ \E t \in tasks : DeleteRoom(t) /\ Live(Head(t).room) /\ room[Head(t).room].bot = b
           \/ \E t \in tasks : ReleaseClaim(t) /\ Head(t).bot = b
<1>0. BotTyped
  BY TypeParts
<1> USE DEF BotTyped, BotType
<1>1. CASE UNCHANGED bot
  BY <1>1
<1>2. ASSUME NEW u \in User, FindMatch(u)
      PROVE  bot'[b].key = bot[b].key \/ bot[b].key = None
  <2> DEFINE k == First(New)
  <2>1. bot' = bot \/ \E c \in Bot :
            Claimable(c) /\ bot' = [bot EXCEPT ![c].queue = @ - 1, ![c].key = k]
    BY <1>2 DEF FindMatch
  <2> HIDE DEF k
  <2>2. ASSUME NEW c \in Bot, Claimable(c), bot' = [bot EXCEPT ![c].queue = @ - 1, ![c].key = k]
        PROVE  bot'[b].key = bot[b].key \/ bot[b].key = None
    <3>1. CASE c = b
      BY <2>2, <3>1 DEF Claimable
    <3>2. CASE c # b
      BY <1>0, <2>2, <3>2
    <3> QED BY <3>1, <3>2
  <2> QED BY <2>1, <2>2
<1>3. ASSUME NEW u \in User, CreateRoom(u)
      PROVE  bot'[b].key = bot[b].key \/ user[u].bot = b
  BY <1>0, <1>3 DEF CreateRoom
<1>4. ASSUME NEW u \in User, Notify(u)
      PROVE  bot'[b].key = bot[b].key
  BY <1>0, <1>4 DEF Notify
<1>5. ASSUME NEW S, bot' = Freed(S)
      PROVE  bot'[b].key = bot[b].key
  BY <1>0, <1>5 DEF Freed
<1>6. ASSUME NEW m \in replies, ModelFails(m)
      PROVE  bot'[b].key = bot[b].key
  BY <1>5, <1>6 DEF ModelFails
<1>7. ASSUME NEW t \in tasks, Disable(t)
      PROVE  bot'[b].key = bot[b].key
  BY <1>5, <1>7 DEF Disable
<1>8. ASSUME NEW t \in tasks, PartnerLeft(t) \/ AddToQueue(t) \/ Dequeue(t)
      PROVE  bot'[b].key = bot[b].key
  <2>1. CASE PartnerLeft(t)
    BY <1>0, <2>1 DEF PartnerLeft
  <2>2. CASE AddToQueue(t) \/ Dequeue(t)
    <3>1. \E k : bot' = [bot EXCEPT ![Head(t).bot].queue = k]
      BY <2>2 DEF AddToQueue, Dequeue
    <3> QED BY <1>0, <3>1
  <2> QED BY <1>8, <2>1, <2>2
<1>9. ASSUME NEW t \in tasks, DeleteRoom(t)
      PROVE  bot'[b].key = bot[b].key \/ (Live(Head(t).room) /\ room[Head(t).room].bot = b)
  BY <1>0, <1>9 DEF DeleteRoom, Deleted
<1>10. ASSUME NEW t \in tasks, ReleaseClaim(t)
       PROVE  bot'[b].key = bot[b].key \/ Head(t).bot = b
  BY <1>0, <1>10 DEF ReleaseClaim
<1> QED BY <1>1, <1>2, <1>3, <1>4, <1>6, <1>7, <1>8, <1>9, <1>10, BotMoves

LEMMA ChatEnds ==
    ASSUME TypeOK, Next, NEW b \in Bot
    PROVE  \/ bot'[b].chat = bot[b].chat
           \/ \E u \in User : Notify(u) /\ user[u].bot = b
           \/ \E t \in tasks : PartnerLeft(t) /\ Head(t).bot = b
           \/ \E S, back : Ends(S) /\ b \in S /\ Ending(S, back) \subseteq tasks'
<1>0. BotTyped /\ MgrTyped
  BY TypeParts
<1> USE DEF BotTyped, BotType
<1>1. CASE UNCHANGED bot
  BY <1>1
<1>2. ASSUME NEW u \in User, FindMatch(u) \/ CreateRoom(u)
      PROVE  bot'[b].chat = bot[b].chat
  <2>1. CASE FindMatch(u)
    <3> DEFINE k == First(New)
    <3>1. bot' = bot \/ \E c \in Bot : bot' = [bot EXCEPT ![c].queue = @ - 1, ![c].key = k]
      BY <2>1 DEF FindMatch
    <3> HIDE DEF k
    <3>2. ASSUME NEW c \in Bot, bot' = [bot EXCEPT ![c].queue = @ - 1, ![c].key = k]
          PROVE  bot'[b].chat = bot[b].chat
      BY <1>0, <3>2
    <3> QED BY <3>1, <3>2
  <2>2. CASE CreateRoom(u)
    BY <1>0, <2>2 DEF CreateRoom
  <2> QED BY <1>2, <2>1, <2>2
<1>3. ASSUME NEW u \in User, Notify(u)
      PROVE  bot'[b].chat = bot[b].chat \/ user[u].bot = b
  BY <1>0, <1>3 DEF Notify
<1>4. ASSUME NEW S, bot' = Freed(S)
      PROVE  bot'[b].chat = bot[b].chat \/ b \in S
  BY <1>0, <1>4 DEF Freed
<1>5. ASSUME NEW m \in replies, ModelFails(m)
      PROVE  \/ bot'[b].chat = bot[b].chat
             \/ \E S, back : Ends(S) /\ b \in S /\ Ending(S, back) \subseteq tasks'
  <2>1. PICK S, back : Ends(S) /\ tasks' = tasks \cup Ending(S, back)
    BY <1>5, FailsBy
  <2>2. Ending(S, back) \subseteq tasks'
    BY <2>1
  <2>3. bot'[b].chat = bot[b].chat \/ b \in S
    BY <1>4, <2>1 DEF Ends
  <2> QED BY <2>1, <2>2, <2>3
<1>6. ASSUME NEW t \in tasks, Disable(t)
      PROVE  \/ bot'[b].chat = bot[b].chat
             \/ \E S, back : Ends(S) /\ b \in S /\ Ending(S, back) \subseteq tasks'
  <2>1. CASE UNCHANGED bot
    BY <2>1
  <2>2. CASE Ends(InChat) /\ tasks' = (tasks \ {t}) \cup {Tail(t)} \cup Ending(InChat, {})
    <3>1. Ending(InChat, {}) \subseteq tasks'
      BY <2>2
    <3>2. bot'[b].chat = bot[b].chat \/ b \in InChat
      BY <1>4, <2>2 DEF Ends
    <3> QED BY <2>2, <3>1, <3>2
  <2> QED BY <1>6, <2>1, <2>2, DisablesBy
<1>7. ASSUME NEW t \in tasks, DeleteRoom(t) \/ AddToQueue(t)
      PROVE  bot'[b].chat = bot[b].chat
  BY <1>0, <1>7 DEF DeleteRoom, Deleted, AddToQueue
<1>8. ASSUME NEW t \in tasks, ReleaseClaim(t) \/ Dequeue(t)
      PROVE  bot'[b].chat = bot[b].chat
  BY <1>0, <1>8 DEF ReleaseClaim, Dequeue
<1>9. ASSUME NEW t \in tasks, PartnerLeft(t)
      PROVE  bot'[b].chat = bot[b].chat \/ Head(t).bot = b
  BY <1>0, <1>9 DEF PartnerLeft
<1> QED BY <1>1, <1>2, <1>3, <1>5, <1>6, <1>7, <1>8, <1>9, BotMoves

\* An attempt that takes a bot takes one of the map that nobody has.
LEMMA PickMoves ==
    ASSUME TypeOK, Tidy', QueuedIsThere, NEW u \in User, FindMatch(u) \/ Fallback(u),
           NEW b, user'[u].bot = b, b # None, Next
    PROVE  /\ ~Held(b) /\ b \in Bot /\ b \in Pool' /\ UNCHANGED tasks
           /\ \A v \in User \ {u} : user'[v] = user[v]
<1>0. UserTyped /\ MgrTyped /\ GhostTyped /\ BotAtWork
  BY TypeParts
<1>1. \A c : Taken(c) => ~Held(c)
  <2>1. \A odd : Flag(odd) => ghost'.odd = ghost.odd \cup odd
    BY <1>0 DEF Flag, GhostTyped
  <2>2. ASSUME NEW c, Taken(c), Held(c)
        PROVE  FALSE
    <3>1. "shared" \in ghost'.odd
      BY <2>1, <2>2 DEF Taken
    <3> QED BY <3>1 DEF Tidy
  <2> QED BY <2>2
<1> USE DEF UserTyped, ManType
<1>2. CASE FindMatch(u)
  <2> DEFINE k == First(New)
  <2>1. \/ user' = [user EXCEPT ![u].at = "fallback"]
        \/ \E c \in Bot :
              /\ Claimable(c) /\ Taken(c)
              /\ user' = [user EXCEPT ![u].at = "check", ![u].bot = c, ![u].room = k, ![u].key = k]
    BY <1>2 DEF FindMatch
  <2> HIDE DEF k
  <2>2. user[u].bot = None
    BY <1>0, <1>2 DEF FindMatch, BotAtWork
  <2>3. ~(user' = [user EXCEPT ![u].at = "fallback"])
    BY <1>0, <2>2
  <2>4. PICK c \in Bot :
              /\ Claimable(c) /\ Taken(c)
              /\ user' = [user EXCEPT ![u].at = "check", ![u].bot = c, ![u].room = k, ![u].key = k]
    BY <2>1, <2>3
  <2>5. user' = [user EXCEPT ![u] =
                    [user[u] EXCEPT !.at = "check", !.bot = c, !.room = k, !.key = k]]
    BY <2>4
  <2>6. c = b /\ \A v \in User \ {u} : user'[v] = user[v]
    BY <1>0, <2>5
  <2>7. c \in Pool /\ UNCHANGED <<mgr, tasks>>
    BY <1>2, <2>4 DEF Claimable, QueuedIsThere, FindMatch
  <2> QED BY <1>1, <2>4, <2>6, <2>7 DEF Pool
<1>3. CASE Fallback(u)
  <2> DEFINE free == {c \in Pool : bot[c].chat = None}
             f == First(free)
  <2>0. free # {} => f \in Pool
    <3>1. free \subseteq Pool /\ free \subseteq Nat
      BY <1>0, PoolIn, Numbers
    <3> HIDE DEF free
    <3> QED BY <3>1, FirstIsIn
  <2>2. user[u].bot = None
    BY <1>0, <1>3 DEF Fallback, BotAtWork
  <2>1. \/ user' = [user EXCEPT ![u].at = "none"]
        \/ \E c : /\ Taken(c) /\ user' = [user EXCEPT ![u].at = "check", ![u].bot = c]
                  /\ \/ c \in Pool /\ UNCHANGED mgr
                     \/ c = mgr.pool + 1 /\ mgr' = [mgr EXCEPT !.pool = @ + 1]
    BY <1>3, <2>0 DEF Fallback
  <2>3. ~(user' = [user EXCEPT ![u].at = "none"])
    BY <1>0, <2>2
  <2>4. PICK c : /\ Taken(c) /\ user' = [user EXCEPT ![u].at = "check", ![u].bot = c]
                 /\ \/ c \in Pool /\ UNCHANGED mgr
                    \/ c = mgr.pool + 1 /\ mgr' = [mgr EXCEPT !.pool = @ + 1]
    BY <2>1, <2>3
  <2>5. c = b /\ \A v \in User \ {u} : user'[v] = user[v]
    BY <1>0, <2>4
  <2>6. c \in Pool'
    BY <1>0, <2>4 DEF Pool, MgrTyped
  <2>7. Pool' \subseteq Bot
    <3>1. MgrTyped'
      BY <1>0, MgrNext
    <3>2. mgr'.pool \in 0..MaxBots
      BY <3>1 DEF MgrTyped
    <3> QED BY <3>2, BotPoolAssumption DEF Pool, Bot
  <2>8. UNCHANGED tasks
    BY <1>3 DEF Fallback
  <2> QED BY <1>1, <2>4, <2>5, <2>6, <2>7, <2>8
<1> QED BY <1>2, <1>3

\* The bot of an attempt was its bot before, or has been taken now.
LEMMA BotPicked ==
    ASSUME TypeOK, TasksFit, Keys, Next, Tidy', QueuedIsThere, NEW u \in User,
           NEW b, user'[u].bot = b, b # None
    PROVE  \/ user[u].bot = b /\ (Seeking(u)' => Seeking(u))
           \/ /\ ~Held(b) /\ b \in Bot /\ b \in Pool' /\ UNCHANGED tasks
              /\ FindMatch(u) \/ Fallback(u)
              /\ \A v \in User \ {u} : user'[v] = user[v]
<1>0. UserTyped
  BY TypeParts
<1> USE DEF UserTyped, ManType
<1>1. CASE Still(u)
  BY <1>1 DEF Still, Seeking
<1>2. CASE Released(u)
  BY <1>2 DEF Released
<1>3. CASE FindMatch(u) \/ Fallback(u)
  BY <1>3, PickMoves
<1>4. CASE Check(u)
  BY <1>0, <1>4 DEF Check, Seeking
<1>5. CASE CreateRoom(u)
  BY <1>0, <1>5 DEF CreateRoom, Seeking
<1>6. CASE Notify(u)
  BY <1>0, <1>6 DEF Notify
<1> QED BY <1>1, <1>2, <1>3, <1>4, <1>5, <1>6, ManMoves

LEMMA CreateMoves ==
    ASSUME TypeOK, Keys, NEW u \in User, CreateRoom(u), NEW r, user'[u].room = r
    PROVE  /\ r \in Room /\ ~Live(r) /\ room'[r].bot = user[u].bot
           /\ user[u].at = "create" /\ Seeking(u) /\ user[u].bot \in Bot
           /\ user'[u].at = "notify" /\ user'[u].bot = user[u].bot
           /\ bot'[user[u].bot].key = r
           /\ UNCHANGED <<mgr, tasks>>
           /\ \A s \in Room \ {r} : room'[s] = room[s]
           /\ \A v \in User \ {u} : user'[v] = user[v]
<1>0. UserTyped /\ RoomTyped /\ BotTyped /\ BotAtWork
  BY TypeParts
<1> DEFINE k == IF user[u].room # None THEN user[u].room ELSE First(New)
<1>1. /\ user[u].at = "create" /\ (user[u].room = None => New # {})
      /\ room' = [room EXCEPT ![k] = [st |-> "live", user |-> u, bot |-> user[u].bot]]
      /\ user' = [user EXCEPT ![u].at = "notify", ![u].room = k, ![u].key = k]
      /\ bot' = [bot EXCEPT ![user[u].bot].key = k]
      /\ UNCHANGED <<mgr, tasks>>
  BY DEF CreateRoom
<1>2. k \in Room /\ room[k].st \in {"new", "claimed"}
  <2>1. New # {} => First(New) \in Room /\ room[First(New)].st = "new"
    <3>1. New \subseteq Nat
      BY Numbers DEF New
    <3>2. New # {} => First(New) \in New
      BY <3>1, FirstIsIn
    <3>3. \A x \in New : x \in Room /\ room[x].st = "new"
      BY DEF New
    <3> HIDE DEF New
    <3> QED BY <3>2, <3>3
  <2>2. user[u].room \in Room \cup {None}
    BY <1>0 DEF UserTyped, ManType
  <2>3. user[u].room # None => room[user[u].room].st = "claimed"
    BY <1>1 DEF Keys, ClaimHeld, Seeking
  <2> QED BY <1>1, <2>1, <2>2, <2>3
<1>3. user[u].bot \in Bot
  <2>1. user[u].bot # None /\ user[u].bot \in Bot \cup {None}
    BY <1>0, <1>1 DEF BotAtWork, UserTyped, ManType
  <2> QED BY <2>1
<1> HIDE DEF k
<1>4. r = k /\ r \in Room
  BY <1>0, <1>1, <1>2 DEF UserTyped, ManType
<1>5. /\ room'[r].bot = user[u].bot
      /\ \A s \in Room \ {r} : room'[s] = room[s]
  BY <1>0, <1>1, <1>4 DEF RoomTyped
<1>6. /\ user'[u].at = "notify" /\ user'[u].bot = user[u].bot
      /\ \A v \in User \ {u} : user'[v] = user[v]
  BY <1>0, <1>1, <1>4 DEF UserTyped, ManType
<1>7. bot'[user[u].bot].key = r
  BY <1>0, <1>1, <1>3, <1>4 DEF BotTyped, BotType
<1>8. ~Live(r) /\ Seeking(u)
  BY <1>1, <1>2, <1>4 DEF Live, Seeking
<1> QED BY <1>1, <1>3, <1>4, <1>5, <1>6, <1>7, <1>8

-----------------------------------------------------------------------------
(* As long as no bot is taken twice and no step outlives a disable.         *)

Story == TypeOK /\ TasksFit /\ Keys /\ Notified /\ InTheirRoom /\ Chats /\ Off
Orderly == OneBot /\ OneRoom /\ TakenIsFree /\ LeftIsLeaving /\ QueuedIsThere /\ Known

LEMMA NotHeld ==
    ASSUME NEW b, ~Held(b)
    PROVE  /\ bot[b].chat = None /\ ~LeftDue(b) /\ \A u \in User : user[u].bot # b
           /\ \A r \in Room : Live(r) => room[r].bot # b
BY DEF Held, LeftDue

LEMMA OneBotNext ==
    ASSUME Story, Orderly, Next, Tidy'
    PROVE  OneBot'
<1> SUFFICES ASSUME NEW u \in User, NEW v \in User, NEW b,
                    user'[u].bot = b, user'[v].bot = b, b # None, u # v
             PROVE  FALSE
  BY DEF OneBot
<1>0. TypeOK /\ TasksFit /\ Keys /\ QueuedIsThere
  BY DEF Story, Orderly
<1>1. ASSUME NEW x \in User, NEW y \in User, x # y,
             user'[x].bot = b, user'[y].bot = b, user[x].bot # b
      PROVE  FALSE
  <2>1. ~Held(b) /\ \A w \in User \ {x} : user'[w] = user[w]
    BY <1>0, <1>1, BotPicked
  <2>2. user[y].bot = b
    BY <1>1, <2>1
  <2> QED BY <2>1, <2>2, NotHeld
<1>2. user[u].bot = b /\ user[v].bot = b
  BY <1>1
<1> QED BY <1>2 DEF Orderly, OneBot

LEMMA OneRoomNext ==
    ASSUME Story, Orderly, Next
    PROVE  OneRoom'
<1> SUFFICES ASSUME NEW r \in Room, NEW s \in Room, Live(r)', Live(s)', room'[r].bot = room'[s].bot,
                    r # s
             PROVE  FALSE
  BY DEF OneRoom, Live
<1>0. TypeOK /\ TasksFit /\ Keys
  BY DEF Story
<1>1. \A q \in Room : Live(q) => room'[q].bot = room[q].bot
  BY <1>0, RoomSteps DEF Live
<1>2. ASSUME NEW x \in Room, NEW y \in Room, x # y, Live(x)', Live(y)', room'[x].bot = room'[y].bot,
             ~Live(x)
      PROVE  FALSE
  <2>1. PICK u \in User : CreateRoom(u) /\ user'[u].room = x
    BY <1>0, <1>2, RoomSteps
  <2>2. /\ Seeking(u) /\ user[u].bot \in Bot /\ room'[x].bot = user[u].bot
        /\ room'[y] = room[y]
    BY <1>0, <1>2, <2>1, CreateMoves
  <2>3. Live(y) /\ room[y].bot = user[u].bot
    BY <1>2, <2>2 DEF Live
  <2> QED BY <2>2, <2>3, Numbers DEF Orderly, TakenIsFree
<1>3. Live(r) /\ Live(s)
  BY <1>2
<1> QED BY <1>1, <1>3 DEF Orderly, OneRoom

LEMMA TakenIsFreeNext ==
    ASSUME Story, Orderly, Next, Tidy'
    PROVE  TakenIsFree'
<1>0. /\ TypeOK /\ TasksFit /\ Keys /\ QueuedIsThere /\ Notified /\ InTheirRoom /\ Off /\ RoomTaken
      /\ UserTyped /\ BotTyped /\ BotAtWork
  BY TypeParts DEF Story, Orderly, Keys
<1> SUFFICES ASSUME NEW u \in User, NEW b, user'[u].bot = b, b # None
             PROVE  /\ b \in Pool' /\ bot'[b].chat = None /\ ~LeftDue(b)'
                    /\ Seeking(u)' => \A r \in Room : Live(r)' => room'[r].bot # b
  BY DEF TakenIsFree, LeftDue, Live
<1>r. ASSUME NEW r \in Room, Live(r)', Live(r)
      PROVE  room'[r].bot = room[r].bot
  BY <1>0, <1>r, RoomSteps DEF Live
<1>1. ASSUME ~Held(b), b \in Bot, b \in Pool', UNCHANGED tasks, FindMatch(u) \/ Fallback(u)
      PROVE  /\ b \in Pool' /\ bot'[b].chat = None /\ ~LeftDue(b)'
             /\ \A r \in Room : Live(r)' => room'[r].bot # b
  <2>1. /\ bot[b].chat = None /\ ~LeftDue(b) /\ \A v \in User : user[v].bot # b
        /\ \A r \in Room : Live(r) => room[r].bot # b
    BY <1>1, NotHeld
  <2>2. bot'[b].chat = None
    BY <1>0, <1>1, <2>1, ChatMoves
  <2>3. ~LeftDue(b)'
    BY <1>1, <2>1 DEF LeftDue
  <2>4. ASSUME NEW v \in User, CreateRoom(v)
        PROVE  FALSE
    <3>1. user[v].at = "create" /\ user'[v].at = "notify"
      <4>1. PICK r : r = user'[v].room
        OBVIOUS
      <4> QED BY <1>0, <2>4, <4>1, CreateMoves
    <3>2. user[u].at \in {"none", "fallback"}
      BY <1>1 DEF FindMatch, Fallback
    <3>3. u # v
      BY <3>1, <3>2
    <3>4. user'[v] = user[v]
      BY <1>0, <1>1, <2>1, <3>3, BotPicked
    <3> QED BY <3>1, <3>4
  <2>5. \A r \in Room : Live(r)' => Live(r)
    BY <1>0, <2>4, RoomSteps
  <2> QED BY <1>r, <1>1, <2>1, <2>2, <2>3, <2>5
<1>2. ASSUME user[u].bot = b, Seeking(u)' => Seeking(u)
      PROVE  /\ b \in Pool' /\ bot'[b].chat = None /\ ~LeftDue(b)'
             /\ Seeking(u)' => \A r \in Room : Live(r)' => room'[r].bot # b
  <2>1. /\ b \in Pool /\ bot[b].chat = None /\ ~LeftDue(b)
        /\ Seeking(u) => \A r \in Room : Live(r) => room[r].bot # b
    BY <1>2 DEF Orderly, TakenIsFree
  <2>2. b \in Bot
    BY <1>0, <2>1, TypeParts, PoolIn
  <2>3. b \in Pool'
    <3>1. ~Clears
      BY <1>2 DEF Clears, UnderWay
    <3> QED BY <1>0, <2>1, <3>1, PoolKept
  <2>4. bot'[b].chat = None
    <3>1. ASSUME NEW v \in User, Notify(v), user[v].bot = b
          PROVE  FALSE
      <4>1. v = u
        BY <1>2, <3>1 DEF Orderly, OneBot
      <4>2. user'[u].bot = None
        BY <1>0, <3>1, <4>1 DEF Notify, UserTyped, ManType
      <4> QED BY <4>2
    <3> QED BY <1>0, <2>1, <2>2, <3>1, ChatMoves
  <2>5. ~LeftDue(b)'
    <3>1. ASSUME NEW v \in User, Leave(v), room[user[v].key].bot = b
          PROVE  FALSE
      <4>1. PICK r \in Room : r = user[v].key /\ Live(r) /\ room[r].bot = b
        BY <1>0, <3>1, LeftLeaving
      <4>2. ~Seeking(u)
        BY <2>1, <4>1
      <4>3. user[u].at = "notify"
        BY <1>0, <1>2, <4>2 DEF BotAtWork, Seeking
      <4>4. PICK s \in Room : /\ s = user[u].room /\ Live(s) /\ room[s].user = u /\ room[s].bot = b
        BY <1>2, <4>3 DEF Story, Notified
      <4>5. r = s
        BY <4>1, <4>4 DEF Orderly, OneRoom
      <4>6. room[r].user = v
        BY <1>0, <4>1 DEF Keys, KeyHeld, Live
      <4>7. v = u
        BY <4>4, <4>5, <4>6
      <4> QED BY <1>0, <3>1, <4>3, <4>7 DEF Leave, InTheirRoom
    <3>2. Grows
      BY <1>0, ViewsNext
    <3> QED BY <2>1, <2>2, <3>1, <3>2 DEF Grows
  <2>6. ASSUME Seeking(u)', NEW r \in Room, Live(r)'
        PROVE  room'[r].bot # b
    <3>1. CASE Live(r)
      BY <1>r, <1>2, <2>1, <2>6, <3>1
    <3>2. CASE ~Live(r)
      <4>1. PICK v \in User : CreateRoom(v) /\ user'[v].room = r
        BY <1>0, <2>6, <3>2, RoomSteps
      <4>2. room'[r].bot = user[v].bot /\ user'[v].at = "notify" /\ user[v].bot \in Bot
        BY <1>0, <4>1, CreateMoves
      <4>3. v # u
        BY <2>6, <4>2 DEF Seeking
      <4>4. user[v].bot # b
        BY <1>2, <4>3 DEF Orderly, OneBot
      <4> QED BY <4>1, <4>2, <4>4
    <3> QED BY <3>1, <3>2
  <2> QED BY <2>3, <2>4, <2>5, <2>6
<1> QED BY <1>0, <1>1, <1>2, BotPicked

LEMMA LeftIsLeavingNext ==
    ASSUME Story, Orderly, Next
    PROVE  LeftIsLeaving'
<1>0. /\ TypeOK /\ TasksFit /\ Keys /\ RoomTaken /\ RoomTyped
  BY TypeParts DEF Story, Keys
<1> SUFFICES ASSUME NEW r \in Room, Live(r)', NEW b, room'[r].bot = b, LeftDue(b)'
             PROVE  Leaving(r)'
  BY DEF LeftIsLeaving, Live, LeftDue, Leaving
<1>1. Grows /\ Lasts
  BY <1>0, ViewsNext
<1>2. CASE ~Live(r)
  <2>1. PICK u \in User : CreateRoom(u) /\ user'[u].room = r
    BY <1>0, <1>2, RoomSteps
  <2>2. user[u].bot = b /\ b \in Bot /\ UNCHANGED tasks
    BY <1>0, <2>1, CreateMoves
  <2>3. LeftDue(b)
    BY <2>2 DEF LeftDue
  <2> QED BY <2>2, <2>3, Numbers DEF Orderly, TakenIsFree
<1>3. CASE Live(r)
  <2>1. room[r].bot = b /\ b \in Bot
    BY <1>0, <1>3, RoomSteps DEF Live, RoomTaken
  <2>2. CASE LeftDue(b)
    <3>1. Leaving(r)
      BY <1>3, <2>1, <2>2 DEF Orderly, LeftIsLeaving
    <3>2. ASSUME NEW t \in tasks, DeleteRoom(t), Head(t).room = r
          PROVE  FALSE
      <4>1. room' = [room EXCEPT ![r].st = "dead"]
        BY <1>3, <3>2 DEF DeleteRoom, Deleted
      <4> QED BY <1>0, <4>1 DEF Live, RoomTyped, RoomType
    <3> QED BY <1>1, <3>1, <3>2 DEF Lasts
  <2>3. CASE ~LeftDue(b)
    <3>1. PICK u \in User : Leave(u) /\ room[user[u].key].bot = b
      BY <1>1, <2>1, <2>3 DEF Grows
    <3>2. Live(user[u].key) /\ user[u].key \in Room
      BY <1>0, <3>1, LeftLeaving
    <3>3. user[u].key = r
      BY <1>3, <2>1, <3>1, <3>2 DEF Orderly, OneRoom
    <3> QED BY <1>0, <3>1, <3>3, LeftLeaving
  <2> QED BY <2>2, <2>3
<1> QED BY <1>2, <1>3

LEMMA KnownNext ==
    ASSUME Story, Orderly, Next, Tidy'
    PROVE  Known'
<1>0. /\ TypeOK /\ TasksFit /\ Keys /\ RoomTaken /\ RoomTyped /\ UserTyped /\ BotTyped
      /\ Notified /\ Off /\ MgrTyped
      /\ \A t \in tasks : t # <<>> /\ Head(t) = t[1] /\ 1 \in DOMAIN t /\ StepOK(Head(t))
  <2>1. TypeOK /\ TasksFit /\ Keys /\ Notified /\ Off
    BY DEF Story
  <2>2. \A t \in tasks : t \in Seq(Step) /\ t # <<>> /\ Fits(t)
    BY <2>1, TypeParts DEF TasksTyped, TasksFit, Fits, Sound
  <2>3. \A t \in tasks : Head(t) = t[1] /\ 1 \in DOMAIN t
    BY <2>2, TailOf
  <2> QED BY <2>1, <2>2, <2>3, TypeParts DEF Keys, Fits
<1> SUFFICES ASSUME NEW r \in Room, Live(r)', ~Leaving(r)', NEW b, room'[r].bot = b
             PROVE  /\ b \in Pool' /\ bot'[b].key = r
                    /\ \/ bot'[b].chat = r
                       \/ \E u \in User : user'[u].at = "notify" /\ user'[u].room = r
  BY DEF Known, Live, Leaving
<1>1. CASE ~Live(r)
  <2>1. PICK u \in User : CreateRoom(u) /\ user'[u].room = r
    BY <1>0, <1>1, RoomSteps
  <2>2. /\ user[u].bot = b /\ b \in Bot /\ UNCHANGED mgr /\ user'[u].at = "notify"
        /\ bot'[b].key = r
    BY <1>0, <2>1, CreateMoves
  <2>3. b \in Pool'
    BY <2>2, Numbers DEF Orderly, TakenIsFree, Pool
  <2> QED BY <2>1, <2>2, <2>3
<1>2. CASE Live(r)
  <2>1. room[r].bot = b /\ b \in Bot
    BY <1>0, <1>2, RoomSteps DEF Live, RoomTaken
  <2>2. ASSUME NEW t \in tasks, DeleteRoom(t), Head(t).room = r
        PROVE  FALSE
    <3>1. room' = [room EXCEPT ![r].st = "dead"]
      BY <1>2, <2>2 DEF DeleteRoom, Deleted
    <3> QED BY <1>0, <3>1 DEF Live, RoomTyped, RoomType
  <2>3. ~Leaving(r)
    <3>1. Lasts
      BY <1>0, ViewsNext
    <3> QED BY <2>2, <3>1 DEF Lasts
  <2>4. /\ b \in Pool /\ bot[b].key = r
        /\ \/ bot[b].chat = r
           \/ \E u \in User : user[u].at = "notify" /\ user[u].room = r
    BY <1>2, <2>1, <2>3 DEF Orderly, Known
  <2>5. ASSUME NEW u \in User, user[u].at = "notify", user[u].room = r
        PROVE  user[u].bot = b
    BY <2>1, <2>5 DEF Story, Notified
  <2>6. ASSUME NEW S, NEW back, Ends(S), Ending(S, back) \subseteq tasks', b \in S, bot[b].chat = r
        PROVE  FALSE
    BY <2>6, EndedLeaving
  <2>7. b \in Pool'
    <3>1. ASSUME Clears
          PROVE  FALSE
      <4>1. \A u \in User : user[u].bot = None
        BY <3>1 DEF Clears, UnderWay
      <4>2. bot[b].chat = r
        BY <2>1, <2>4, <2>5, <4>1, Numbers
      <4>3. b \in InChat
        BY <2>4, <4>2, Numbers DEF InChat
      <4> QED BY <2>6, <3>1, <4>2, <4>3 DEF Clears
    <3> QED BY <1>0, <2>4, <3>1, PoolKept
  <2>8. bot'[b].key = r
    <3>1. bot[b].key # None
      BY <2>4, Numbers
    <3>2. ASSUME NEW u \in User, Seeking(u), user[u].bot = b
          PROVE  FALSE
      BY <1>2, <2>1, <3>2, Numbers DEF Orderly, TakenIsFree
    <3>3. ASSUME NEW u \in User, CreateRoom(u), user[u].bot = b
          PROVE  FALSE
      BY <3>2, <3>3 DEF CreateRoom, Seeking
    <3>4. ASSUME NEW t \in tasks, DeleteRoom(t), Live(Head(t).room), room[Head(t).room].bot = b
          PROVE  FALSE
      <4>1. Head(t).room \in Room
        BY <1>0, <3>4 DEF DeleteRoom, Runs, StepOK
      <4>2. Head(t).room = r
        BY <1>2, <2>1, <3>4, <4>1 DEF Orderly, OneRoom
      <4> QED BY <2>2, <3>4, <4>2
    <3>5. ASSUME NEW t \in tasks, ReleaseClaim(t), Head(t).bot = b
          PROVE  FALSE
      <4>1. /\ Head(t).user \in User /\ user[Head(t).user].at = "abort"
            /\ user[Head(t).user].bot = b
        BY <1>0, <3>5 DEF ReleaseClaim, Runs, StepOK
      <4>2. PICK u \in User : u = Head(t).user
        BY <4>1
      <4> QED BY <3>2, <4>1, <4>2 DEF Seeking
    <3> QED BY <1>0, <2>1, <2>4, <3>1, <3>3, <3>4, <3>5, KeyMoves
  <2>9. CASE bot[b].chat = r
    <3>1. r # None
      BY Numbers
    <3>2. ASSUME NEW u \in User, Notify(u), user[u].bot = b
          PROVE  FALSE
      BY <2>1, <2>9, <3>1, <3>2, Numbers DEF Orderly, TakenIsFree
    <3>3. ASSUME NEW t \in tasks, PartnerLeft(t), Head(t).bot = b
          PROVE  FALSE
      <4>1. LeftDue(b)
        BY <1>0, <3>3 DEF PartnerLeft, Runs, LeftDue
      <4> QED BY <1>2, <2>1, <2>3, <4>1 DEF Orderly, LeftIsLeaving
    <3> QED BY <1>0, <2>1, <2>6, <2>7, <2>8, <2>9, <3>2, <3>3, ChatEnds
  <2>10. ASSUME NEW u \in User, user[u].at = "notify", user[u].room = r
         PROVE  \/ bot'[b].chat = r
                \/ \E v \in User : user'[v].at = "notify" /\ user'[v].room = r
    <3>1. user[u].bot = b
      BY <2>5, <2>10
    <3>2. CASE Notify(u)
      <4>1. bot' = [bot EXCEPT ![b].chat = r]
        BY <2>4, <2>10, <3>1, <3>2 DEF Notify
      <4> QED BY <1>0, <2>1, <4>1 DEF BotTyped, BotType
    <3>3. CASE ~Notify(u)
      <4>1. Still(u)
        BY <1>0, <2>10, <3>3, ManMoves DEF Released, FindMatch, Fallback, Check, CreateRoom
      <4> QED BY <2>10, <4>1 DEF Still
    <3> QED BY <3>2, <3>3
  <2> QED BY <2>4, <2>7, <2>8, <2>9, <2>10
<1> QED BY <1>1, <1>2

-----------------------------------------------------------------------------
(* Only bots of the map are put into the queue.                             *)

\* Whatever n puts into the queue is of P, or is looked for in the map before.
Sought(n, P) ==
    \A i \in DOMAIN n : n[i].do \in {"check", "add"} =>
        n[i].bot \in P \/ \E j \in DOMAIN n : j < i /\ Frees(n, j, n[i].bot)

LEMMA QueuesAre ==
    ASSUME NEW P
    PROVE  /\ P = Pool => \A n : Queues(n) <=> Sought(n, P)
           /\ P = Pool' => \A n : Queues(n)' <=> Sought(n, P)
BY DEF Queues, Sought, Frees

LEMMA SoughtMore ==
    ASSUME NEW P, NEW Q, P \subseteq Q, NEW n, Sought(n, P)
    PROVE  Sought(n, Q)
BY DEF Sought

LEMMA SoughtTail ==
    ASSUME NEW P, NEW t \in Seq(Step), t # <<>>, Sought(t, P), NEW r, r = Tail(t),
           Head(t).do = "left" => Head(t).bot \in P
    PROVE  Sought(r, P)
<1>1. /\ Head(t) = t[1] /\ DOMAIN t \subseteq Nat
      /\ \A i \in DOMAIN r : i \in Nat /\ i + 1 \in DOMAIN t /\ r[i] = t[i + 1]
      /\ \A i \in DOMAIN t : i # 1 => i - 1 \in DOMAIN r /\ t[i] = r[i - 1]
  BY TailOf
<1> SUFFICES ASSUME NEW i \in DOMAIN r, r[i].do \in {"check", "add"}, r[i].bot \notin P
             PROVE  \E j \in DOMAIN r : j < i /\ Frees(r, j, r[i].bot)
  BY DEF Sought
<1>2. i \in Nat /\ i + 1 \in DOMAIN t /\ r[i] = t[i + 1]
  BY <1>1
<1>3. PICK j \in DOMAIN t : j < i + 1 /\ Frees(t, j, t[i + 1].bot)
  BY <1>2 DEF Sought
<1>4. t[j].do = "left" /\ t[j].bot = r[i].bot
  BY <1>2, <1>3 DEF Frees
<1>5. j # 1
  BY <1>1, <1>4
<1>6. j - 1 \in DOMAIN r /\ t[j] = r[j - 1]
  BY <1>1, <1>5
<1>7. j - 1 < i
  BY <1>1, <1>2, <1>3
<1> QED BY <1>4, <1>6, <1>7 DEF Frees

LEMMA SoughtPut ==
    ASSUME NEW P, NEW s \in Step, s.do = "add" => s.bot \in P, s.do # "check",
           NEW r \in Seq(Step), Sought(r, P), NEW n, n = <<s>> \o r
    PROVE  Sought(n, P)
<1>1. /\ DOMAIN r = 1..Len(r) /\ Len(r) \in Nat
      /\ \A i \in DOMAIN n : (i = 1 /\ n[i] = s) \/ (i > 1 /\ i - 1 \in DOMAIN r /\ n[i] = r[i - 1])
      /\ \A i \in DOMAIN r : i + 1 \in DOMAIN n /\ n[i + 1] = r[i]
      /\ DOMAIN n \subseteq Nat
  <2>1. <<s>> \in Seq(Step) /\ Len(<<s>>) = 1 /\ DOMAIN <<s>> = {1} /\ <<s>>[1] = s
    OBVIOUS
  <2>2. Len(r) \in Nat /\ DOMAIN r = 1..Len(r)
    OBVIOUS
  <2> QED BY <2>1, <2>2, JoinIs
<1> SUFFICES ASSUME NEW i \in DOMAIN n, n[i].do \in {"check", "add"}, n[i].bot \notin P
             PROVE  \E j \in DOMAIN n : j < i /\ Frees(n, j, n[i].bot)
  BY DEF Sought
<1>2. i > 1 /\ i - 1 \in DOMAIN r /\ n[i] = r[i - 1] /\ i \in Nat
  BY <1>1
<1>3. PICK j \in DOMAIN r : j < i - 1 /\ Frees(r, j, n[i].bot)
  BY <1>2 DEF Sought
<1>4. j + 1 \in DOMAIN n /\ n[j + 1] = r[j]
  BY <1>1
<1>5. j + 1 < i
  BY <1>1, <1>2, <1>3
<1> QED BY <1>3, <1>4, <1>5 DEF Frees

LEMMA TwoSteps ==
    ASSUME NEW a, NEW b, NEW n, n = <<a, b>>
    PROVE  DOMAIN n = {1, 2} /\ n[1] = a /\ n[2] = b
OBVIOUS

LEMMA ThreeSteps ==
    ASSUME NEW a, NEW b, NEW c, NEW n, n = <<a, b, c>>
    PROVE  DOMAIN n = {1, 2, 3} /\ n[1] = a /\ n[2] = b /\ n[3] = c
OBVIOUS

\* What a step adds to the tasks, or leaves of one.
LEMMA QueuedFirst ==
    ASSUME NEW P, NEW c, NEW s, c.bot \in P, s.do \notin {"check", "add"}, NEW n, n = <<c, s>>
    PROVE  Sought(n, P)
<1>1. DOMAIN n = {1, 2} /\ n[1] = c /\ n[2] = s
  BY TwoSteps
<1> QED BY <1>1 DEF Sought

LEMMA CheckSought ==
    ASSUME NEW P, NEW b, b \in P, NEW s, s.do = "release", NEW n, n = Requeue(b) \o <<s>>
    PROVE  Sought(n, P)
<1>1. PICK c : c = Do("check", b, None)
  OBVIOUS
<1>2. n = <<c, s>> /\ c.bot = b
  BY <1>1, Tuples DEF Requeue, Do
<1> QED BY <1>2, QueuedFirst

LEMMA FreedBefore ==
    ASSUME NEW P, NEW d, NEW l, NEW c, d.do = "delete", l.do = "left", l.bot = c.bot,
           NEW n, n = <<d, l, c>>
    PROVE  Sought(n, P)
<1>1. DOMAIN n = {1, 2, 3} /\ n[1] = d /\ n[2] = l /\ n[3] = c
  BY ThreeSteps
<1>2. 2 < 3
  OBVIOUS
<1> QED BY <1>1, <1>2 DEF Sought, Frees

LEMMA LeaveSought ==
    ASSUME NEW P, NEW r \in Room, NEW b \in Bot,
           NEW n, n = <<Do("delete", None, r)>> \o AfterLeave(b)
    PROVE  Sought(n, P)
<1>1. PICK d, l, c : /\ d = Do("delete", None, r) /\ l = Do("left", b, None)
                     /\ c = Do("check", b, None)
  OBVIOUS
<1>2. /\ d.do = "delete" /\ l.do = "left" /\ l.bot = b /\ c.do = "check" /\ c.bot = b
  BY <1>1 DEF Do
<1>3. n = <<d, l, c>>
  BY <1>1, LeaveShape
<1> QED BY <1>2, <1>3, FreedBefore

LEMMA EndingSought ==
    ASSUME NEW P, NEW S, NEW back, S \cap back \subseteq P, NEW n \in Ending(S, back)
    PROVE  Sought(n, P)
<1>1. PICK b \in S : \/ n = <<Do("delete", None, bot[b].chat)>> /\ b \notin back
                     \/ n = <<Do("check", b, None), Do("delete", None, bot[b].chat)>> /\ b \in back
  BY EndingShape
<1>2. PICK d, c : d = Do("delete", None, bot[b].chat) /\ c = Do("check", b, None)
  OBVIOUS
<1>3. d.do = "delete" /\ c.bot = b
  BY <1>2 DEF Do
<1>4. CASE n = <<d>>
  <2>1. \A i \in DOMAIN n : n[i] = d
    BY <1>4
  <2> QED BY <1>3, <2>1 DEF Sought
<1>5. CASE n = <<c, d>> /\ b \in P
  <2>1. \A i \in DOMAIN n : n[i] = d \/ n[i] = c
    BY <1>5
  <2> QED BY <1>3, <1>5, <2>1 DEF Sought
<1> QED BY <1>1, <1>2, <1>4, <1>5

LEMMA QuietSought ==
    ASSUME NEW P, Pool \subseteq P, NEW n, Quiet(n)
    PROVE  Sought(n, P)
BY DEF Quiet, Sought

LEMMA QueuesNext ==
    ASSUME Story, Orderly, Next, NEW P, P = Pool', Pool \subseteq P
    PROVE  \A n \in tasks' : Sought(n, P)
<1>0. /\ TypeOK /\ TasksFit /\ RoomTaken /\ UserTyped /\ MgrTyped /\ BotTyped
      /\ \A t \in tasks : t \in Seq(Step) /\ t # <<>> /\ Fits(t) /\ Head(t) = t[1] /\ 1 \in DOMAIN t
                          /\ Tail(t) \in Seq(Step) /\ StepOK(Head(t))
  <2>1. TypeOK /\ TasksFit /\ Keys
    BY DEF Story
  <2>2. \A t \in tasks : t \in Seq(Step) /\ t # <<>> /\ Fits(t)
    BY <2>1, TypeParts DEF TasksTyped, TasksFit, Fits, Sound
  <2>3. \A t \in tasks : Head(t) = t[1] /\ 1 \in DOMAIN t /\ Tail(t) \in Seq(Step)
    BY <2>2, TailOf
  <2> QED BY <2>1, <2>2, <2>3, TypeParts DEF Keys, Fits
<1>1. \A n \in tasks : Sought(n, Pool) /\ Sought(n, P)
  <2>1. \A n \in tasks : Sought(n, Pool)
    BY QueuesAre DEF Orderly, QueuedIsThere
  <2> QED BY <2>1, SoughtMore
<1>2. ASSUME NEW t \in tasks, Head(t).do # "left" \/ Head(t).bot \in P
      PROVE  Sought(Tail(t), P)
  <2>1. PICK r : r = Tail(t)
    OBVIOUS
  <2>2. Sought(r, P)
    BY <1>0, <1>1, <1>2, <2>1, SoughtTail
  <2> QED BY <2>1, <2>2
<1>3. CASE UNCHANGED tasks
  BY <1>1, <1>3
<1>4. ASSUME NEW n, tasks' = tasks \cup {n}, Sought(n, P)
      PROVE  \A m \in tasks' : Sought(m, P)
  BY <1>1, <1>4
<1>5. ASSUME NEW u \in User, Check(u)
      PROVE  \A n \in tasks' : Sought(n, P)
  <2>1. CASE user[u].st = "queue"
    BY <1>3, <1>5, <2>1 DEF Check
  <2>2. CASE user[u].st # "queue"
    <3>1. PICK b, s, n : /\ b = user[u].bot
                         /\ s = [Do("release", user[u].bot, user[u].room) EXCEPT !.user = u]
                         /\ n = Requeue(b) \o <<s>> /\ tasks' = tasks \cup {n}
      BY <1>5, <2>2 DEF Check
    <3>2. s.do = "release"
      BY <3>1 DEF Do
    <3>3. b \in Pool
      <4>1. b # None
        BY <1>0, <1>5, <3>1, TypeParts DEF BotAtWork, Check
      <4> QED BY <3>1, <4>1 DEF Orderly, TakenIsFree
    <3>4. Sought(n, P)
      BY <3>1, <3>2, <3>3, CheckSought
    <3> QED BY <1>4, <3>1, <3>4
  <2> QED BY <2>1, <2>2
<1>6. ASSUME NEW u \in User, Leave(u)
      PROVE  \A n \in tasks' : Sought(n, P)
  <2>1. PICK r \in Room : r = user[u].key /\ Live(r)
    BY <1>0, <1>6, LeftLeaving
  <2>2. PICK b \in Bot : b = room[r].bot
    BY <1>0, <2>1 DEF RoomTaken
  <2>3. PICK n : n = <<Do("delete", None, r)>> \o AfterLeave(b) /\ tasks' = tasks \cup {n}
    BY <1>6, <2>1, <2>2 DEF Leave
  <2>4. Sought(n, P)
    BY <2>3, LeaveSought
  <2> QED BY <1>4, <2>3, <2>4
<1>7. ASSUME NEW m \in replies, ModelFails(m)
      PROVE  \A n \in tasks' : Sought(n, P)
  <2>1. PICK S, back : tasks' = tasks \cup Ending(S, back) /\ back \subseteq InChat
    BY <1>0, <1>7, FailsBy
  <2>2. back \subseteq P
    BY <2>1 DEF InChat
  <2>3. \A n \in Ending(S, back) : Sought(n, P)
    BY <2>2, EndingSought
  <2> QED BY <1>1, <2>1, <2>3
<1>8. ASSUME NEW t \in tasks, NEW rest, Becomes(t, rest), rest # <<>> => Sought(rest, P)
      PROVE  \A n \in tasks' : Sought(n, P)
  BY <1>1, <1>8, BecomesIn
<1>9. ASSUME NEW t \in tasks, Goes(t), Head(t).do # "left" \/ Head(t).bot \in P
      PROVE  \A n \in tasks' : Sought(n, P)
  <2>1. PICK rest : rest = Tail(t) /\ Becomes(t, rest)
    BY <1>9 DEF Goes
  <2> QED BY <1>2, <1>8, <1>9, <2>1
<1>10. ASSUME NEW t \in tasks,
              DeleteRoom(t) \/ AddToQueue(t) \/ ReleaseClaim(t) \/ Dequeue(t) \/ Done(t)
       PROVE  \A n \in tasks' : Sought(n, P)
  BY <1>9, <1>10 DEF DeleteRoom, AddToQueue, ReleaseClaim, Dequeue, Done, Runs
<1>11. ASSUME NEW t \in tasks, PartnerLeft(t)
       PROVE  \A n \in tasks' : Sought(n, P)
  <2>1. (Goes(t) /\ Head(t).bot \in Pool) \/ Becomes(t, <<>>)
    BY <1>11 DEF PartnerLeft
  <2> QED BY <1>8, <1>9, <2>1
<1>12. ASSUME NEW t \in tasks, CheckQueue(t)
       PROVE  \A n \in tasks' : Sought(n, P)
  <2>1. CASE bot[Head(t).bot].queue > 0
    BY <1>9, <1>12, <2>1 DEF CheckQueue, Goes, Runs
  <2>2. CASE ~(bot[Head(t).bot].queue > 0)
    <3>1. Head(t).do = "check" /\ Head(t).bot \in Bot
      BY <1>0, <1>12 DEF CheckQueue, Runs, StepOK
    <3>2. PICK b \in Bot : b = Head(t).bot
      BY <3>1
    <3>3. PICK s \in Step : s = Do("add", b, None)
      BY DoStep
    <3>4. PICK r \in Seq(Step) : r = Tail(t)
      BY <1>0
    <3>5. PICK n : n = <<s>> \o r
      OBVIOUS
    <3>6. Becomes(t, n)
      BY <1>12, <2>2, <3>2, <3>3, <3>4, <3>5 DEF CheckQueue
    <3>7. Sought(r, P)
      BY <1>2, <3>1, <3>4
    <3>8. b \in P
      <4>1. \A j \in DOMAIN t : ~(j < 1)
        <5>1. t \in Seq(Step)
          BY <1>0
        <5> QED BY <5>1
      <4>2. Sought(t, P)
        BY <1>1
      <4>3. t[1].do = "check" /\ t[1].bot = b /\ 1 \in DOMAIN t
        BY <1>0, <3>1, <3>2
      <4> QED BY <4>1, <4>2, <4>3 DEF Sought
    <3>9. s.do = "add" /\ s.bot = b
      BY <3>3 DEF Do
    <3>10. Sought(n, P)
      BY <3>5, <3>7, <3>8, <3>9, SoughtPut
    <3> QED BY <1>8, <3>6, <3>10
  <2> QED BY <2>1, <2>2
<1>13. ASSUME NEW t \in tasks, Enable(t)
       PROVE  \A n \in tasks' : Sought(n, P)
  <2>0. Head(t).do = "test"
    BY <1>13 DEF Enable, Runs
  <2>1. CASE Becomes(t, Tail(t))
    BY <1>9, <2>0, <2>1 DEF Goes
  <2>2. CASE ~Becomes(t, Tail(t))
    <3>3. PICK s \in Step : s = Do("queueAll", None, None)
      BY DoStep
    <3>4. PICK r \in Seq(Step) : r = Tail(t)
      BY <1>0
    <3>5. PICK n : n = <<s>> \o r
      OBVIOUS
    <3>6. Becomes(t, n)
      BY <1>13, <2>2, <3>3, <3>4, <3>5 DEF Enable
    <3>7. Sought(r, P)
      BY <1>2, <2>0, <3>4
    <3>8. s.do = "queueAll"
      BY <3>3 DEF Do
    <3>9. Sought(n, P)
      BY <3>5, <3>7, <3>8, SoughtPut
    <3> QED BY <1>8, <3>6, <3>9
  <2> QED BY <2>1, <2>2
<1>14. ASSUME NEW t \in tasks, AddBotsToQueue(t)
       PROVE  \A n \in tasks' : Sought(n, P)
  <2>1. PICK n : n = QueueAll({b \in Pool : bot[b].chat = None}, mgr.pool) \o Tail(t)
                 /\ Becomes(t, n)
    BY <1>14 DEF AddBotsToQueue
  <2>2. t[1].do = "queueAll"
    BY <1>0, <1>14 DEF AddBotsToQueue, Runs
  <2>3. n # <<>> => Quiet(n)
    BY <1>0, <2>1, <2>2, QueueAllFits
  <2> QED BY <1>8, <2>1, <2>3, QuietSought
<1>15. ASSUME NEW t \in tasks, Disable(t)
       PROVE  \A n \in tasks' : Sought(n, P)
  <2>0. Head(t).do = "disable"
    BY <1>15 DEF Disable, Runs
  <2>1. CASE Goes(t)
    BY <1>9, <2>0, <2>1
  <2>2. CASE tasks' = (tasks \ {t}) \cup {Tail(t)} \cup Ending(InChat, {})
    <3>1. Sought(Tail(t), P)
      BY <1>2, <2>0
    <3>2. \A n \in Ending(InChat, {}) : Sought(n, P)
      BY EndingSought
    <3> QED BY <1>1, <2>2, <3>1, <3>2
  <2> QED BY <1>0, <1>15, <2>1, <2>2, DisablesBy
<1>16. CASE EnableBots \/ DisableBots \/ UpdateConfig
  <2>1. PICK n : /\ tasks' = tasks \cup {n}
                 /\ \/ n = <<Do("test", None, None)>> \o <<Do("done", None, None)>>
                    \/ n = <<>> \o <<Do("done", None, None)>>
                    \/ n = ([b \in Pool |-> Do("dequeue", b, None)]
                               \o <<Do("disable", None, None)>>) \o <<Do("done", None, None)>>
    BY <1>16 DEF EnableBots, DisableBots, UpdateConfig, Request
  <2>2. Quiet(n)
    BY <1>0, <2>1, RequestFits
  <2>3. Sought(n, P)
    BY <2>2, QuietSought
  <2> QED BY <1>4, <2>1, <2>3
<1> QED BY <1>3, <1>5, <1>6, <1>7, <1>10, <1>11, <1>12, <1>13, <1>14, <1>15, <1>16, TaskMoves
        DEF TaskStep

LEMMA QueuedIsThereNext ==
    ASSUME Story, Orderly, Next, Tidy'
    PROVE  QueuedIsThere'
<1>0. TypeOK /\ TasksFit /\ Off /\ QueuedIsThere
      /\ \A t \in tasks : t \in Seq(Step) /\ t # <<>> /\ Head(t) = t[1] /\ 1 \in DOMAIN t
  <2>1. TypeOK /\ TasksFit /\ Off /\ QueuedIsThere
    BY DEF Story, Orderly
  <2>2. \A t \in tasks : t \in Seq(Step) /\ t # <<>>
    BY <2>1, TypeParts DEF TasksTyped, TasksFit, Fits, Sound
  <2>3. \A t \in tasks : Head(t) = t[1] /\ 1 \in DOMAIN t
    BY <2>2, TailOf
  <2> QED BY <2>1, <2>2, <2>3
<1>1. PICK P : P = Pool'
  OBVIOUS
<1>2. CASE Pool \subseteq P
  <2>1. \A n \in tasks' : Queues(n)'
    BY <1>1, <1>2, QueuesNext, QueuesAre
  <2>2. ASSUME NEW b \in Bot, bot'[b].queue > 0
        PROVE  b \in P
    <3>1. ASSUME NEW t \in tasks, AddToQueue(t), Head(t).bot = b
          PROVE  b \in Pool
      <4>1. t[1].do = "add" /\ t[1].bot = b /\ 1 \in DOMAIN t /\ t \in Seq(Step)
        BY <1>0, <3>1 DEF AddToQueue, Runs
      <4>2. \A j \in DOMAIN t : ~(j < 1)
        BY <4>1
      <4>3. Queues(t)
        BY <1>0 DEF QueuedIsThere
      <4> QED BY <4>1, <4>2, <4>3 DEF Queues
    <3> QED BY <1>0, <1>2, <2>2, <3>1, QueueMoves DEF QueuedIsThere
  <2> QED BY <1>1, <2>1, <2>2 DEF QueuedIsThere
<1>3. CASE Clears
  <2>1. \A t \in tasks : \A i \in DOMAIN t : t[i].do \notin {"check", "add"}
    BY <1>3 DEF Clears, UnderWay
  <2>2. ASSUME NEW n \in tasks'
        PROVE  Sought(n, P)
    <3>1. CASE n \in tasks
      BY <2>1, <3>1 DEF Sought
    <3>2. ASSUME NEW t \in tasks, n = Tail(t)
          PROVE  Sought(n, P)
      <4>1. \A i \in DOMAIN n : i + 1 \in DOMAIN t /\ n[i] = t[i + 1]
        BY <1>0, <3>2, TailOf
      <4> QED BY <2>1, <4>1 DEF Sought
    <3>3. CASE n \in Ending(InChat, {})
      BY <3>3, EndingSought
    <3> QED BY <1>3, <3>1, <3>2, <3>3 DEF Clears
  <2>3. \A n \in tasks' : Queues(n)'
    BY <1>1, <2>2, QueuesAre
  <2>4. ASSUME NEW b \in Bot, bot'[b].queue > 0
        PROVE  FALSE
    <3>1. ~(bot[b].queue > 0)
      BY <1>3 DEF Clears, UnderWay
    <3>2. ASSUME NEW t \in tasks, AddToQueue(t)
          PROVE  FALSE
      BY <1>0, <2>1, <3>2 DEF AddToQueue, Runs
    <3> QED BY <1>0, <2>4, <3>1, <3>2, QueueMoves
  <2> QED BY <2>3, <2>4 DEF QueuedIsThere
<1> QED BY <1>0, <1>1, <1>2, <1>3, PoolKept

-----------------------------------------------------------------------------
(* The invariant.                                                           *)

OrderlyIfTidy == Tidy => Orderly
PoolInv == Story /\ ReleasedOnce /\ OrderlyIfTidy

LEMMA InitPoolInv == Init => PoolInv
<1> SUFFICES ASSUME Init PROVE PoolInv
  OBVIOUS
<1>1. /\ mgr \in [enabled : BOOLEAN, pool : {0, MaxBots}, max : {MaxBots}, errors : {0}]
      /\ mgr.enabled \/ mgr.pool = 0
  BY DEF Init
<1>2. /\ bot = [b \in Bot |-> [chat |-> None, queue |-> 0, key |-> None]]
      /\ room = [r \in Room |-> [st |-> "new", user |-> None, bot |-> None]]
      /\ user = [u \in User |-> [st |-> "idle", shown |-> FALSE, key |-> None, at |-> "none",
                                 bot |-> None, room |-> None]]
      /\ tasks = {} /\ replies = {}
      /\ ghost = [odd |-> {}, busy |-> FALSE, joins |-> 0, messages |-> 0, switches |-> 0]
  BY DEF Init
<1>3. /\ \A b \in Bot : bot[b].chat = None /\ bot[b].queue = 0 /\ bot[b].key = None
      /\ \A r \in Room : room[r].st = "new"
      /\ \A u \in User : /\ user[u].st = "idle" /\ user[u].key = None /\ user[u].at = "none"
                         /\ user[u].shown = FALSE /\ user[u].bot = None /\ user[u].room = None
  BY <1>2
<1>4. \A r \in Room \cup {None} : ~Live(r)
  BY <1>3 DEF Live
<1>5. TypeOK
  <2>1. MgrTyped
    <3>1. MaxBots \in 0..MaxBots /\ MaxBots \in 1..MaxBots /\ 0 \in 0..MaxBots
      BY BotPoolAssumption
    <3> QED BY <1>1, <3>1 DEF MgrTyped
  <2>2. BotTyped /\ RoomTyped /\ UserTyped
    BY <1>2 DEF BotTyped, BotType, RoomTyped, RoomType, UserTyped, ManType
  <2>3. TasksTyped /\ GhostTyped
    BY <1>2, BotPoolAssumption DEF TasksTyped, GhostTyped
  <2>4. ChatInPool /\ BotAtWork
    BY <1>3 DEF ChatInPool, BotAtWork
  <2> QED BY <2>1, <2>2, <2>3, <2>4, TypeParts
<1>6. TasksFit /\ ReleasedOnce
  BY <1>2 DEF TasksFit, ReleasedOnce
<1>7. Keys
  BY <1>3, <1>4 DEF Keys, RoomTaken, KeyHeld, ClaimHeld, NoRoom, Unpaired, Seeking
<1>8. Notified /\ InTheirRoom /\ Chats /\ Off
  BY <1>1, <1>3 DEF Notified, InTheirRoom, Chats, Off
<1>9. Orderly
  BY <1>2, <1>3, <1>4 DEF Orderly, OneBot, OneRoom, TakenIsFree, LeftIsLeaving, QueuedIsThere, Known
<1> QED BY <1>5, <1>6, <1>7, <1>8, <1>9 DEF PoolInv, Story, OrderlyIfTidy

LEMMA NextPoolInv ==
    ASSUME PoolInv, Next
    PROVE  PoolInv'
<1>0. /\ TypeOK /\ TasksFit /\ Keys /\ Notified /\ InTheirRoom /\ Chats /\ Off /\ ReleasedOnce
      /\ RoomTaken /\ ClaimHeld
      /\ MgrTyped /\ BotTyped /\ RoomTyped /\ UserTyped /\ TasksTyped /\ GhostTyped
      /\ ChatInPool /\ BotAtWork
  BY TypeParts DEF PoolInv, Story, Keys
<1>1. TasksTyped' /\ TasksFit'
  BY <1>0, TasksNext
<1>2. TypeOK'
  <2>1. MgrTyped' /\ BotTyped' /\ RoomTyped' /\ UserTyped' /\ GhostTyped'
        /\ ChatInPool' /\ BotAtWork'
    BY <1>0, MgrNext, BotNext, RoomNext, UserNext, GhostNext, ChatInPoolNext, BotAtWorkNext
  <2> QED BY <1>1, <2>1 DEF TypeOK, MgrTyped, BotTyped, RoomTyped, UserTyped, TasksTyped,
                          GhostTyped, ChatInPool, BotAtWork, BotType, ManType, RoomType
<1>3. Keys' /\ ReleasedOnce' /\ Off'
  BY <1>0, KeysNext, ReleasedOnceNext, OffNext
<1>4. Notified' /\ InTheirRoom' /\ Chats'
  BY <1>0, NotifiedNext, InTheirRoomNext, ChatsNext
<1>5. OrderlyIfTidy'
  <2>1. ASSUME Tidy'
        PROVE  Orderly'
    <3>1. Story /\ Orderly
      BY <1>0, <2>1, TidyBefore DEF PoolInv, OrderlyIfTidy
    <3>2. OneBot' /\ OneRoom' /\ TakenIsFree' /\ LeftIsLeaving' /\ QueuedIsThere' /\ Known'
      BY <2>1, <3>1, OneBotNext, OneRoomNext, TakenIsFreeNext, LeftIsLeavingNext,
         QueuedIsThereNext, KnownNext
    <3> QED BY <3>2 DEF Orderly
  <2> QED BY <2>1 DEF OrderlyIfTidy
<1> QED BY <1>1, <1>2, <1>3, <1>4, <1>5 DEF PoolInv, Story

LEMMA StepPoolInv == PoolInv /\ [Next]_vars => PoolInv'
<1> SUFFICES ASSUME PoolInv, [Next]_vars PROVE PoolInv'
  OBVIOUS
<1>1. CASE Next
  BY <1>1, NextPoolInv
<1>2. CASE UNCHANGED vars
  <2> USE <1>2 DEF vars
  <2>1. TypeOK'
    BY DEF PoolInv, Story, TypeOK, Pool
  <2>2. TasksFit'
    BY DEF PoolInv, Story, TasksFit, Fits, EndsWell, StepOK
  <2>3. Keys'
    BY DEF PoolInv, Story, Keys, RoomTaken, KeyHeld, ClaimHeld, NoRoom, Unpaired, Live,
           Seeking, Owner
  <2>4. Notified' /\ InTheirRoom'
    BY DEF PoolInv, Story, Notified, InTheirRoom, Live, Leaving
  <2>5. Chats' /\ Off'
    BY DEF PoolInv, Story, Chats, Off, Live, LeftDue
  <2>6. ReleasedOnce'
    BY DEF PoolInv, ReleasedOnce
  <2>7. OrderlyIfTidy'
    BY DEF PoolInv, OrderlyIfTidy, Tidy, Orderly, OneBot, OneRoom, TakenIsFree, LeftIsLeaving,
           QueuedIsThere, Queues, Known, Live, Leaving, LeftDue, Pool, Seeking
  <2> QED BY <2>1, <2>2, <2>3, <2>4, <2>5, <2>6, <2>7 DEF PoolInv, Story
<1> QED BY <1>1, <1>2

LEMMA PoolInvAlways == Spec => []PoolInv
BY InitPoolInv, StepPoolInv, PTL DEF Spec

-----------------------------------------------------------------------------
(* The theorems.                                                            *)

\* Type correctness: the manager never has more bots than config.maxBots allows, a coroutine
\* is a sequence of steps, a bot that is not in the map is in no chat, and exactly the
\* attempts that have reached createAndNotifyMatch hold a bot.
THEOREM TypeCorrect == Spec => []TypeOK
<1>1. PoolInv => TypeOK
  BY DEF PoolInv, Story
<1> QED BY <1>1, PoolInvAlways, PTL

\* A man who is in a chat on his screen has the room in Redis, under his own key: a leave, a
\* failed reply and a disable all tell him before deleteRoom runs, in whatever order they cross.
THEOREM ActiveInARoom == Spec => []ActiveHasRoom
<1>1. PoolInv => ActiveHasRoom
  <2> SUFFICES ASSUME PoolInv, NEW u \in User, user[u].shown
               PROVE  Live(user[u].key) /\ room[user[u].key].user = u
    BY DEF ActiveHasRoom
  <2>1. user[u].at = "none" /\ Live(user[u].key)
    BY DEF PoolInv, Story, InTheirRoom
  <2>2. user[u].key # None /\ room[user[u].key].st = "live"
    BY <2>1 DEF Live
  <2> QED BY <2>1, <2>2 DEF PoolInv, Story, Keys, KeyHeld
<1> QED BY <1>1, PoolInvAlways, PTL

\* The map of BotManager, the user:room keys and the rooms tell the same story of every chat
\* that nobody is ending: the partner is a bot of the map, his key names the room and so does
\* the map, or onBotMatched is about to write it there; and a bot that the map has in a chat
\* is in one, or onPartnerLeft has still to free it.  The first half supposes that getAvailableBot
\* gave no bot twice and no step outlived disable, the second nothing.
THEOREM StoriesAgree == Spec => []BotsAndRoomsAgree
<1>1. PoolInv => BotsAndRoomsAgree
  <2> SUFFICES ASSUME PoolInv PROVE BotsAndRoomsAgree
    OBVIOUS
  <2>1. RoomKnowsBot
    BY DEF PoolInv, OrderlyIfTidy, Tidy, Orderly, Known, RoomKnowsBot
  <2>2. RoomEndFreesBot
    BY DEF PoolInv, Story, Chats, LeftDue, RoomEndFreesBot
  <2> QED BY <2>1, <2>2 DEF BotsAndRoomsAgree
<1> QED BY <1>1, PoolInvAlways, PTL

\* While the bots are disabled every room with one is being deleted and no bot can be matched
\* from the queue, unless a step that was under way outlived the disable or a bot was taken twice.
THEOREM DisabledLeavesNothing == Spec => []DisabledIsClean
<1>1. PoolInv => DisabledIsClean
  <2> SUFFICES ASSUME PoolInv, ~mgr.enabled, Tidy
               PROVE  /\ \A r \in Room : Live(r) => Leaving(r)
                      /\ \A b \in Bot : ~Claimable(b)
    BY DEF DisabledIsClean, Tidy
  <2>1. Known /\ QueuedIsThere /\ mgr.pool = 0
    BY DEF PoolInv, OrderlyIfTidy, Orderly, Story, Off
  <2>2. \A b : b \notin Pool
    BY <2>1 DEF Pool
  <2> QED BY <2>1, <2>2 DEF Known, QueuedIsThere, Claimable
<1> QED BY <1>1, PoolInvAlways, PTL
=============================================================================
