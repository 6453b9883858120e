-------------------------- MODULE ChatRelayProofs --------------------------
(***************************************************************************)
(* Proofs about ChatRelay, for any number of people, writers, chats and    *)
(* messages: type correctness, that a message is sent to nobody who has    *)
(* news of another chat, that clean messages keep their order, and that    *)
(* what is read is in the history.                                         *)
(*                                                                         *)
(* A message goes from up to calls, maybe to scans, to down, and to the    *)
(* screen.  For each browser the proofs look at two sequences: what is     *)
(* under way to it, and what its session shows or will (Screen).           *)
(***************************************************************************)
EXTENDS ChatRelay, FiniteSetTheorems, TLAPS

(* Rooms and those in them.                                                 *)

Full(c) == Bot \in room[c].who
In(u, c) == room[c].live /\ u \in room[c].who

\* Chats are numbered in turn.
ChatsInTurn == \A c \in Chat : c > count.chats => room[c].who = {} /\ ~room[c].live

\* Whoever is in a room of socket.io is a member of the chat, which goes on unless it is one
\* with the bot; and somebody with the bot is alone with it.
RoomsOfMembers ==
    \A u \in User : \A c \in srv[u].rooms :
        u \in room[c].who /\ (~Full(c) => room[c].live)
AloneWithBot == \A c \in Chat : Full(c) => \A u, v \in room[c].who \cap User : u = v
RepliesOfBot == \A r \in replies : Full(r.bot)

\* Nobody who waits for a partner is in a chat, and nobody is in two.
QueueIsOut == \A u \in User : srv[u].st = "queue" => \A c \in Chat : ~In(u, c)
OneChat == \A u \in User : \A c, d \in Chat : In(u, c) /\ In(u, d) => c = d

Rooms ==
    /\ ChatsInTurn /\ RoomsOfMembers /\ AloneWithBot /\ RepliesOfBot
    /\ QueueIsOut /\ OneChat

-----------------------------------------------------------------------------
(* What a browser has and will have.                                        *)

\* What the session shows, or will when it begins.
Screen(k) == IF k.at = "in" THEN k.shown ELSE k.kept.shown
Tidy(k) ==
    /\ k.at = "in" => k.kept.shown = <<>>
    /\ k.at # "in" => k.shown = <<>>

\* A page with buttons has a chat, and it is one of the user's.
MatchOf(u, k) ==
    /\ k.at = "in" /\ ~k.halted => k.match # NoChat
    /\ k.match # NoChat => u \in room[k.match].who
NewsOf(u, s) == \A i \in DOMAIN s : s[i].say = "matched" => u \in room[s[i].chat].who

Pages == \A u \in User : Tidy(cli[u]) /\ MatchOf(u, cli[u]) /\ NewsOf(u, down[u])

\* Of the messages that are at a browser, s are under way and a are on its screen.
Spoken(s) == {i \in DOMAIN s : s[i].say = "message"}
Holds(s, a) == {a[i] : i \in DOMAIN a} \cup {s[i].what : i \in Spoken(s)}
At(u) == Holds(down[u], Screen(cli[u]))

\* The last news of a match up to item i are of chat c, or there are none and the session on
\* the screen is not of another one.
NewsAre(s, k, i, c) ==
    \/ \E j \in 1..i : /\ s[j].say = "matched" /\ s[j].chat = c
                       /\ \A l \in (j + 1)..i : s[l].say # "matched"
    \/ /\ \A j \in 1..i : s[j].say # "matched"
       /\ k.at = "in" => k.match \in {c, NoChat}

InRooms(u, s, k) ==
    \A c \in srv[u].rooms : ~Full(c) => NewsAre(s, k, Len(s), c)
SentInChat(s, k) ==
    \A i \in DOMAIN s : s[i].say = "message" /\ s[i].what.n # 0 => NewsAre(s, k, i, s[i].room)

NewsInv == \A u \in User : InRooms(u, down[u], cli[u]) /\ SentInChat(down[u], cli[u])

-----------------------------------------------------------------------------
(* Messages.                                                                *)

\* A message is a reply of the bot, or somebody said it in a chat of his.
Said(m) == m.n \in 1..count.said /\ m.by \in User /\ m.by \in room[m.chat].who
Made(m) == Said(m) \/ (m.n = 0 /\ m.by = Bot)

\* A message that the server took is of somebody in the chat it took it for, and of no
\* other chat that goes on.
Taken(m, c) == Said(m) /\ m.by \in room[c].who /\ (room[m.chat].live => m.chat = c)
\* What Redis was asked to write.
Known(c) == room[c].log \cup room[c].lost
Recorded(m) == m.n # 0 /\ room[m.chat].live => m \in Known(m.chat)

Sayings(t) == {i \in DOMAIN t : t[i].do = "message"}

UpMade == \A u \in User : \A i \in Sayings(up[u]) : Said(up[u][i].what) /\ up[u][i].what.by = u
CallsMade ==
    \A i \in DOMAIN calls :
        /\ Taken(calls[i].what, calls[i].chat)
        /\ calls[i].at = "stored" => Recorded(calls[i].what)
ScansMade == \A s \in scans : Taken(s.what, s.chat) /\ Recorded(s.what) /\ s.what.hot
AtMade == \A u \in User : \A m \in At(u) : Made(m) /\ Recorded(m)

Messages == UpMade /\ CallsMade /\ ScansMade /\ AtMade

-----------------------------------------------------------------------------
(* Their order.                                                             *)

\* If both are clean and of one person, a was said before b.
Before(a, b) == a.by = b.by /\ ~a.hot /\ ~b.hot /\ b.n # 0 => a.n < b.n

Sorted(s, a) ==
    /\ \A i, j \in DOMAIN a : i < j => Before(a[i], a[j])
    /\ \A i \in DOMAIN a : \A j \in Spoken(s) : Before(a[i], s[j].what)
    /\ \A i, j \in Spoken(s) : i < j => Before(s[i].what, s[j].what)

\* Redis answers in order, but a call that it has answered asks again behind the others: of
\* two messages the earlier one is ahead, or one answer further.
Phase(at) == IF at = "room" THEN 0 ELSE IF at = "store" THEN 1 ELSE 2
Ahead(x, y) == x.what.n < y.what.n /\ Phase(x.at) >= Phase(y.at)
InPhase(x, y) ==
    x.what.by = y.what.by =>
        Ahead(x, y) \/ (y.what.n < x.what.n /\ Phase(x.at) < Phase(y.at))

SaidInOrder ==
    \A u \in User : \A i, j \in Sayings(up[u]) : i < j => up[u][i].what.n < up[u][j].what.n
CalledInOrder ==
    /\ \A i, j \in DOMAIN calls : i < j => InPhase(calls[i], calls[j])
    /\ \A i \in DOMAIN calls, u \in User : \A j \in Sayings(up[u]) :
         calls[i].what.by = u => calls[i].what.n < up[u][j].what.n
ShownInOrder ==
    \A u \in User :
        /\ Sorted(down[u], Screen(cli[u]))
        /\ \A m \in At(u) :
             /\ \A i \in DOMAIN calls : Before(m, calls[i].what)
             /\ \A v \in User : \A i \in Sayings(up[v]) : Before(m, up[v][i].what)

Order == SaidInOrder /\ CalledInOrder /\ ShownInOrder

Relayed == TypeOK /\ Rooms /\ Pages /\ NewsInv /\ Messages /\ Order

-----------------------------------------------------------------------------
(* Sequences and what is in them.                                           *)

LEMMA AppendOf ==
    ASSUME NEW S, NEW t \in Seq(S), NEW x \in S
    PROVE  /\ Append(t, x) \in Seq(S)
           /\ Len(Append(t, x)) = Len(t) + 1 /\ Len(t) \in Nat
           /\ DOMAIN t = 1..Len(t) /\ DOMAIN Append(t, x) = 1..(Len(t) + 1)
           /\ \A i \in DOMAIN t : Append(t, x)[i] = t[i]
           /\ Append(t, x)[Len(t) + 1] = x
OBVIOUS

LEMMA TailOf ==
    ASSUME NEW S, NEW t \in Seq(S), t # <<>>
    PROVE  /\ Tail(t) \in Seq(S) /\ Len(Tail(t)) = Len(t) - 1 /\ Len(t) \in Nat \ {0}
           /\ DOMAIN t = 1..Len(t) /\ DOMAIN Tail(t) = 1..(Len(t) - 1)
           /\ \A i \in DOMAIN Tail(t) : i + 1 \in DOMAIN t /\ Tail(t)[i] = t[i + 1]
           /\ Head(t) = t[1] /\ 1 \in DOMAIN t /\ t[1] \in S
OBVIOUS

LEMMA TwoMore ==
    ASSUME NEW S, NEW t \in Seq(S), NEW x \in S, NEW y \in S
    PROVE  t \o <<x, y>> = Append(Append(t, x), y)
OBVIOUS

\* What an item holds is told by its kind.
LEMMA ItemFields ==
    ASSUME NEW x \in ToBrowser
    PROVE  /\ x.say \in {"over", "error", "refused", "matched", "message", "typing"}
           /\ x.say = "matched" => x.chat \in Chat
           /\ x.say = "message" => x.what \in Message /\ x.room \in Chat
           /\ x.say = "typing" => x.by \in Partner /\ x.on \in BOOLEAN
BY DEF ToBrowser

LEMMA AskFields ==
    ASSUME NEW x \in ToServer
    PROVE  /\ x.do \in {"join", "leave", "message", "typing"}
           /\ x.do = "message" => x.what \in Message
           /\ x.do = "typing" => x.on \in BOOLEAN
BY DEF ToServer

LEMMA ItemMade ==
    /\ [say |-> "over"] \in ToBrowser /\ [say |-> "error"] \in ToBrowser
    /\ [say |-> "refused"] \in ToBrowser
    /\ \A c \in Chat : [say |-> "matched", chat |-> c] \in ToBrowser
    /\ \A m \in Message, c \in Chat : SayMessage(m, c) \in ToBrowser
    /\ \A p \in Partner, b \in BOOLEAN : SayTyping(p, b) \in ToBrowser
BY DEF ToBrowser, SayMessage, SayTyping

LEMMA AskMade ==
    /\ [do |-> "join"] \in ToServer /\ [do |-> "leave"] \in ToServer
    /\ \A m \in Message : [do |-> "message", what |-> m] \in ToServer
    /\ \A b \in BOOLEAN : [do |-> "typing", on |-> b] \in ToServer
BY DEF ToServer

LEMMA ItemKinds ==
    /\ [say |-> "over"].say = "over" /\ [say |-> "error"].say = "error"
    /\ [say |-> "refused"].say = "refused"
    /\ \A c : [say |-> "matched", chat |-> c].say = "matched"
    /\ \A m, c : /\ SayMessage(m, c).say = "message"
                 /\ SayMessage(m, c).what = m /\ SayMessage(m, c).room = c
    /\ \A p, b : SayTyping(p, b).say = "typing"
BY DEF SayMessage, SayTyping

\* Those who are told have one item more.
LEMMA TellTyped ==
    ASSUME down \in [User -> Seq(ToBrowser)], NEW who, NEW x \in ToBrowser
    PROVE  /\ Tell(who, x) \in [User -> Seq(ToBrowser)]
           /\ \A u \in User : Tell(who, x)[u] = IF u \in who THEN Append(down[u], x)
                                                ELSE down[u]
BY DEF Tell

-----------------------------------------------------------------------------
(* Type correctness.                                                        *)

LEMMA BlankTyped ==
    Blank \in [shown : Seq(Message), sees : Partner \cup {NoChat}, hides : BOOLEAN]
BY DEF Blank

LEMMA ClearedTyped ==
    ASSUME NEW k \in PageState
    PROVE  /\ Cleared(k) \in PageState
           /\ Cleared(k).at = k.at /\ Cleared(k).match = k.match
           /\ Cleared(k).halted = k.halted
           /\ Cleared(k).shown = <<>> /\ Cleared(k).kept = Blank
<1>1. <<>> \in Seq(Message) /\ NoChat \in Partner \cup {NoChat} /\ FALSE \in BOOLEAN
  OBVIOUS
<1>2. [k EXCEPT !.shown = <<>>] \in PageState
  BY <1>1 DEF PageState
<1>3. [k EXCEPT !.shown = <<>>, !.sees = NoChat] \in PageState
  BY <1>1, <1>2 DEF PageState
<1>4. [k EXCEPT !.shown = <<>>, !.sees = NoChat, !.hides = FALSE] \in PageState
  BY <1>1, <1>3 DEF PageState
<1>5. [k EXCEPT !.shown = <<>>, !.sees = NoChat, !.hides = FALSE, !.kept = Blank] \in PageState
  BY <1>1, <1>4, BlankTyped DEF PageState
<1>6. Cleared(k) \in PageState
  BY <1>1, <1>5 DEF PageState, Cleared
<1> QED BY <1>6 DEF Cleared, PageState

LEMMA DrainedTyped ==
    ASSUME NEW k \in PageState
    PROVE  /\ Drained(k) \in PageState /\ Drained(k).at = "in"
           /\ k.at = "in" => Drained(k) = k
           /\ k.at # "in" => Drained(k).shown = k.kept.shown /\ Drained(k).kept = Blank
BY BlankTyped DEF Drained, PageState

LEMMA IngestTyped ==
    ASSUME NEW k \in PageState, NEW x \in ToBrowser, x.say \in {"message", "typing"}
    PROVE  /\ Ingest(k, x) \in PageState
           /\ Keep(k, x) \in PageState
           /\ Ingest(k, x).at = k.at /\ Ingest(k, x).match = k.match
           /\ Ingest(k, x).halted = k.halted /\ Ingest(k, x).kept = k.kept
           /\ Ingest(k, x).shown = IF x.say = "message" THEN Append(k.shown, x.what)
                                   ELSE k.shown
           /\ Keep(k, x).kept.shown =
                IF x.say = "message" THEN Append(k.kept.shown, x.what) ELSE k.kept.shown
<1>1. x.say = "message" => x.what \in Message
  BY ItemFields
<1>2. x.say = "typing" => x.by \in Partner /\ x.on \in BOOLEAN
  BY ItemFields
<1>3. k.shown \in Seq(Message) /\ k.kept.shown \in Seq(Message)
  BY DEF PageState
<1> USE DEF Keep
<1>4. CASE x.say = "message"
  <2>1. Append(k.shown, x.what) \in Seq(Message) /\ Append(k.kept.shown, x.what) \in Seq(Message)
    BY <1>1, <1>3, <1>4
  <2>2. Ingest(k, x) = [k EXCEPT !.shown = Append(@, x.what), !.hides = FALSE]
    BY <1>4 DEF Ingest
  <2>3. Ingest(k.kept, x) = [k.kept EXCEPT !.shown = Append(@, x.what), !.hides = FALSE]
    BY <1>4 DEF Ingest
  <2> QED BY <1>4, <2>1, <2>2, <2>3 DEF PageState
<1>5. CASE x.say = "typing"
  <2>1. Ingest(k, x) = [k EXCEPT !.sees = IF x.on THEN x.by ELSE NoChat,
                                 !.hides = x.on /\ k.sees # NoChat]
    BY <1>5 DEF Ingest
  <2>2. Ingest(k.kept, x) = [k.kept EXCEPT !.sees = IF x.on THEN x.by ELSE NoChat,
                                           !.hides = x.on /\ k.kept.sees # NoChat]
    BY <1>5 DEF Ingest
  <2>3. (IF x.on THEN x.by ELSE NoChat) \in Partner \cup {NoChat}
    BY <1>2, <1>5
  <2>4. (x.on /\ k.sees # NoChat) \in BOOLEAN /\ (x.on /\ k.kept.sees # NoChat) \in BOOLEAN
    OBVIOUS
  <2> QED BY <1>5, <2>1, <2>2, <2>3, <2>4 DEF PageState
<1> QED BY <1>4, <1>5

LEMMA MatchTyped ==
    ASSUME NEW k \in PageState, NEW c \in Chat
    PROVE  LET n == [k EXCEPT !.match = c, !.halted = FALSE]
           IN  /\ n \in PageState /\ n.match = c /\ n.at = k.at
               /\ n.shown = k.shown /\ n.kept = k.kept
<1>1. [k EXCEPT !.match = c] \in PageState
  BY DEF PageState
<1>2. [k EXCEPT !.match = c, !.halted = FALSE] \in PageState
  BY <1>1 DEF PageState
<1> QED BY <1>2 DEF PageState

\* A chat that is over has nothing in its history.
LEMMA RoomTyped ==
    ASSUME TypeOK, NEW c \in Chat
    PROVE  /\ [room EXCEPT ![c].live = FALSE, ![c].log = {}] \in [Chat -> RoomState]
           /\ \A L \in SUBSET Message : /\ [room EXCEPT ![c].log = L] \in [Chat -> RoomState]
                                        /\ [room EXCEPT ![c].lost = L] \in [Chat -> RoomState]
           /\ \A who \in SUBSET Partner :
                [room EXCEPT ![c] = [who |-> who, live |-> TRUE, log |-> {}, lost |-> {}]]
                    \in [Chat -> RoomState]
<1>1. [room EXCEPT ![c].live = FALSE] \in [Chat -> RoomState]
  BY DEF TypeOK, RoomState
<1>2. [room EXCEPT ![c].live = FALSE, ![c].log = {}] \in [Chat -> RoomState]
  BY <1>1 DEF RoomState
<1>3. ASSUME NEW L \in SUBSET Message
      PROVE  /\ [room EXCEPT ![c].log = L] \in [Chat -> RoomState]
             /\ [room EXCEPT ![c].lost = L] \in [Chat -> RoomState]
  BY DEF TypeOK, RoomState
<1>4. ASSUME NEW who \in SUBSET Partner
      PROVE  [room EXCEPT ![c] = [who |-> who, live |-> TRUE, log |-> {}, lost |-> {}]]
                \in [Chat -> RoomState]
  <2>1. [who |-> who, live |-> TRUE, log |-> {}, lost |-> {}] \in RoomState
    BY DEF RoomState
  <2> QED BY <2>1 DEF TypeOK
<1> QED BY <1>2, <1>3, <1>4

LEMMA RoomEnds ==
    ASSUME TypeOK, NEW c \in Chat, room' = [room EXCEPT ![c].live = FALSE, ![c].log = {}]
    PROVE  /\ room'[c].who = room[c].who /\ ~room'[c].live
           /\ \A d \in Chat : d # c => room'[d] = room[d]
<1> DEFINE f == [room EXCEPT ![c].live = FALSE]
<1>1. f \in [Chat -> RoomState] /\ f[c].who = room[c].who /\ ~f[c].live
      /\ \A d \in Chat : d # c => f[d] = room[d]
  BY DEF TypeOK, RoomState
<1>2. room' = [f EXCEPT ![c].log = {}]
  OBVIOUS
<1> HIDE DEF f
<1> QED BY <1>1, <1>2 DEF RoomState

LEMMA CountTyped ==
    ASSUME TypeOK
    PROVE  /\ Refused => /\ count' \in [chats : 0..MaxChats, said : 0..MaxSaid,
                                        moves : 0..MaxMoves, acts : 0..MaxActs]
                         /\ count'.said = count.said /\ count'.chats = count.chats
           /\ Moves => /\ count' \in [chats : 0..MaxChats, said : 0..MaxSaid,
                                      moves : 0..MaxMoves, acts : 0..MaxActs]
                       /\ count'.said = count.said /\ count'.chats = count.chats
<1>1. ASSUME Refused
      PROVE  /\ count' \in [chats : 0..MaxChats, said : 0..MaxSaid,
                            moves : 0..MaxMoves, acts : 0..MaxActs]
             /\ count'.said = count.said /\ count'.chats = count.chats
  <2>1. count.acts + 1 \in 0..MaxActs
    BY <1>1, ChatAssumption DEF Refused, MayAct, TypeOK
  <2> QED BY <1>1, <2>1 DEF Refused, TypeOK
<1>2. ASSUME Moves
      PROVE  /\ count' \in [chats : 0..MaxChats, said : 0..MaxSaid,
                            moves : 0..MaxMoves, acts : 0..MaxActs]
             /\ count'.said = count.said /\ count'.chats = count.chats
  <2>1. count.moves + 1 \in 0..MaxMoves /\ count.acts + 1 \in 0..MaxActs
    BY <1>2, ChatAssumption DEF Moves, MayAct, TypeOK
  <2> QED BY <1>2, <2>1 DEF Moves, TypeOK
<1> QED BY <1>1, <1>2

\* The first event from a browser is taken off the wire.
LEMMA ArrivesTyped ==
    ASSUME TypeOK, NEW u \in User, NEW do, Arrives(u, do)
    PROVE  /\ up' \in [User -> Seq(ToServer)]
           /\ up[u] \in Seq(ToServer) /\ up[u] # <<>> /\ up'[u] = Tail(up[u])
           /\ \A v \in User : v # u => up'[v] = up[v]
           /\ Head(up[u]) \in ToServer /\ Head(up[u]).do = do
           /\ Head(up[u]) = up[u][1] /\ 1 \in DOMAIN up[u]
<1>1. up[u] \in Seq(ToServer) /\ up[u] # <<>>
  BY DEF TypeOK, Arrives
<1>2. /\ Tail(up[u]) \in Seq(ToServer) /\ Head(up[u]) = up[u][1] /\ 1 \in DOMAIN up[u]
      /\ up[u][1] \in ToServer
  BY <1>1, TailOf
<1> QED BY <1>1, <1>2 DEF TypeOK, Arrives

\* The key of a user's room names a chat of the user that goes on, if there is one.
LEMMA KeyIs ==
    ASSUME NEW u
    PROVE  /\ KeyOf(u) \in Chat \cup {NoChat}
           /\ KeyOf(u) = NoChat => \A c \in Chat : ~In(u, c)
           /\ KeyOf(u) # NoChat => KeyOf(u) \in Chat /\ In(u, KeyOf(u))
<1>1. NoChat \notin Chat
  BY ChatAssumption DEF Chat, NoChat
<1> QED BY <1>1 DEF KeyOf, In

\* The first call is about a message and a chat.
LEMMA HeadTyped ==
    ASSUME TypeOK, NEW at, Answered(at)
    PROVE  /\ calls \in Seq(CallState) /\ calls # <<>>
           /\ Head(calls) \in CallState /\ Head(calls).at = at
           /\ Head(calls).what \in Message /\ Head(calls).chat \in Chat
           /\ Head(calls) = calls[1] /\ 1 \in DOMAIN calls
           /\ Tail(calls) \in Seq(CallState)
<1>1. calls \in Seq(CallState) /\ calls # <<>>
  BY DEF TypeOK, Answered
<1>2. Head(calls) = calls[1] /\ 1 \in DOMAIN calls /\ Tail(calls) \in Seq(CallState)
      /\ calls[1] \in CallState
  BY <1>1, TailOf
<1> QED BY <1>1, <1>2 DEF Answered, CallState

LEMMA AsksTyped ==
    ASSUME TypeOK, NEW at, Answered(at), NEW next \in {"store", "stored"}, Asks(next)
    PROVE  /\ calls' \in Seq(CallState)
           /\ calls' = Append(Tail(calls), [Head(calls) EXCEPT !.at = next])
           /\ [Head(calls) EXCEPT !.at = next] \in CallState
<1>1. Head(calls) \in CallState /\ Tail(calls) \in Seq(CallState)
  BY HeadTyped
<1>2. [Head(calls) EXCEPT !.at = next] \in CallState
  BY <1>1 DEF CallState
<1> QED BY <1>1, <1>2 DEF Asks

LEMMA JoinTyped ==
    ASSUME TypeOK, NEW u \in User, Join(u)
    PROVE  TypeOK'
<1>1. up' \in [User -> Seq(ToServer)]
  BY ArrivesTyped DEF Join
<1>2. srv' \in [User -> SocketState]
  <2>1. [srv EXCEPT ![u].st = "queue"] \in [User -> SocketState]
    BY DEF TypeOK, SocketState
  <2>2. [srv EXCEPT ![u].st = "queue", ![u].chat = NoChat] \in [User -> SocketState]
    BY <2>1 DEF SocketState
  <2>3. [srv EXCEPT ![u].st = "idle"] \in [User -> SocketState]
    BY DEF TypeOK, SocketState
  <2> QED BY <2>2, <2>3 DEF Join
<1>3. down' \in [User -> Seq(ToBrowser)]
  BY TellTyped, ItemMade DEF Join, TypeOK
<1> QED BY <1>1, <1>2, <1>3 DEF Join, TypeOK

LEMMA PairTyped ==
    ASSUME TypeOK, NEW who \in SUBSET Partner, Pair(who)
    PROVE  TypeOK'
<1> DEFINE c == count.chats + 1
<1>1. c \in Chat /\ c \in 0..MaxChats
  BY ChatAssumption DEF Pair, Chat
<1>2. room' \in [Chat -> RoomState]
  BY <1>1, RoomTyped DEF Pair
<1>3. srv' \in [User -> SocketState]
  <2>1. ASSUME NEW u \in User
        PROVE  [st |-> "active", chat |-> c, rooms |-> srv[u].rooms \cup {c}] \in SocketState
    BY <1>1 DEF TypeOK, SocketState
  <2> QED BY <2>1 DEF Pair, TypeOK
<1>4. down' \in [User -> Seq(ToBrowser)]
  BY <1>1, TellTyped, ItemMade DEF Pair, TypeOK
<1>5. count' \in [chats : 0..MaxChats, said : 0..MaxSaid, moves : 0..MaxMoves,
                  acts : 0..MaxActs]
  BY <1>1 DEF Pair, TypeOK
<1> QED BY <1>2, <1>3, <1>4, <1>5 DEF Pair, TypeOK

LEMMA LeaveTyped ==
    ASSUME TypeOK, NEW u \in User, Leave(u)
    PROVE  TypeOK'
<1>1. up' \in [User -> Seq(ToServer)]
  BY ArrivesTyped DEF Leave
<1>2. leave' \in [User -> Chat \cup {NoChat}]
  BY KeyIs DEF Leave, TypeOK
<1>3. UNCHANGED <<room, srv, down, calls, scans, replies, cli, owed>>
  BY DEF Leave
<1>4. CASE UNCHANGED count
  BY <1>1, <1>2, <1>3, <1>4 DEF TypeOK
<1>5. CASE Refused
  BY <1>1, <1>2, <1>3, <1>5, CountTyped DEF TypeOK
<1> QED BY <1>4, <1>5 DEF Leave, Fails

LEMMA DepartTyped ==
    ASSUME TypeOK, NEW u \in User, Depart(u)
    PROVE  TypeOK'
<1>1. leave[u] \in Chat
  BY DEF Depart, TypeOK
<1>2. room' \in [Chat -> RoomState]
  BY <1>1, RoomTyped DEF Depart, TypeOK
<1>3. srv' \in [User -> SocketState]
  <2>1. ASSUME NEW v \in User
        PROVE  [st |-> "idle", chat |-> NoChat, rooms |-> srv[v].rooms \ {leave[u]}]
                 \in SocketState
    BY DEF TypeOK, SocketState
  <2> QED BY <2>1 DEF Depart, TypeOK
<1>4. down' \in [User -> Seq(ToBrowser)]
  BY TellTyped, ItemMade DEF Depart, TypeOK
<1>5. leave' \in [User -> Chat \cup {NoChat}] /\ owed' \in SUBSET Message
  BY DEF Depart, TypeOK
<1> QED BY <1>2, <1>3, <1>4, <1>5 DEF Depart, TypeOK

LEMMA RefuseTyped ==
    ASSUME TypeOK, NEW u, NEW m, NEW item \in {"over", "error"}, Refuse(u, m, item)
    PROVE  down' \in [User -> Seq(ToBrowser)] /\ owed' \in SUBSET Message
BY TellTyped, ItemMade DEF Refuse, TypeOK

LEMMA ReceiveMessageTyped ==
    ASSUME TypeOK, NEW u \in User, ReceiveMessage(u)
    PROVE  TypeOK'
<1> DEFINE m == Head(up[u]).what
           call == [at |-> "room", what |-> m, chat |-> KeyOf(u)]
<1>1. up' \in [User -> Seq(ToServer)] /\ m \in Message
  BY ArrivesTyped, AskFields DEF ReceiveMessage
<1>2. UNCHANGED <<room, srv, leave, scans, replies, cli>>
  BY DEF ReceiveMessage
<1>3. CASE Refused /\ Refuse(u, m, "error") /\ UNCHANGED calls
  BY <1>1, <1>2, <1>3, RefuseTyped, CountTyped DEF TypeOK
<1>4. CASE Refuse(u, m, "over") /\ UNCHANGED <<calls, count>>
  BY <1>1, <1>2, <1>4, RefuseTyped DEF TypeOK
<1>5. CASE KeyOf(u) # NoChat /\ calls' = Append(calls, call) /\ UNCHANGED <<down, owed, count>>
  <2>1. call \in CallState
    BY <1>1, <1>5, KeyIs DEF CallState
  <2>2. calls' \in Seq(CallState)
    BY <1>5, <2>1, AppendOf DEF TypeOK
  <2> QED BY <1>1, <1>2, <1>5, <2>2 DEF TypeOK
<1> QED BY <1>3, <1>4, <1>5 DEF ReceiveMessage

LEMMA FindRoomTyped ==
    ASSUME TypeOK, FindRoom
    PROVE  TypeOK'
<1>1. Answered("room") /\ UNCHANGED <<room, srv, leave, up, scans, replies, cli>>
  BY DEF FindRoom
<1>2. CASE Asks("store") /\ UNCHANGED <<down, owed, count>>
  <2>1. calls' \in Seq(CallState)
    BY <1>1, <1>2, AsksTyped
  <2> QED BY <1>1, <1>2, <2>1 DEF TypeOK
<1>3. CASE /\ Fails \/ UNCHANGED count
           /\ calls' = Tail(calls) /\ Refuse(Head(calls).what.by, Head(calls).what, "over")
  <2>1. calls' \in Seq(CallState)
    BY <1>1, <1>3, HeadTyped
  <2>2. down' \in [User -> Seq(ToBrowser)] /\ owed' \in SUBSET Message
    BY <1>1, <1>3, HeadTyped, RefuseTyped
  <2>3. CASE Refused
    BY <1>1, <2>1, <2>2, <2>3, CountTyped DEF TypeOK
  <2>4. CASE UNCHANGED count
    BY <1>1, <2>1, <2>2, <2>4 DEF TypeOK
  <2> QED BY <1>3, <2>3, <2>4 DEF Fails
<1> QED BY <1>2, <1>3 DEF FindRoom

LEMMA StoreTyped ==
    ASSUME TypeOK, Store
    PROVE  TypeOK'
<1> DEFINE m == Head(calls)
<1>1. Answered("store") /\ Asks("stored")
      /\ UNCHANGED <<srv, leave, up, down, scans, replies, cli, owed>>
  BY DEF Store
<1>2. calls' \in Seq(CallState)
  BY <1>1, AsksTyped
<1>3. m.chat \in Chat /\ m.what \in Message
  BY <1>1, HeadTyped
<1> HIDE DEF m
<1>4. /\ room[m.chat].log \cup {m.what} \in SUBSET Message
      /\ room[m.chat].lost \cup {m.what} \in SUBSET Message
  BY <1>3 DEF TypeOK, RoomState
<1>5. room' \in [Chat -> RoomState]
  <2>1. PICK c \in Chat, L \in SUBSET Message :
           room' = [room EXCEPT ![c].log = L] \/ room' = [room EXCEPT ![c].lost = L]
    BY <1>3, <1>4 DEF Store, m
  <2>2. /\ [room EXCEPT ![c].log = L] \in [Chat -> RoomState]
        /\ [room EXCEPT ![c].lost = L] \in [Chat -> RoomState]
    BY RoomTyped
  <2> QED BY <2>1, <2>2
<1>6. CASE UNCHANGED count
  BY <1>1, <1>2, <1>5, <1>6 DEF TypeOK
<1>7. CASE Refused
  BY <1>1, <1>2, <1>5, <1>7, CountTyped DEF TypeOK
<1> QED BY <1>6, <1>7 DEF Store, Fails

\* The end of handleMessage sends the message to those who listen to the chat, and maybe an
\* indicator of the bot to the one who said it.
LEMMA RelayShape ==
    ASSUME TypeOK, NEW m \in Message, NEW c \in Chat, m.by \in User, Relay(m, c)
    PROVE  /\ down' \in [User -> Seq(ToBrowser)] /\ replies' \in SUBSET ReplyState
           /\ count' \in [chats : 0..MaxChats, said : 0..MaxSaid, moves : 0..MaxMoves,
                          acts : 0..MaxActs]
           /\ count'.said = count.said /\ count'.chats = count.chats
           /\ \A v \in Listeners(c, m.by) : down'[v] = Append(down[v], SayMessage(m, c))
           /\ \A v \in User \ Listeners(c, m.by) :
                \/ down'[v] = down[v]
                \/ down'[v] = Append(down[v], SayTyping(Bot, TRUE))
           /\ \A r \in replies' : r \in replies \/ (Full(r.bot) /\ r.bot \in Chat)
<1> DEFINE heard == Tell(Listeners(c, m.by), SayMessage(m, c))
           b == srv[m.by].chat
           r == [what |-> m, chat |-> c, bot |-> b, at |-> "think"]
           withBot == b # NoChat /\ Bot \in room[b].who
<1>1. SayMessage(m, c) \in ToBrowser /\ SayTyping(Bot, TRUE) \in ToBrowser
  BY ItemMade DEF Partner
<1>2. /\ heard \in [User -> Seq(ToBrowser)]
      /\ \A v \in User : heard[v] = IF v \in Listeners(c, m.by)
                                    THEN Append(down[v], SayMessage(m, c)) ELSE down[v]
  BY <1>1, TellTyped DEF TypeOK
<1>3. m.by \notin Listeners(c, m.by) /\ Listeners(c, m.by) \subseteq User
  BY DEF Listeners
<1>4. CASE down' = heard /\ UNCHANGED <<replies, count>>
  BY <1>2, <1>3, <1>4 DEF TypeOK
<1>5. CASE Refused /\ down' = heard /\ UNCHANGED replies
  BY <1>2, <1>3, <1>5, CountTyped DEF TypeOK
<1>6. CASE /\ withBot /\ down' = [heard EXCEPT ![m.by] = Append(@, SayTyping(Bot, TRUE))]
           /\ replies' = replies \cup {r} /\ UNCHANGED count
  <2>1. /\ down' \in [User -> Seq(ToBrowser)]
        /\ \A v \in User : v # m.by => down'[v] = heard[v]
        /\ m.by \in User => down'[m.by] = Append(heard[m.by], SayTyping(Bot, TRUE))
    <3>1. heard \in [User -> Seq(ToBrowser)] /\ heard[m.by] \in Seq(ToBrowser)
      BY <1>2
    <3>2. Append(heard[m.by], SayTyping(Bot, TRUE)) \in Seq(ToBrowser)
      BY <1>1, <3>1, AppendOf
    <3>3. down' = [heard EXCEPT ![m.by] = Append(@, SayTyping(Bot, TRUE))]
      BY <1>6
    <3> HIDE DEF heard
    <3> QED BY <3>1, <3>2, <3>3
  <2>2. b \in Chat
    BY <1>6 DEF TypeOK, SocketState
  <2>3. r \in ReplyState
    BY <2>2 DEF ReplyState
  <2>4. \A q \in replies' : q \in replies \/ (Full(q.bot) /\ q.bot \in Chat)
    BY <1>6, <2>2 DEF Full
  <2>5. replies' \in SUBSET ReplyState
    BY <1>6, <2>3 DEF TypeOK
  <2>6. \A v \in User \ Listeners(c, m.by) :
          down'[v] = down[v] \/ down'[v] = Append(down[v], SayTyping(Bot, TRUE))
    <3> HIDE DEF heard
    <3> QED BY <1>2, <1>3, <2>1
  <2>7. \A v \in Listeners(c, m.by) : down'[v] = Append(down[v], SayMessage(m, c))
    <3> HIDE DEF heard
    <3> QED BY <1>2, <1>3, <2>1
  <2>8. /\ count' \in [chats : 0..MaxChats, said : 0..MaxSaid, moves : 0..MaxMoves,
                       acts : 0..MaxActs]
        /\ count'.said = count.said /\ count'.chats = count.chats
    BY <1>6 DEF TypeOK
  <2> QED BY <2>1, <2>4, <2>5, <2>6, <2>7, <2>8
<1> QED BY <1>4, <1>5, <1>6 DEF Relay

LEMMA ScanTyped ==
    ASSUME TypeOK, Messages, Scan
    PROVE  TypeOK'
<1> DEFINE m == Head(calls).what
           c == Head(calls).chat
<1>1. Answered("stored") /\ calls' = Tail(calls) /\ UNCHANGED <<room, srv, leave, up, cli, owed>>
  BY DEF Scan
<1>2. m \in Message /\ c \in Chat /\ calls' \in Seq(CallState) /\ m.by \in User
  BY <1>1, HeadTyped DEF Messages, CallsMade, Taken, Said
<1>3. CASE /\ scans' = scans \cup {[what |-> m, chat |-> c]}
           /\ UNCHANGED <<down, replies, count>>
  BY <1>1, <1>2, <1>3 DEF TypeOK
<1>4. CASE Relay(m, c) /\ UNCHANGED scans
  BY <1>1, <1>2, <1>4, RelayShape DEF TypeOK
<1> QED BY <1>3, <1>4 DEF Scan

LEMMA ScannedTyped ==
    ASSUME TypeOK, Messages, NEW s \in scans, Scanned(s)
    PROVE  TypeOK'
<1>1. s.what \in Message /\ s.chat \in Chat /\ s.what.by \in User
  BY DEF TypeOK, Messages, ScansMade, Taken, Said
<1>2. Relay(s.what, s.chat) /\ scans' = scans \ {s}
      /\ UNCHANGED <<room, srv, leave, up, calls, cli, owed>>
  BY DEF Scanned
<1> QED BY <1>1, <1>2, RelayShape DEF TypeOK

LEMMA BotTyped ==
    ASSUME TypeOK, NEW r \in replies, BotStep(r)
    PROVE  TypeOK'
<1>1. r.what \in Message /\ r.chat \in Chat /\ r.bot \in Chat /\ replies \ {r} \in SUBSET ReplyState
  BY DEF TypeOK, ReplyState
<1> DEFINE off == SayTyping(Bot, FALSE)
           over == [say |-> "over"]
           m == [by |-> Bot, chat |-> r.bot, n |-> 0, hot |-> FALSE]
<1>2. off \in ToBrowser /\ over \in ToBrowser
  BY ItemMade DEF Partner
<1>3. m \in Message
  BY <1>1, ChatAssumption DEF Message, Partner
<1>4. SayMessage(m, r.bot) \in ToBrowser
  BY <1>1, <1>3, ItemMade
<1>5. ASSUME NEW x \in ToBrowser, NEW y \in ToBrowser, NEW u,
             down' = [down EXCEPT ![u] = @ \o <<x, y>>]
      PROVE  down' \in [User -> Seq(ToBrowser)]
  <2>1. ASSUME u \in User
        PROVE  down[u] \o <<x, y>> \in Seq(ToBrowser)
    BY <2>1 DEF TypeOK
  <2> QED BY <1>5, <2>1 DEF TypeOK
<1>6. CASE BotIsSilent(r)
  BY <1>1, <1>2, <1>6, TellTyped DEF BotIsSilent, TypeOK
<1>7. CASE BotFails(r)
  <2>1. CASE room[r.bot].live
    <3>1. down' \in [User -> Seq(ToBrowser)]
      BY <1>2, <1>5, <1>7, <2>1 DEF BotFails
    <3>2. room' \in [Chat -> RoomState]
      BY <1>1, <1>7, <2>1, RoomTyped DEF BotFails
    <3>3. /\ owed' = {what \in owed : what.chat # r.bot} /\ replies' = replies \ {r}
          /\ UNCHANGED <<srv, leave, up, calls, scans, cli, count>>
      BY <1>7, <2>1 DEF BotFails
    <3> QED BY <1>1, <3>1, <3>2, <3>3 DEF TypeOK
  <2>2. CASE ~room[r.bot].live
    <3>1. down' \in [User -> Seq(ToBrowser)]
      <4>1. down' = Tell({r.what.by}, off)
        BY <1>7, <2>2 DEF BotFails
      <4>2. down \in [User -> Seq(ToBrowser)]
        BY DEF TypeOK
      <4> QED BY <1>2, <4>1, <4>2, TellTyped
    <3>2. /\ replies' = replies \ {r}
          /\ UNCHANGED <<room, owed, srv, leave, up, calls, scans, cli, count>>
      BY <1>7, <2>2 DEF BotFails
    <3> QED BY <1>1, <3>1, <3>2 DEF TypeOK
  <2> QED BY <2>1, <2>2
<1>8. CASE BotAnswers(r)
  <2>1. [r EXCEPT !.at = "type"] \in ReplyState
    BY DEF TypeOK, ReplyState
  <2> QED BY <1>1, <1>8, <2>1 DEF BotAnswers, TypeOK
<1>9. CASE BotSays(r)
  <2>1. down' \in [User -> Seq(ToBrowser)]
    BY <1>2, <1>4, <1>5, <1>9 DEF BotSays
  <2>2. room[r.chat].log \cup {m} \in SUBSET Message
    BY <1>1, <1>3 DEF TypeOK, RoomState
  <2>3. room' \in [Chat -> RoomState]
    BY <1>1, <1>9, <2>2, RoomTyped DEF BotSays
  <2> QED BY <1>1, <1>9, <2>1, <2>3 DEF BotSays, TypeOK
<1> QED BY <1>6, <1>7, <1>8, <1>9 DEF BotStep

LEMMA ReceiveTypingTyped ==
    ASSUME TypeOK, NEW u \in User, ReceiveTyping(u)
    PROVE  TypeOK'
<1>1. up' \in [User -> Seq(ToServer)] /\ Head(up[u]).on \in BOOLEAN
  BY ArrivesTyped, AskFields DEF ReceiveTyping
<1>2. SayTyping(u, Head(up[u]).on) \in ToBrowser
  BY <1>1, ItemMade DEF Partner
<1>3. down' \in [User -> Seq(ToBrowser)]
  BY <1>2, TellTyped DEF ReceiveTyping, TypeOK
<1>4. count' \in [chats : 0..MaxChats, said : 0..MaxSaid, moves : 0..MaxMoves,
                  acts : 0..MaxActs]
  BY CountTyped DEF ReceiveTyping, TypeOK
<1> QED BY <1>1, <1>3, <1>4 DEF ReceiveTyping, TypeOK

-----------------------------------------------------------------------------
(* Steps of a page.                                                         *)

Served(k) == k.at = "in" /\ ~k.halted => k.match # NoChat

\* A page that n follows k on gets no message and no match: it shows what it did or nothing,
\* it is in no session that it was not in, and it has buttons only with a chat.
Quiets(k, n) ==
    /\ n \in PageState /\ Tidy(n) /\ Served(n)
    /\ Screen(n) \in {Screen(k), <<>>}
    /\ n.match \in {k.match, NoChat}
    /\ n.at = "in" => k.at = "in"

PageQuiets(u) ==
    /\ cli' \in [User -> PageState]
    /\ \A v \in User : v # u => cli'[v] = cli[v]
    /\ Quiets(cli[u], cli'[u])

LEMMA QuietSame ==
    ASSUME TypeOK, NEW u \in User, Tidy(cli[u]), Served(cli[u]), UNCHANGED cli
    PROVE  PageQuiets(u)
BY DEF TypeOK, PageQuiets, Quiets

LEMMA QuietSet ==
    ASSUME TypeOK, NEW u \in User, NEW n, Quiets(cli[u], n), cli' = [cli EXCEPT ![u] = n]
    PROVE  PageQuiets(u)
BY DEF TypeOK, PageQuiets, Quiets

\* The page whose messages are cleared, wherever it goes with or without its chat.
LEMMA QuietCleared ==
    ASSUME NEW k \in PageState,
           NEW at \in {"out", "search", "next", "ending"}, NEW c \in {k.match, NoChat},
           NEW h \in BOOLEAN
    PROVE  Quiets(k, [Cleared(k) EXCEPT !.at = at, !.match = c, !.halted = h])
<1>1. Cleared(k) \in PageState /\ Cleared(k).shown = <<>> /\ Cleared(k).kept = Blank
  BY ClearedTyped
<1> DEFINE n == [Cleared(k) EXCEPT !.at = at, !.match = c, !.halted = h]
<1>2. c \in Chat \cup {NoChat}
  BY DEF PageState
<1>3. [Cleared(k) EXCEPT !.at = at] \in PageState
  BY <1>1 DEF PageState
<1>4. [Cleared(k) EXCEPT !.at = at, !.match = c] \in PageState
  BY <1>2, <1>3 DEF PageState
<1>5. n \in PageState
  BY <1>4 DEF PageState
<1>6. n.at = at /\ n.match = c /\ n.shown = <<>> /\ n.kept = Blank
  BY <1>1 DEF PageState
<1>7. at # "in" /\ Blank.shown = <<>>
  BY DEF Blank
<1>8. Quiets(k, n)
  <2> HIDE DEF n
  <2> QED BY <1>5, <1>6, <1>7 DEF Quiets, Tidy, Served, Screen
<1> QED BY <1>8

\* The page that goes from one place to another outside a session, or loses its buttons.
LEMMA QuietGoes ==
    ASSUME NEW k \in PageState, Tidy(k), Served(k),
           NEW at \in {"out", "search", "in", "next", "ending"}, NEW c \in {k.match, NoChat},
           NEW h \in BOOLEAN,
           (at = "in") = (k.at = "in"), at = "in" => h \/ (c = k.match /\ h = k.halted)
    PROVE  Quiets(k, [k EXCEPT !.at = at, !.match = c, !.halted = h])
<1> DEFINE n == [k EXCEPT !.at = at, !.match = c, !.halted = h]
<1>1. c \in Chat \cup {NoChat}
  BY DEF PageState
<1>2. [k EXCEPT !.at = at] \in PageState
  BY DEF PageState
<1>3. [k EXCEPT !.at = at, !.match = c] \in PageState
  BY <1>1, <1>2 DEF PageState
<1>4. n \in PageState
  BY <1>3 DEF PageState
<1>5. n.at = at /\ n.match = c /\ n.halted = h /\ n.shown = k.shown /\ n.kept = k.kept
  BY DEF PageState
<1>6. Quiets(k, n)
  <2> HIDE DEF n
  <2> QED BY <1>4, <1>5 DEF Quiets, Tidy, Served, Screen
<1> QED BY <1>6

\* The indicators of typing say nothing of a message.
LEMMA QuietTyping ==
    ASSUME NEW k \in PageState, Tidy(k), Served(k)
    PROVE  /\ Quiets(k, [k EXCEPT !.sees = NoChat, !.hides = FALSE])
           /\ \A b \in BOOLEAN : Quiets(k, [k EXCEPT !.typed = b])
<1>1. Quiets(k, [k EXCEPT !.sees = NoChat, !.hides = FALSE])
  <2> DEFINE n == [k EXCEPT !.sees = NoChat, !.hides = FALSE]
  <2>1. [k EXCEPT !.sees = NoChat] \in PageState
    BY DEF PageState
  <2>2. n \in PageState
    BY <2>1 DEF PageState
  <2>3. n.at = k.at /\ n.match = k.match /\ n.halted = k.halted /\ n.shown = k.shown
        /\ n.kept = k.kept
    BY DEF PageState
  <2>4. Quiets(k, n)
    <3> HIDE DEF n
    <3> QED BY <2>2, <2>3 DEF Quiets, Tidy, Served, Screen
  <2> QED BY <2>4
<1>2. ASSUME NEW b \in BOOLEAN
      PROVE  Quiets(k, [k EXCEPT !.typed = b])
  <2> DEFINE n == [k EXCEPT !.typed = b]
  <2>1. n \in PageState
    BY DEF PageState
  <2>2. n.at = k.at /\ n.match = k.match /\ n.halted = k.halted /\ n.shown = k.shown
        /\ n.kept = k.kept
    BY DEF PageState
  <2>3. Quiets(k, n)
    <3> HIDE DEF n
    <3> QED BY <2>1, <2>2 DEF Quiets, Tidy, Served, Screen
  <2> QED BY <2>3
<1> QED BY <1>1, <1>2

\* What somebody does at a page is quiet, and sends no message unless he says it.
LEMMA PersonQuiet ==
    ASSUME TypeOK, NEW u \in User, Tidy(cli[u]), Served(cli[u]),
           Person(u) \/ NextJoins(u) \/ EndFinishes(u) \/ HideTyping(u)
    PROVE  PageQuiets(u)
<1> DEFINE k == cli[u]
<1>1. k \in PageState
  BY DEF TypeOK
<1>2. CASE HideTyping(u)
  <2>1. cli' = [cli EXCEPT ![u] = [k EXCEPT !.sees = NoChat, !.hides = FALSE]]
    BY <1>2 DEF HideTyping
  <2> QED BY <1>1, <2>1, QuietTyping, QuietSet
<1>3. CASE Say(u)
  BY <1>3, QuietSame DEF Say
<1>4. ASSUME NEW b \in BOOLEAN, SendTyping(u, b)
      PROVE  PageQuiets(u)
  <2>1. cli' = [cli EXCEPT ![u] = [k EXCEPT !.typed = b]]
    BY <1>4 DEF SendTyping
  <2> QED BY <1>1, <2>1, QuietTyping, QuietSet
<1>5. CASE StartTyping(u) \/ StopTyping(u)
  BY <1>4, <1>5 DEF StartTyping, StopTyping
<1>6. CASE Start(u)
  <2>1. k.at = "out" /\ cli' = [cli EXCEPT ![u] = [k EXCEPT !.at = "search"]]
    BY <1>6 DEF Start, Goes
  <2>2. [k EXCEPT !.at = "search"]
          = [k EXCEPT !.at = "search", !.match = k.match, !.halted = k.halted]
    BY <1>1 DEF PageState
  <2>3. Quiets(k, [k EXCEPT !.at = "search", !.match = k.match, !.halted = k.halted])
    <3>1. k.halted \in BOOLEAN
      BY <1>1 DEF PageState
    <3> QED BY <1>1, <2>1, <3>1, QuietGoes
  <2> QED BY <2>1, <2>2, <2>3, QuietSet
<1>7. CASE FindNext(u)
  <2>1. cli' = [cli EXCEPT ![u] = [Cleared(k) EXCEPT !.at = "next", !.match = NoChat]]
    BY <1>7 DEF FindNext, Goes
  <2>2. [Cleared(k) EXCEPT !.at = "next", !.match = NoChat]
          = [Cleared(k) EXCEPT !.at = "next", !.match = NoChat, !.halted = k.halted]
    BY <1>1, ClearedTyped DEF PageState
  <2>3. k.halted \in BOOLEAN
    BY <1>1 DEF PageState
  <2> QED BY <1>1, <2>1, <2>2, <2>3, QuietCleared, QuietSet
<1>8. CASE NextJoins(u)
  <2>1. k.at = "next" /\ cli' = [cli EXCEPT ![u] = [k EXCEPT !.at = "search", !.halted = FALSE]]
    BY <1>8 DEF NextJoins, Goes
  <2>2. [k EXCEPT !.at = "search", !.halted = FALSE]
          = [k EXCEPT !.at = "search", !.match = k.match, !.halted = FALSE]
    BY <1>1 DEF PageState
  <2>3. Quiets(k, [k EXCEPT !.at = "search", !.match = k.match, !.halted = FALSE])
    BY <1>1, <2>1, QuietGoes
  <2> QED BY <2>1, <2>2, <2>3, QuietSet
<1>9. CASE End(u)
  <2>1. cli' = [cli EXCEPT ![u] = [Cleared(k) EXCEPT !.at = "ending"]]
    BY <1>9 DEF End, Goes
  <2>2. [Cleared(k) EXCEPT !.at = "ending"]
          = [Cleared(k) EXCEPT !.at = "ending", !.match = k.match, !.halted = k.halted]
    BY <1>1, ClearedTyped DEF PageState
  <2>3. k.halted \in BOOLEAN
    BY <1>1 DEF PageState
  <2> QED BY <1>1, <2>1, <2>2, <2>3, QuietCleared, QuietSet
<1>10. CASE EndFinishes(u)
  <2> DEFINE h == k.halted /\ k.match = NoChat
  <2>1. k.at = "ending"
        /\ cli' = [cli EXCEPT ![u] = [k EXCEPT !.at = "out", !.match = NoChat, !.halted = h]]
    BY <1>10 DEF EndFinishes, Goes
  <2>2. h \in BOOLEAN
    OBVIOUS
  <2>3. Quiets(k, [k EXCEPT !.at = "out", !.match = NoChat, !.halted = h])
    <3> HIDE DEF h
    <3> QED BY <1>1, <2>1, <2>2, QuietGoes
  <2> QED BY <2>1, <2>3, QuietSet
<1> QED BY <1>2, <1>3, <1>5, <1>6, <1>7, <1>8, <1>9, <1>10 DEF Person

\* A message that comes to a page is added to what it shows or will show.
LEMMA ReceiveItemShape ==
    ASSUME TypeOK, NEW u \in User, Tidy(cli[u]), Served(cli[u]), ReceiveItem(u)
    PROVE  /\ down[u] # <<>> /\ down[u][1].say \in {"message", "typing"}
           /\ cli' \in [User -> PageState]
           /\ \A v \in User : v # u => cli'[v] = cli[v]
           /\ Tidy(cli'[u]) /\ Served(cli'[u])
           /\ Screen(cli'[u]) = IF down[u][1].say = "message"
                                THEN Append(Screen(cli[u]), down[u][1].what)
                                ELSE Screen(cli[u])
           /\ cli'[u].at = cli[u].at /\ cli'[u].match = cli[u].match
<1> DEFINE k == cli[u]
           x == down[u][1]
           n == IF k.at = "in" THEN Ingest(k, x) ELSE Keep(k, x)
<1>1. k \in PageState /\ down[u] \in Seq(ToBrowser) /\ down[u] # <<>>
  BY DEF TypeOK, ReceiveItem
<1>2. Head(down[u]) = x /\ x \in ToBrowser
  BY <1>1, TailOf
<1>3. x.say \in {"message", "typing"}
  BY <1>2 DEF ReceiveItem
<1>4. cli' = [cli EXCEPT ![u] = n]
  BY <1>2 DEF ReceiveItem
<1>5. /\ n \in PageState /\ n.at = k.at /\ n.match = k.match /\ n.halted = k.halted
      /\ Tidy(n)
      /\ Screen(n) = IF x.say = "message" THEN Append(Screen(k), x.what) ELSE Screen(k)
  <2>1. CASE k.at = "in"
    <3>1. n = Ingest(k, x)
      BY <2>1
    <3> HIDE DEF n
    <3> QED BY <1>1, <1>2, <1>3, <2>1, <3>1, IngestTyped DEF Tidy, Screen
  <2>2. CASE k.at # "in"
    <3>1. n = Keep(k, x)
      BY <2>2
    <3>2. n.at = k.at /\ n.match = k.match /\ n.halted = k.halted /\ n.shown = k.shown
      BY <1>1, <3>1 DEF PageState, Keep
    <3> HIDE DEF n
    <3> QED BY <1>1, <1>2, <1>3, <2>2, <3>1, <3>2, IngestTyped DEF Tidy, Screen
  <2> QED BY <2>1, <2>2
<1>6. cli'[u] = n /\ cli' \in [User -> PageState] /\ \A v \in User : v # u => cli'[v] = cli[v]
  <2> HIDE DEF n
  <2> QED BY <1>4, <1>5 DEF TypeOK
<1>7. Served(n)
  <2> HIDE DEF n
  <2> QED BY <1>5 DEF Served
<1> HIDE DEF n
<1> QED BY <1>1, <1>3, <1>5, <1>6, <1>7

\* Any other news changes nothing of what a page shows, but may end the session; a match is
\* the only one that begins a session.
LEMMA ReceiveStatusShape ==
    ASSUME TypeOK, NEW u \in User, Tidy(cli[u]), Served(cli[u]), ReceiveStatus(u)
    PROVE  /\ down[u] # <<>> /\ down[u][1].say \notin {"message", "typing"}
           /\ down[u][1].say # "matched" => PageQuiets(u)
           /\ down[u][1].say = "matched" =>
                /\ cli' \in [User -> PageState]
                /\ \A v \in User : v # u => cli'[v] = cli[v]
                /\ Tidy(cli'[u]) /\ Served(cli'[u])
                /\ Screen(cli'[u]) = Screen(cli[u])
                /\ cli'[u].match = down[u][1].chat
<1> DEFINE k == cli[u]
           x == down[u][1]
<1>1. k \in PageState /\ down[u] \in Seq(ToBrowser) /\ down[u] # <<>>
  BY DEF TypeOK, ReceiveStatus
<1>2. Head(down[u]) = x /\ x \in ToBrowser
  BY <1>1, TailOf
<1>3. x.say \notin {"message", "typing"}
  BY <1>2 DEF ReceiveStatus
<1>4. CASE x.say = "matched"
  <2>1. cli' = [cli EXCEPT ![u] = OnMatched(k, x.chat)]
    BY <1>2, <1>4 DEF ReceiveStatus
  <2>2. x.chat \in Chat /\ NoChat \notin Chat
    BY <1>2, <1>4, ItemFields, ChatAssumption DEF Chat, NoChat
  <2> DEFINE n == OnMatched(k, x.chat)
  <2>3. n \in PageState /\ n.match = x.chat /\ Tidy(n) /\ Screen(n) = Screen(k)
    <3>1. CASE k.at \in {"next", "ending"}
      <4>1. n = [k EXCEPT !.match = x.chat, !.halted = FALSE]
        BY <3>1 DEF OnMatched
      <4>3. n \in PageState /\ n.match = x.chat
        BY <1>1, <2>2, <4>1, MatchTyped
      <4>4. n.at = k.at /\ n.shown = k.shown /\ n.kept = k.kept
        <5> HIDE DEF n, k
        <5> QED BY <1>1, <2>2, <4>1, MatchTyped
      <4> HIDE DEF n
      <4> QED BY <4>3, <4>4 DEF Tidy, Screen
    <3>2. CASE k.at \notin {"next", "ending"}
      <4> DEFINE d == Drained(k)
      <4>1. n = [d EXCEPT !.match = x.chat, !.halted = FALSE]
        BY <3>2 DEF OnMatched
      <4>2. /\ d \in PageState /\ d.at = "in" /\ (k.at = "in" => d = k)
            /\ k.at # "in" => d.shown = k.kept.shown /\ d.kept = Blank
        BY <1>1, DrainedTyped
      <4> HIDE DEF d
      <4>3. d \in PageState
        BY <4>2
      <4>4. n \in PageState /\ n.match = x.chat
        BY <2>2, <4>1, <4>3, MatchTyped
      <4>5. n.at = d.at /\ n.shown = d.shown /\ n.kept = d.kept
        <5> HIDE DEF n, k
        <5> QED BY <2>2, <4>1, <4>3, MatchTyped
      <4>6. Blank.shown = <<>>
        BY DEF Blank
      <4> HIDE DEF n
      <4>7. Screen(n) = Screen(k)
        BY <4>2, <4>5 DEF Screen
      <4> QED BY <4>2, <4>4, <4>5, <4>6, <4>7 DEF Tidy
    <3> QED BY <3>1, <3>2
  <2> HIDE DEF n
  <2>4. cli'[u] = n /\ cli' \in [User -> PageState]
        /\ \A v \in User : v # u => cli'[v] = cli[v]
    BY <2>1, <2>3 DEF n, TypeOK
  <2>5. Served(n)
    BY <2>2, <2>3 DEF Served
  <2> QED BY <1>1, <1>3, <1>4, <2>3, <2>4, <2>5
<1>5. CASE x.say = "over"
  <2>1. PICK n \in OnOver(k) : cli' = [cli EXCEPT ![u] = n]
    BY <1>2, <1>5 DEF ReceiveStatus
  <2>2. Quiets(k, n)
    <3>1. CASE n = [Cleared(k) EXCEPT !.at = "ending", !.match = NoChat, !.halted = FALSE]
      BY <1>1, <3>1, QuietCleared
    <3>2. CASE n = [k EXCEPT !.match = NoChat, !.halted = (k.at = "in")]
      <4> DEFINE h == (k.at = "in")
      <4>1. n = [k EXCEPT !.at = k.at, !.match = NoChat, !.halted = h]
        BY <1>1, <3>2 DEF PageState
      <4>2. k.at \in {"out", "search", "in", "next", "ending"} /\ h \in BOOLEAN
        BY <1>1 DEF PageState
      <4>3. k.at = "in" => h
        OBVIOUS
      <4> HIDE DEF h
      <4> QED BY <1>1, <4>1, <4>2, <4>3, QuietGoes
    <3> QED BY <2>1, <3>1, <3>2 DEF OnOver
  <2> QED BY <1>1, <1>3, <1>5, <2>1, <2>2, QuietSet
<1>6. CASE x.say = "error"
  <2>1. cli' = [cli EXCEPT ![u] = [k EXCEPT !.halted = TRUE]]
    BY <1>2, <1>6 DEF ReceiveStatus
  <2>2. [k EXCEPT !.halted = TRUE] = [k EXCEPT !.at = k.at, !.match = k.match, !.halted = TRUE]
    BY <1>1 DEF PageState
  <2>3. k.at \in {"out", "search", "in", "next", "ending"}
    BY <1>1 DEF PageState
  <2>4. Quiets(k, [k EXCEPT !.at = k.at, !.match = k.match, !.halted = TRUE])
    BY <1>1, <2>3, QuietGoes
  <2> QED BY <1>1, <1>3, <1>6, <2>1, <2>2, <2>4, QuietSet
<1>7. CASE x.say = "refused"
  <2> DEFINE at == IF k.at = "search" THEN "out" ELSE k.at
             h == (k.at = "in")
  <2>1. cli' = [cli EXCEPT ![u] = [k EXCEPT !.at = at, !.halted = h]]
    <3>1. cli' = [cli EXCEPT ![u].at = IF @ = "search" THEN "out" ELSE @,
                             ![u].halted = (cli[u].at = "in")]
      BY <1>2, <1>7 DEF ReceiveStatus
    <3> QED BY <3>1 DEF TypeOK
  <2>2. [k EXCEPT !.at = at, !.halted = h] = [k EXCEPT !.at = at, !.match = k.match, !.halted = h]
    BY <1>1 DEF PageState
  <2>3. at \in {"out", "search", "in", "next", "ending"} /\ h \in BOOLEAN
    BY <1>1 DEF PageState
  <2>4. (at = "in") = (k.at = "in") /\ (at = "in" => h)
    OBVIOUS
  <2>5. Quiets(k, [k EXCEPT !.at = at, !.match = k.match, !.halted = h])
    <3> HIDE DEF at, h
    <3> QED BY <1>1, <2>3, <2>4, QuietGoes
  <2> QED BY <1>1, <1>3, <1>7, <2>1, <2>2, <2>5, QuietSet
<1> QED BY <1>2, <1>4, <1>5, <1>6, <1>7, <1>3, ItemFields

\* What a page sends, when it is no message, comes last on its wire.
Beckons(u) ==
    /\ up' \in [User -> Seq(ToServer)]
    /\ \A v \in User : v # u => up'[v] = up[v]
    /\ \/ up'[u] = up[u]
       \/ \E x \in ToServer : x.do # "message" /\ up'[u] = Append(up[u], x)

\* What a page says is the next of all messages, by its user, in a chat of the user.
Speaks(u) ==
    /\ up' \in [User -> Seq(ToServer)] /\ count'.said = count.said + 1
    /\ \A v \in User : v # u => up'[v] = up[v]
    /\ \E x \in ToServer :
         /\ x.do = "message" /\ up'[u] = Append(up[u], x)
         /\ x.what.by = u /\ x.what.n = count.said + 1 /\ u \in room[x.what.chat].who

LEMMA SendBeckons ==
    ASSUME TypeOK, NEW u \in User, NEW x \in ToServer, x.do # "message",
           up' = [up EXCEPT ![u] = Append(@, x)]
    PROVE  Beckons(u)
<1>1. up[u] \in Seq(ToServer) /\ Append(up[u], x) \in Seq(ToServer)
  BY AppendOf DEF TypeOK
<1> QED BY <1>1 DEF Beckons, TypeOK

LEMMA GoesBeckons ==
    ASSUME TypeOK, NEW u \in User, NEW from, NEW k, NEW sends,
           sends \in {<<>>, Sends("join"), Sends("leave")}, Goes(u, from, k, sends)
    PROVE  Beckons(u) /\ UNCHANGED <<room, srv, leave, down, calls, scans, replies, owed>>
<1>1. up[u] \in Seq(ToServer) /\ up' = [up EXCEPT ![u] = @ \o sends]
  BY DEF TypeOK, Goes
<1>2. CASE sends = <<>>
  <2>1. up[u] \o sends = up[u]
    BY <1>1, <1>2
  <2> QED BY <1>1, <2>1 DEF Beckons, Goes, TypeOK
<1>3. ASSUME NEW do \in {"join", "leave"}, sends = Sends(do)
      PROVE  Beckons(u)
  <2>1. [do |-> do] \in ToServer /\ [do |-> do].do # "message"
    BY AskMade
  <2>2. up[u] \o sends = Append(up[u], [do |-> do])
    BY <1>1, <1>3, <2>1 DEF Sends
  <2> QED BY <1>1, <2>1, <2>2, SendBeckons
<1> QED BY <1>2, <1>3 DEF Goes

\* What a person, a button or a timer does.
LEMMA PersonShape ==
    ASSUME TypeOK, NEW u \in User, MatchOf(u, cli[u]),
           Person(u) \/ NextJoins(u) \/ EndFinishes(u) \/ HideTyping(u)
    PROVE  /\ UNCHANGED <<room, srv, leave, down, calls, scans, replies>>
           /\ owed' \in SUBSET Message
           /\ count' \in [chats : 0..MaxChats, said : 0..MaxSaid, moves : 0..MaxMoves,
                          acts : 0..MaxActs]
           /\ count'.chats = count.chats
           /\ (Beckons(u) /\ count'.said = count.said) \/ Speaks(u)
<1>1. owed \in SUBSET Message /\ up[u] \in Seq(ToServer) /\ cli[u] \in PageState
      /\ count \in [chats : 0..MaxChats, said : 0..MaxSaid, moves : 0..MaxMoves,
                    acts : 0..MaxActs]
  BY DEF TypeOK
<1>2. CASE HideTyping(u)
  BY <1>1, <1>2 DEF HideTyping, Beckons, TypeOK
<1>3. CASE Say(u)
  <2>1. PICK hot \in BOOLEAN :
          LET m == [by |-> u, chat |-> cli[u].match, n |-> count.said + 1, hot |-> hot]
          IN  /\ owed' = owed \cup {m}
              /\ up' = [up EXCEPT ![u] = Append(@, [do |-> "message", what |-> m])]
    BY <1>3 DEF Say
  <2> DEFINE m == [by |-> u, chat |-> cli[u].match, n |-> count.said + 1, hot |-> hot]
             x == [do |-> "message", what |-> m]
  <2>2. cli[u].match \in Chat /\ u \in room[cli[u].match].who
    BY <1>1, <1>3 DEF Say, MatchOf, PageState
  <2>3. count.said + 1 \in 0..MaxSaid /\ count.acts + 1 \in 0..MaxActs
    BY <1>1, <1>3, ChatAssumption DEF Say, MayAct
  <2>4. m \in Message
    BY <2>2, <2>3 DEF Message, Partner
  <2>5. x \in ToServer /\ x.do = "message" /\ x.what = m
    BY <2>4, AskMade
  <2>6. m.by = u /\ m.n = count.said + 1 /\ m.chat = cli[u].match
    OBVIOUS
  <2>7. owed' = owed \cup {m} /\ up' = [up EXCEPT ![u] = Append(@, x)]
    BY <2>1
  <2>8. /\ count' \in [chats : 0..MaxChats, said : 0..MaxSaid, moves : 0..MaxMoves,
                       acts : 0..MaxActs]
        /\ count'.said = count.said + 1 /\ count'.chats = count.chats
    BY <1>1, <1>3, <2>3 DEF Say
  <2> HIDE DEF m, x
  <2>9. up' \in [User -> Seq(ToServer)] /\ up'[u] = Append(up[u], x)
        /\ \A v \in User : v # u => up'[v] = up[v]
    <3>1. Append(up[u], x) \in Seq(ToServer)
      BY <1>1, <2>5, AppendOf
    <3> QED BY <2>7, <3>1 DEF TypeOK
  <2>10. Speaks(u)
    BY <2>2, <2>5, <2>6, <2>8, <2>9 DEF Speaks
  <2> QED BY <1>1, <1>3, <2>4, <2>7, <2>8, <2>10 DEF Say
<1>4. ASSUME NEW b \in BOOLEAN, SendTyping(u, b)
      PROVE  Beckons(u) /\ UNCHANGED <<room, srv, leave, down, calls, scans, replies, owed>>
  <2>1. [do |-> "typing", on |-> b] \in ToServer /\ [do |-> "typing", on |-> b].do # "message"
    BY AskMade
  <2>2. up' = [up EXCEPT ![u] = Append(@, [do |-> "typing", on |-> b])]
    BY <1>4 DEF SendTyping
  <2>3. Beckons(u)
    BY <2>1, <2>2, SendBeckons
  <2> QED BY <1>4, <2>3 DEF SendTyping
<1>5. CASE StartTyping(u)
  BY <1>1, <1>4, <1>5, CountTyped DEF StartTyping
<1>6. CASE StopTyping(u)
  BY <1>1, <1>4, <1>6 DEF StopTyping
<1>7. CASE Start(u)
  BY <1>1, <1>7, GoesBeckons DEF Start
<1>8. CASE FindNext(u)
  BY <1>1, <1>8, GoesBeckons, CountTyped DEF FindNext
<1>9. CASE NextJoins(u)
  BY <1>1, <1>9, GoesBeckons DEF NextJoins
<1>10. CASE End(u)
  BY <1>1, <1>10, GoesBeckons, CountTyped DEF End
<1>11. CASE EndFinishes(u)
  BY <1>1, <1>11, GoesBeckons DEF EndFinishes
<1> QED BY <1>2, <1>3, <1>5, <1>6, <1>7, <1>8, <1>9, <1>10, <1>11 DEF Person

LEMMA PersonTyped ==
    ASSUME TypeOK, Pages, NEW u \in User,
           Person(u) \/ NextJoins(u) \/ EndFinishes(u) \/ HideTyping(u)
    PROVE  TypeOK'
<1>1. MatchOf(u, cli[u]) /\ Tidy(cli[u]) /\ Served(cli[u])
  BY DEF Pages, MatchOf, Served
<1>2. PageQuiets(u)
  BY <1>1, PersonQuiet
<1> QED BY <1>1, <1>2, PersonShape DEF TypeOK, PageQuiets, Beckons, Speaks

LEMMA ReceiveTyped ==
    ASSUME TypeOK, Pages, NEW u \in User, ReceiveItem(u) \/ ReceiveStatus(u)
    PROVE  /\ TypeOK'
           /\ UNCHANGED <<room, srv, leave, up, calls, scans, replies, owed, count>>
           /\ down[u] \in Seq(ToBrowser) /\ down[u] # <<>>
           /\ down'[u] = Tail(down[u]) /\ \A v \in User : v # u => down'[v] = down[v]
<1>1. MatchOf(u, cli[u]) /\ Tidy(cli[u]) /\ Served(cli[u])
  BY DEF Pages, MatchOf, Served
<1>2. /\ down' = [down EXCEPT ![u] = Tail(@)]
      /\ UNCHANGED <<room, srv, leave, up, calls, scans, replies, owed, count>>
  BY DEF ReceiveItem, ReceiveStatus
<1>3. down[u] \in Seq(ToBrowser) /\ down[u] # <<>>
  BY DEF TypeOK, ReceiveItem, ReceiveStatus
<1>4. Tail(down[u]) \in Seq(ToBrowser)
  BY <1>3, TailOf
<1>5. cli' \in [User -> PageState]
  <2>1. CASE ReceiveItem(u)
    BY <1>1, <2>1, ReceiveItemShape
  <2>2. CASE ReceiveStatus(u)
    BY <1>1, <2>2, ReceiveStatusShape DEF PageQuiets
  <2> QED BY <2>1, <2>2
<1> QED BY <1>2, <1>3, <1>4, <1>5 DEF TypeOK

LEMMA NextTyped ==
    ASSUME TypeOK, Pages, Messages, Next
    PROVE  TypeOK'
<1>1. ASSUME NEW u \in User, ServerStep(u) \/ Browser(u) \/ Person(u) \/ HideTyping(u)
      PROVE  TypeOK'
  BY <1>1, JoinTyped, LeaveTyped, DepartTyped, ReceiveMessageTyped, ReceiveTypingTyped,
     ReceiveTyped, PersonTyped DEF ServerStep, Browser
<1>2. CASE Match
  <2>1. PICK who \in SUBSET Partner : Pair(who)
    BY <1>2, ChatAssumption DEF Match, Partner
  <2> QED BY <2>1, PairTyped
<1>3. CASE Calls
  BY <1>3, FindRoomTyped, StoreTyped, ScanTyped DEF Calls
<1>4. CASE Scans \/ Bots
  BY <1>4, ScannedTyped, BotTyped DEF Scans, Bots
<1> QED BY <1>1, <1>2, <1>3, <1>4 DEF Next

-----------------------------------------------------------------------------
(* Rooms.                                                                   *)

\* A chat keeps its members, does not begin again, and its history grows while it goes on.
Lasts(c) ==
    room[c].who # {} =>
        /\ room'[c].who = room[c].who
        /\ room'[c].live => room[c].live /\ Known(c) \subseteq Known(c)'
ChatsLast == \A c \in Chat : Lasts(c)

\* Chats that end, and sockets that leave them or wait.
LEMMA RoomsShrink ==
    ASSUME TypeOK, Rooms, count'.chats = count.chats,
           \A c \in Chat : /\ room'[c].who = room[c].who /\ (room'[c].live => room[c].live)
                           /\ room'[c].live => Known(c) \subseteq Known(c)',
           \A u \in User : /\ srv'[u].rooms \subseteq srv[u].rooms
                           /\ \A c \in srv'[u].rooms : ~Full(c) => room'[c].live
                           /\ srv'[u].st = "queue" => \A c \in Chat : ~In(u, c),
           \A r \in replies' : r.bot \in Chat /\ Full(r.bot)
    PROVE  Rooms' /\ ChatsLast
<1>1. \A c \in Chat : Full(c)' <=> Full(c)
  BY DEF Full
<1>2. \A c \in Chat, u \in User : In(u, c)' => In(u, c)
  BY DEF In
<1>3. ChatsInTurn'
  BY DEF Rooms, ChatsInTurn
<1>4. RoomsOfMembers'
  <2>1. \A u \in User : srv[u].rooms \subseteq Chat
    BY DEF TypeOK, SocketState
  <2> QED BY <1>1, <2>1 DEF Rooms, RoomsOfMembers
<1>5. AloneWithBot'
  BY <1>1 DEF Rooms, AloneWithBot
<1>6. RepliesOfBot'
  BY <1>1 DEF RepliesOfBot
<1>7. QueueIsOut' /\ OneChat'
  BY <1>2 DEF Rooms, QueueIsOut, OneChat
<1>8. ChatsLast
  BY DEF ChatsLast, Lasts
<1> QED BY <1>3, <1>4, <1>5, <1>6, <1>7, <1>8 DEF Rooms

\* Nothing happens to the rooms, but that a history grows or replies go.
LEMMA RoomsSame ==
    ASSUME TypeOK, Rooms, count'.chats = count.chats, UNCHANGED srv,
           \A c \in Chat : /\ room'[c].who = room[c].who /\ room'[c].live = room[c].live
                           /\ Known(c) \subseteq Known(c)',
           \A r \in replies' : r.bot \in Chat /\ Full(r.bot)
    PROVE  Rooms' /\ ChatsLast
<1>1. \A u \in User : \A c \in srv'[u].rooms : c \in Chat /\ (~Full(c) => room'[c].live)
  BY DEF TypeOK, SocketState, Rooms, RoomsOfMembers
<1>2. \A u \in User : srv'[u].st = "queue" => \A c \in Chat : ~In(u, c)
  BY DEF Rooms, QueueIsOut
<1> QED BY <1>1, <1>2, RoomsShrink

LEMMA RepliesFull ==
    ASSUME TypeOK, Rooms
    PROVE  \A r \in replies : r.bot \in Chat /\ Full(r.bot)
BY DEF TypeOK, ReplyState, Rooms, RepliesOfBot

LEMMA JoinRooms ==
    ASSUME TypeOK, Rooms, NEW u \in User, Join(u)
    PROVE  Rooms' /\ ChatsLast
<1>1. UNCHANGED <<room, replies, count>>
  BY DEF Join
<1>2. \A v \in User : srv'[v].rooms = srv[v].rooms /\ (v # u => srv'[v] = srv[v])
  BY DEF Join, TypeOK, SocketState
<1>3. srv'[u].st = "queue" => \A c \in Chat : ~In(u, c)
  <2>1. CASE KeyOf(u) = NoChat
    BY <2>1, KeyIs
  <2>2. CASE KeyOf(u) # NoChat
    BY <2>2 DEF Join, TypeOK, SocketState
  <2> QED BY <2>1, <2>2
<1>4. \A v \in User : srv'[v].st = "queue" => \A c \in Chat : ~In(v, c)
  BY <1>2, <1>3 DEF Rooms, QueueIsOut
<1>5. \A v \in User : \A c \in srv'[v].rooms : ~Full(c) => room'[c].live
  BY <1>1, <1>2 DEF Rooms, RoomsOfMembers
<1> QED BY <1>1, <1>2, <1>4, <1>5, RepliesFull, RoomsShrink DEF Known

LEMMA PairRooms ==
    ASSUME TypeOK, Rooms, TypeOK', NEW who \in SUBSET Partner, Pair(who),
           Bot \in who => \A u, v \in who \cap User : u = v
    PROVE  Rooms' /\ ChatsLast
<1>0. PICK c \in Chat : c = count.chats + 1
  BY DEF Pair
<1>1. c \in Chat /\ c > count.chats /\ count.chats \in Nat
  BY <1>0 DEF TypeOK
<1>2. /\ room'[c] = [who |-> who, live |-> TRUE, log |-> {}, lost |-> {}]
      /\ \A d \in Chat : d # c => room'[d] = room[d]
  BY <1>0 DEF Pair, TypeOK
<1>3. room[c].who = {} /\ ~room[c].live
  BY <1>1 DEF Rooms, ChatsInTurn
<1>4. /\ \A u \in who \cap User : srv[u].st = "queue" /\ srv'[u].st = "active"
                                  /\ srv'[u].rooms = srv[u].rooms \cup {c}
      /\ \A u \in User \ who : srv'[u] = srv[u]
  BY <1>0 DEF Pair
<1>5. count'.chats = c /\ UNCHANGED replies
  BY <1>0 DEF Pair, TypeOK
<1>6. \A d \in Chat : d # c => (Full(d)' <=> Full(d)) /\ \A u \in User : In(u, d)' <=> In(u, d)
  BY <1>2 DEF Full, In
<1>7. (Full(c)' <=> Bot \in who) /\ \A u \in User : In(u, c)' <=> u \in who
  BY <1>2 DEF Full, In
<1>8. ChatsInTurn'
  <2>1. \A d \in Chat : d > c => d > count.chats /\ d # c
    BY <1>1 DEF Chat
  <2> QED BY <1>2, <1>5, <2>1 DEF Rooms, ChatsInTurn
<1>9. RoomsOfMembers'
  <2>1. ASSUME NEW u \in User, NEW d \in srv'[u].rooms
        PROVE  u \in room'[d].who /\ (~Full(d)' => room'[d].live)
    <3>1. CASE d = c /\ u \in who
      BY <1>2, <3>1
    <3>2. CASE d \in srv[u].rooms
      <4>1. d \in Chat /\ u \in room[d].who /\ (~Full(d) => room[d].live)
        BY <3>2 DEF TypeOK, SocketState, Rooms, RoomsOfMembers
      <4>2. d # c
        BY <1>3, <4>1
      <4> QED BY <1>2, <1>6, <4>1, <4>2
    <3> QED BY <1>4, <3>1, <3>2
  <2> QED BY <2>1 DEF RoomsOfMembers
<1>10. AloneWithBot'
  BY <1>2, <1>6, <1>7 DEF Rooms, AloneWithBot
<1>11. RepliesOfBot'
  <2>1. ASSUME NEW r \in replies
        PROVE  Full(r.bot)'
    <3>1. r.bot \in Chat /\ Full(r.bot)
      BY RepliesFull
    <3>2. r.bot # c
      BY <1>3, <3>1 DEF Full
    <3> QED BY <1>6, <3>1, <3>2
  <2> QED BY <1>5, <2>1 DEF RepliesOfBot
<1>12. QueueIsOut'
  BY <1>4, <1>6, <1>7 DEF Rooms, QueueIsOut
<1>13. OneChat'
  <2>1. ASSUME NEW u \in User, NEW d \in Chat, NEW e \in Chat, In(u, d)', In(u, e)', d # e
        PROVE  FALSE
    <3>1. u \notin who \/ (d # c /\ e # c)
      BY <1>4, <1>6, <2>1 DEF Rooms, QueueIsOut
    <3>2. d # c /\ e # c
      BY <1>7, <2>1, <3>1
    <3> QED BY <1>6, <2>1, <3>2 DEF Rooms, OneChat
  <2> QED BY <2>1 DEF OneChat
<1>14. ChatsLast
  BY <1>2, <1>3 DEF ChatsLast, Lasts, Known
<1> QED BY <1>8, <1>9, <1>10, <1>11, <1>12, <1>13, <1>14 DEF Rooms

LEMMA DepartRooms ==
    ASSUME TypeOK, Rooms, NEW u \in User, Depart(u)
    PROVE  Rooms' /\ ChatsLast
<1> DEFINE c == leave[u]
           gone == room[c].who \cap User
<1>1. c \in Chat /\ UNCHANGED <<replies, count>>
  BY DEF Depart, TypeOK
<1>2. \A d \in Chat : /\ room'[d].who = room[d].who /\ (room'[d].live => room[d].live)
                      /\ d # c => room'[d] = room[d]
                      /\ ~room'[c].live
                      /\ room'[d].live => Known(d) \subseteq Known(d)'
  <2>1. CASE room[c].live
    <3>1. room' = [room EXCEPT ![c].live = FALSE, ![c].log = {}]
      BY <2>1 DEF Depart
    <3> HIDE DEF c
    <3> QED BY <1>1, <3>1, RoomEnds DEF Known
  <2>2. CASE ~room[c].live
    BY <2>2 DEF Depart, Known
  <2> QED BY <2>1, <2>2
<1>3. /\ \A v \in gone : srv'[v].st = "idle" /\ srv'[v].rooms = srv[v].rooms \ {c}
      /\ \A v \in User \ gone : srv'[v] = srv[v]
  BY DEF Depart
<1>4. \A v \in User : srv'[v].rooms \subseteq srv[v].rooms
  BY <1>3
<1>5. ASSUME NEW v \in User, NEW d \in srv'[v].rooms, ~Full(d)
      PROVE  room'[d].live
  <2>1. d \in srv[v].rooms /\ d \in Chat
    BY <1>4, <1>5 DEF TypeOK, SocketState
  <2>2. v \in room[d].who /\ room[d].live
    BY <1>5, <2>1 DEF Rooms, RoomsOfMembers
  <2>3. d # c
    BY <1>3, <1>5, <2>2
  <2> QED BY <1>2, <2>1, <2>2, <2>3
<1>6. \A v \in User : srv'[v].st = "queue" => \A d \in Chat : ~In(v, d)
  BY <1>3 DEF Rooms, QueueIsOut
<1> HIDE DEF c, gone
<1> QED BY <1>1, <1>2, <1>4, <1>5, <1>6, RepliesFull, RoomsShrink

LEMMA BotRooms ==
    ASSUME TypeOK, Rooms, NEW r \in replies, BotStep(r)
    PROVE  Rooms' /\ ChatsLast
<1>1. r.bot \in Chat /\ Full(r.bot) /\ r.chat \in Chat
  BY RepliesFull DEF TypeOK, ReplyState
<1>2. UNCHANGED <<srv, count>>
  BY DEF BotStep, BotIsSilent, BotFails, BotAnswers, BotSays
<1>3. \A q \in replies' : q.bot \in Chat /\ Full(q.bot)
  <2>1. \A q \in replies' : q \in replies \/ q = [r EXCEPT !.at = "type"]
    BY DEF BotStep, BotIsSilent, BotFails, BotAnswers, BotSays
  <2>2. [r EXCEPT !.at = "type"].bot = r.bot
    BY DEF TypeOK, ReplyState
  <2> QED BY <1>1, <2>1, <2>2, RepliesFull
<1>4. CASE UNCHANGED room
  BY <1>2, <1>3, <1>4, RoomsSame DEF Known
<1>5. CASE BotFails(r) /\ room[r.bot].live
  <2>1. \A d \in Chat : /\ room'[d].who = room[d].who /\ (room'[d].live => room[d].live)
                        /\ d # r.bot => room'[d] = room[d]
                        /\ room'[d].live => Known(d) \subseteq Known(d)'
    <3>1. room' = [room EXCEPT ![r.bot].live = FALSE, ![r.bot].log = {}]
      BY <1>5 DEF BotFails
    <3> QED BY <1>1, <3>1, RoomEnds DEF Known
  <2>2. \A v \in User : \A d \in srv'[v].rooms : ~Full(d) => room'[d].live
    BY <1>1, <1>2, <2>1 DEF Rooms, RoomsOfMembers, TypeOK, SocketState
  <2>3. \A v \in User : srv'[v].st = "queue" => \A d \in Chat : ~In(v, d)
    BY <1>2 DEF Rooms, QueueIsOut
  <2>4. \A v \in User : srv'[v].rooms \subseteq srv[v].rooms
    BY <1>2
  <2> QED BY <1>2, <1>3, <2>1, <2>2, <2>3, <2>4, RoomsShrink
<1>6. CASE BotSays(r)
  <2>1. \A d \in Chat : /\ room'[d].who = room[d].who /\ room'[d].live = room[d].live
                        /\ Known(d) \subseteq Known(d)'
    BY <1>1, <1>6 DEF BotSays, TypeOK, RoomState, Known
  <2> QED BY <1>2, <1>3, <2>1, RoomsSame
<1> QED BY <1>4, <1>5, <1>6 DEF BotStep, BotIsSilent, BotFails, BotAnswers

LEMMA CallRooms ==
    ASSUME TypeOK, Rooms, Messages, Calls \/ Scans
    PROVE  Rooms' /\ ChatsLast
<1>1. ASSUME NEW m \in Message, NEW c \in Chat, m.by \in User, Relay(m, c), UNCHANGED <<room, srv>>
      PROVE  Rooms' /\ ChatsLast
  <2>1. \A r \in replies' : r.bot \in Chat /\ Full(r.bot)
    BY <1>1, RelayShape, RepliesFull
  <2>2. count'.chats = count.chats
    BY <1>1, RelayShape
  <2> QED BY <1>1, <2>1, <2>2, RoomsSame DEF Known
<1>2. CASE FindRoom
  <2>1. UNCHANGED <<room, srv, replies>>
    BY <1>2 DEF FindRoom
  <2>2. count'.chats = count.chats
    BY <1>2, CountTyped DEF FindRoom, Fails
  <2> QED BY <2>1, <2>2, RepliesFull, RoomsSame DEF Known
<1>3. CASE Store
  <2>1. Head(calls).chat \in Chat
    BY <1>3, HeadTyped DEF Store
  <2>2. \A d \in Chat : /\ room'[d].who = room[d].who /\ room'[d].live = room[d].live
                        /\ Known(d) \subseteq Known(d)'
    <3>1. PICK c \in Chat : \E what :
             \/ room' = [room EXCEPT ![c].log = @ \cup {what}]
             \/ room' = [room EXCEPT ![c].lost = @ \cup {what}]
      BY <1>3, <2>1 DEF Store
    <3>4. PICK what : \/ room' = [room EXCEPT ![c].log = @ \cup {what}]
                     \/ room' = [room EXCEPT ![c].lost = @ \cup {what}]
      BY <3>1
    <3>2. CASE room' = [room EXCEPT ![c].log = @ \cup {what}]
      BY <3>2 DEF TypeOK, RoomState, Known
    <3>3. CASE room' = [room EXCEPT ![c].lost = @ \cup {what}]
      BY <3>3 DEF TypeOK, RoomState, Known
    <3> QED BY <3>4, <3>2, <3>3
  <2>3. UNCHANGED <<srv, replies>> /\ count'.chats = count.chats
    BY <1>3, CountTyped DEF Store, Fails
  <2> QED BY <2>2, <2>3, RepliesFull, RoomsSame
<1>4. CASE Scan
  <2>1. Answered("stored") /\ UNCHANGED <<room, srv>>
    BY <1>4 DEF Scan
  <2>2. Head(calls).what \in Message /\ Head(calls).chat \in Chat /\ Head(calls).what.by \in User
    BY <2>1, HeadTyped DEF Messages, CallsMade, Taken, Said
  <2>3. CASE UNCHANGED <<replies, count>>
    BY <2>1, <2>3, RepliesFull, RoomsSame DEF Known
  <2> QED BY <1>1, <1>4, <2>1, <2>2, <2>3 DEF Scan
<1>5. ASSUME NEW s \in scans, Scanned(s)
      PROVE  Rooms' /\ ChatsLast
  <2>1. s.what \in Message /\ s.chat \in Chat /\ s.what.by \in User
    BY DEF TypeOK, Messages, ScansMade, Taken, Said
  <2> QED BY <1>1, <1>5, <2>1 DEF Scanned
<1> QED BY <1>2, <1>3, <1>4, <1>5 DEF Calls, Scans

LEMMA NextRooms ==
    ASSUME TypeOK, Rooms, Pages, Messages, TypeOK', Next
    PROVE  Rooms' /\ ChatsLast
<1>1. ASSUME UNCHANGED <<room, srv, replies>>, count'.chats = count.chats
      PROVE  Rooms' /\ ChatsLast
  BY <1>1, RepliesFull, RoomsSame DEF Known
<1>2. ASSUME NEW u \in User, ServerStep(u)
      PROVE  Rooms' /\ ChatsLast
  <2>1. CASE Join(u) \/ Depart(u)
    BY <2>1, JoinRooms, DepartRooms
  <2>2. CASE Leave(u)
    <3>1. count'.chats = count.chats
      BY <2>2, CountTyped DEF Leave, Fails
    <3> QED BY <1>1, <2>2, <3>1 DEF Leave
  <2>3. CASE ReceiveMessage(u) \/ ReceiveTyping(u)
    <3>1. count'.chats = count.chats
      BY <2>3, CountTyped DEF ReceiveMessage, ReceiveTyping
    <3>2. UNCHANGED <<room, srv, replies>>
      BY <2>3 DEF ReceiveMessage, ReceiveTyping
    <3> QED BY <1>1, <3>1, <3>2
  <2> QED BY <1>2, <2>1, <2>2, <2>3 DEF ServerStep
<1>3. ASSUME NEW u \in User, Browser(u) \/ Person(u) \/ HideTyping(u)
      PROVE  Rooms' /\ ChatsLast
  <2>1. CASE ReceiveItem(u) \/ ReceiveStatus(u)
    BY <1>1, <2>1, ReceiveTyped
  <2>2. CASE NextJoins(u) \/ EndFinishes(u) \/ Person(u) \/ HideTyping(u)
    <3>1. MatchOf(u, cli[u])
      BY DEF Pages
    <3> QED BY <1>1, <2>2, <3>1, PersonShape
  <2> QED BY <1>3, <2>1, <2>2 DEF Browser
<1>4. CASE Match
  <2>1. PICK who \in SUBSET Partner :
               Pair(who) /\ (Bot \in who => \A u, v \in who \cap User : u = v)
    BY <1>4, ChatAssumption DEF Match, Partner
  <2> QED BY <2>1, PairRooms
<1> QED BY <1>2, <1>3, <1>4, CallRooms, BotRooms DEF Next, Bots

-----------------------------------------------------------------------------
(* What a step does to what a browser has and will have.                    *)

Plain(x) == x \in ToBrowser /\ x.say \notin {"message", "matched"}

\* The page stays, and gets no message and no match.
Still(u) ==
    /\ cli'[u] = cli[u]
    /\ \/ down'[u] = down[u]
       \/ \E x : Plain(x) /\ down'[u] = Append(down[u], x)
       \/ \E x, y : /\ Plain(x) /\ Plain(y)
                    /\ down'[u] = Append(Append(down[u], x), y)

\* A message comes from the end of handleMessage, at once or after the incident is stored.
FromScan(m) == \E s \in scans : m = s.what
FromCall(m) ==
    /\ calls \in Seq(CallState) /\ calls # <<>> /\ calls[1].at = "stored"
    /\ m = calls[1].what /\ calls' = Tail(calls)

Told(u) ==
    /\ cli'[u] = cli[u]
    /\ \E m \in Message, c \in Chat :
         /\ down'[u] = Append(down[u], SayMessage(m, c))
         /\ u \in Listeners(c, m.by) /\ Taken(m, c) /\ Recorded(m)
         /\ FromScan(m) \/ FromCall(m)
BotTold(u) ==
    /\ cli'[u] = cli[u]
    /\ \E m \in Message, c \in Chat, x \in ToBrowser :
         /\ down'[u] = Append(Append(down[u], x), SayMessage(m, c))
         /\ m.n = 0 /\ m.by = Bot /\ Plain(x)
Paired(u) ==
    /\ cli'[u] = cli[u]
    /\ \E c \in Chat :
         /\ down'[u] = Append(down[u], [say |-> "matched", chat |-> c])
         /\ srv'[u].rooms = srv[u].rooms \cup {c} /\ srv[u].st = "queue"
         /\ u \in room'[c].who

\* The page goes on, or takes the first item.
Turns(u) == down'[u] = down[u] /\ Quiets(cli[u], cli'[u])
Takes(u) ==
    LET x == down[u][1]
    IN  /\ down[u] # <<>> /\ down'[u] = Tail(down[u])
        /\ Tidy(cli'[u]) /\ Served(cli'[u])
        /\ \/ x.say \notin {"message", "matched"} /\ Quiets(cli[u], cli'[u])
           \/ /\ x.say = "message"
              /\ Screen(cli'[u]) = Append(Screen(cli[u]), x.what)
              /\ cli'[u].at = cli[u].at /\ cli'[u].match = cli[u].match
           \/ /\ x.say = "matched"
              /\ Screen(cli'[u]) = Screen(cli[u]) /\ cli'[u].match = x.chat

Happens(u) ==
    \/ /\ srv'[u].rooms \subseteq srv[u].rooms
       /\ Still(u) \/ Told(u) \/ BotTold(u) \/ Turns(u) \/ Takes(u)
    \/ Paired(u)

LEMMA TellStill ==
    ASSUME TypeOK, NEW who, NEW x, Plain(x), down' = Tell(who, x), UNCHANGED cli
    PROVE  \A u \in User : Still(u)
<1>1. \A u \in User : down'[u] = IF u \in who THEN Append(down[u], x) ELSE down[u]
  <2>1. x \in ToBrowser /\ down \in [User -> Seq(ToBrowser)]
    BY DEF TypeOK, Plain
  <2> QED BY <2>1, TellTyped
<1>2. \A u \in User : \/ down'[u] = down[u]
                     \/ \E y : Plain(y) /\ down'[u] = Append(down[u], y)
  BY <1>1
<1> QED BY <1>2 DEF Still

LEMMA ItemsPlain ==
    /\ Plain([say |-> "over"]) /\ Plain([say |-> "error"]) /\ Plain([say |-> "refused"])
    /\ \A p \in Partner, b \in BOOLEAN : Plain(SayTyping(p, b))
BY ItemMade, ItemKinds DEF Plain

LEMMA ServerHappens ==
    ASSUME TypeOK, NEW w \in User, ServerStep(w), NEW u \in User
    PROVE  Happens(u)
<1>1. CASE Join(w)
  <2>1. srv'[u].rooms = srv[u].rooms
    <3>1. CASE KeyOf(w) = NoChat
      <4>1. srv' = [srv EXCEPT ![w].st = "queue", ![w].chat = NoChat]
        BY <1>1, <3>1 DEF Join
      <4> QED BY <4>1 DEF TypeOK, SocketState
    <3>2. CASE KeyOf(w) # NoChat
      <4>1. srv' = [srv EXCEPT ![w].st = "idle"]
        BY <1>1, <3>2 DEF Join
      <4> QED BY <4>1 DEF TypeOK, SocketState
    <3> QED BY <3>1, <3>2
  <2>2. Still(u)
    BY <1>1, ItemsPlain, TellStill DEF Join, Still
  <2> QED BY <2>1, <2>2 DEF Happens
<1>2. CASE Leave(w)
  BY <1>2 DEF Leave, Happens, Still
<1>3. CASE Depart(w)
  <2>1. srv'[u].rooms \subseteq srv[u].rooms
    BY <1>3 DEF Depart, TypeOK, SocketState
  <2>2. Still(u)
    BY <1>3, ItemsPlain, TellStill DEF Depart
  <2> QED BY <2>1, <2>2 DEF Happens
<1>4. CASE ReceiveMessage(w)
  <2>1. UNCHANGED <<srv, cli>>
    BY <1>4 DEF ReceiveMessage
  <2>2. \/ UNCHANGED down
        \/ down' = Tell({w}, [say |-> "error"]) \/ down' = Tell({w}, [say |-> "over"])
    BY <1>4 DEF ReceiveMessage, Refuse
  <2>3. Still(u)
    BY <2>1, <2>2, ItemsPlain, TellStill DEF Still
  <2> QED BY <2>1, <2>3 DEF Happens
<1>5. CASE ReceiveTyping(w)
  <2>1. UNCHANGED <<srv, cli>>
    BY <1>5 DEF ReceiveTyping
  <2>2. Head(up[w]).on \in BOOLEAN
    BY <1>5, ArrivesTyped, AskFields DEF ReceiveTyping
  <2>3. Plain(SayTyping(w, Head(up[w]).on))
    BY <2>2, ItemsPlain DEF Partner
  <2>4. \/ UNCHANGED down
        \/ down' = Tell(Listeners(srv[w].chat, w), SayTyping(w, Head(up[w]).on))
    BY <1>5 DEF ReceiveTyping
  <2>5. Still(u)
    BY <2>1, <2>3, <2>4, TellStill DEF Still
  <2> QED BY <2>1, <2>5 DEF Happens
<1> QED BY <1>1, <1>2, <1>3, <1>4, <1>5 DEF ServerStep

LEMMA PairHappens ==
    ASSUME TypeOK, NEW who \in SUBSET Partner, Pair(who), NEW u \in User
    PROVE  Happens(u)
<1>1. PICK c \in Chat : c = count.chats + 1
  BY DEF Pair
<1> DEFINE x == [say |-> "matched", chat |-> c]
<1>2. x \in ToBrowser
  BY ItemMade
<1>3. UNCHANGED cli /\ down' = Tell(who \cap User, x)
  BY <1>1 DEF Pair
<1>4. down'[u] = IF u \in who THEN Append(down[u], x) ELSE down[u]
  BY <1>2, <1>3, TellTyped DEF TypeOK
<1>5. CASE u \in who
  <2>1. srv'[u].rooms = srv[u].rooms \cup {c} /\ srv[u].st = "queue"
    BY <1>1, <1>5 DEF Pair
  <2>2. u \in room'[c].who
    BY <1>1, <1>5 DEF Pair, TypeOK
  <2> QED BY <1>3, <1>4, <1>5, <2>1, <2>2 DEF Happens, Paired
<1>6. CASE u \notin who
  <2>1. srv'[u] = srv[u]
    BY <1>6 DEF Pair
  <2> QED BY <1>3, <1>4, <1>6, <2>1 DEF Happens, Still
<1> QED BY <1>5, <1>6

LEMMA CallHappens ==
    ASSUME TypeOK, Messages, Calls \/ Scans, NEW u \in User
    PROVE  Happens(u)
<1>1. ASSUME NEW m \in Message, NEW c \in Chat, Relay(m, c), Taken(m, c), Recorded(m),
             FromScan(m) \/ FromCall(m), UNCHANGED <<srv, cli>>
      PROVE  Happens(u)
  <2>1. m.by \in User
    BY <1>1 DEF Taken, Said
  <2>2. CASE u \in Listeners(c, m.by)
    <3>1. down'[u] = Append(down[u], SayMessage(m, c))
      BY <1>1, <2>1, <2>2, RelayShape
    <3> QED BY <1>1, <2>2, <3>1 DEF Happens, Told
  <2>3. CASE u \notin Listeners(c, m.by)
    <3>1. down'[u] = down[u] \/ down'[u] = Append(down[u], SayTyping(Bot, TRUE))
      BY <1>1, <2>1, <2>3, RelayShape
    <3>2. Plain(SayTyping(Bot, TRUE))
      BY ItemsPlain DEF Partner
    <3> QED BY <1>1, <3>1, <3>2 DEF Happens, Still
  <2> QED BY <2>2, <2>3
<1>2. CASE FindRoom
  <2>1. UNCHANGED <<srv, cli>>
    BY <1>2 DEF FindRoom
  <2>2. UNCHANGED down \/ down' = Tell({Head(calls).what.by}, [say |-> "over"])
    BY <1>2 DEF FindRoom, Refuse
  <2>3. Still(u)
    BY <2>1, <2>2, ItemsPlain, TellStill DEF Still
  <2> QED BY <2>1, <2>3 DEF Happens
<1>3. CASE Store
  BY <1>3 DEF Store, Happens, Still
<1>4. CASE Scan
  <2>1. Answered("stored") /\ UNCHANGED <<srv, cli>> /\ calls' = Tail(calls)
    BY <1>4 DEF Scan
  <2>2. /\ Head(calls).what \in Message /\ Head(calls).chat \in Chat
        /\ Taken(Head(calls).what, Head(calls).chat) /\ Recorded(Head(calls).what)
        /\ FromCall(Head(calls).what)
    BY <2>1, HeadTyped DEF Messages, CallsMade, FromCall
  <2>3. CASE UNCHANGED down
    BY <2>1, <2>3 DEF Happens, Still
  <2>4. CASE Relay(Head(calls).what, Head(calls).chat)
    BY <1>1, <2>1, <2>2, <2>4
  <2> QED BY <1>4, <2>3, <2>4 DEF Scan
<1>5. ASSUME NEW s \in scans, Scanned(s)
      PROVE  Happens(u)
  <2>1. s.what \in Message /\ s.chat \in Chat /\ Taken(s.what, s.chat) /\ Recorded(s.what)
    BY DEF TypeOK, Messages, ScansMade
  <2>2. FromScan(s.what)
    BY DEF FromScan
  <2> QED BY <1>1, <1>5, <2>1, <2>2 DEF Scanned
<1> QED BY <1>2, <1>3, <1>4, <1>5 DEF Calls, Scans

LEMMA BotHappens ==
    ASSUME TypeOK, NEW r \in replies, BotStep(r), NEW u \in User
    PROVE  Happens(u)
<1> DEFINE off == SayTyping(Bot, FALSE)
           m == [by |-> Bot, chat |-> r.bot, n |-> 0, hot |-> FALSE]
<1>1. UNCHANGED <<srv, cli>>
  BY DEF BotStep, BotIsSilent, BotFails, BotAnswers, BotSays
<1>2. Plain(off) /\ Plain([say |-> "over"])
  BY ItemsPlain DEF Partner
<1>3. r.bot \in Chat
  BY DEF TypeOK, ReplyState
<1>4. m \in Message
  BY <1>3, ChatAssumption DEF Message, Partner
<1>5. SayMessage(m, r.bot) \in ToBrowser
  BY <1>3, <1>4, ItemMade
<1>6. CASE UNCHANGED down
  BY <1>1, <1>6 DEF Happens, Still
<1>7. CASE down' = Tell({r.what.by}, off)
  BY <1>1, <1>2, <1>7, TellStill DEF Happens
<1>8. ASSUME NEW x \in ToBrowser, NEW y \in ToBrowser,
             down' = [down EXCEPT ![r.what.by] = @ \o <<x, y>>]
      PROVE  down'[u] = down[u] \/ down'[u] = Append(Append(down[u], x), y)
  <2>1. down[u] \in Seq(ToBrowser)
    BY DEF TypeOK
  <2>2. down[u] \o <<x, y>> = Append(Append(down[u], x), y)
    BY <2>1, TwoMore
  <2> QED BY <1>8, <2>2 DEF TypeOK
<1>9. CASE down' = [down EXCEPT ![r.what.by] = @ \o <<[say |-> "over"], off>>]
  <2>1. down'[u] = down[u] \/ down'[u] = Append(Append(down[u], [say |-> "over"]), off)
    BY <1>2, <1>8, <1>9 DEF Plain
  <2> QED BY <1>1, <1>2, <2>1 DEF Happens, Still
<1>10. CASE down' = [down EXCEPT ![r.what.by] = @ \o <<off, SayMessage(m, r.bot)>>]
  <2>1. down'[u] = down[u] \/ down'[u] = Append(Append(down[u], off), SayMessage(m, r.bot))
    BY <1>2, <1>5, <1>8, <1>10 DEF Plain
  <2>2. m.n = 0 /\ m.by = Bot /\ off \in ToBrowser
    BY <1>2 DEF Plain
  <2> HIDE DEF m, off
  <2> QED BY <1>1, <1>2, <1>3, <1>4, <2>1, <2>2 DEF Happens, Still, BotTold
<1> QED BY <1>6, <1>7, <1>9, <1>10 DEF BotStep, BotIsSilent, BotFails, BotAnswers, BotSays

LEMMA PageHappens ==
    ASSUME TypeOK, Pages, NEW w \in User, Browser(w) \/ Person(w) \/ HideTyping(w), NEW u \in User
    PROVE  Happens(u)
<1>1. MatchOf(w, cli[w]) /\ Tidy(cli[w]) /\ Served(cli[w])
  BY DEF Pages, MatchOf, Served
<1>2. CASE Person(w) \/ NextJoins(w) \/ EndFinishes(w) \/ HideTyping(w)
  <2>1. PageQuiets(w) /\ UNCHANGED <<srv, down>>
    BY <1>1, <1>2, PersonQuiet, PersonShape
  <2> QED BY <2>1 DEF PageQuiets, Happens, Turns, Still
<1>3. CASE ReceiveItem(w) \/ ReceiveStatus(w)
  <2>1. /\ TypeOK' /\ UNCHANGED srv
        /\ down[w] \in Seq(ToBrowser) /\ down[w] # <<>>
        /\ down'[w] = Tail(down[w]) /\ \A v \in User : v # w => down'[v] = down[v]
    BY <1>3, ReceiveTyped
  <2>2. Takes(w) /\ \A v \in User : v # w => cli'[v] = cli[v]
    <3>1. CASE ReceiveItem(w)
      <4>1. cli'[w] \in PageState
        BY <2>1 DEF TypeOK
      <4> QED BY <1>1, <2>1, <3>1, <4>1, ReceiveItemShape DEF Takes, Quiets
    <3>2. CASE ReceiveStatus(w)
      BY <1>1, <2>1, <3>2, ReceiveStatusShape DEF Takes, PageQuiets, Quiets
    <3> QED BY <1>3, <3>1, <3>2
  <2> QED BY <2>1, <2>2 DEF Happens, Still
<1> QED BY <1>2, <1>3 DEF Browser

LEMMA NextHappens ==
    ASSUME TypeOK, Pages, Messages, Next, NEW u \in User
    PROVE  Happens(u)
<1>1. ASSUME Match
      PROVE  Happens(u)
  <2>1. PICK who \in SUBSET Partner : Pair(who)
    BY <1>1, ChatAssumption DEF Match, Partner
  <2> QED BY <2>1, PairHappens
<1> QED BY <1>1, ServerHappens, PageHappens, CallHappens, BotHappens DEF Next, Bots

-----------------------------------------------------------------------------
(* What is at a browser.                                                    *)

LEMMA SpokenTyped ==
    ASSUME NEW s \in Seq(ToBrowser), NEW a \in Seq(Message)
    PROVE  /\ Spoken(s) \subseteq DOMAIN s
           /\ \A i \in Spoken(s) : s[i].what \in Message
           /\ Holds(s, a) \in SUBSET Message
<1>1. \A i \in DOMAIN s : s[i] \in ToBrowser
  OBVIOUS
<1>2. \A i \in Spoken(s) : s[i].what \in Message
  BY <1>1, ItemFields DEF Spoken
<1> QED BY <1>2 DEF Spoken, Holds

LEMMA HoldsAppend ==
    ASSUME NEW s \in Seq(ToBrowser), NEW a, NEW x \in ToBrowser, x.say # "message"
    PROVE  /\ Holds(Append(s, x), a) = Holds(s, a)
           /\ Sorted(s, a) => Sorted(Append(s, x), a)
<1> DEFINE t == Append(s, x)
<1>1. /\ DOMAIN s = 1..Len(s) /\ Len(s) \in Nat /\ DOMAIN t = 1..(Len(s) + 1)
      /\ \A i \in DOMAIN s : t[i] = s[i]
      /\ t[Len(s) + 1] = x
  BY AppendOf
<1> HIDE DEF t
<1>2. Spoken(t) = Spoken(s) /\ \A i \in Spoken(s) : t[i] = s[i]
  BY <1>1 DEF Spoken
<1>3. Holds(t, a) = Holds(s, a)
  BY <1>2 DEF Holds
<1>4. Sorted(s, a) => Sorted(t, a)
  BY <1>2 DEF Sorted
<1> QED BY <1>3, <1>4 DEF t

LEMMA HoldsMessage ==
    ASSUME NEW s \in Seq(ToBrowser), NEW a \in Seq(Message), NEW x \in ToBrowser,
           x.say = "message"
    PROVE  /\ Holds(Append(s, x), a) = Holds(s, a) \cup {x.what}
           /\ Sorted(s, a) /\ (\A m \in Holds(s, a) : Before(m, x.what))
                => Sorted(Append(s, x), a)
<1> DEFINE t == Append(s, x)
           l == Len(s) + 1
<1>1. /\ DOMAIN s = 1..Len(s) /\ Len(s) \in Nat /\ DOMAIN t = 1..l
      /\ \A i \in DOMAIN s : t[i] = s[i]
      /\ t[l] = x
  BY AppendOf
<1>2. \A i \in DOMAIN s : i < l /\ i # l
  BY <1>1
<1>3. l \in Nat /\ \A i \in DOMAIN t : i \in DOMAIN s \/ i = l
  BY <1>1
<1>4. DOMAIN s \subseteq Nat
  BY <1>1
<1>5. l \in DOMAIN t /\ DOMAIN s \subseteq DOMAIN t
  BY <1>1
<1> HIDE DEF t, l
<1>6. /\ Spoken(t) = Spoken(s) \cup {l} /\ l \notin Spoken(s)
      /\ \A i \in Spoken(s) : t[i] = s[i] /\ i < l /\ i \in Nat
  BY <1>1, <1>2, <1>3, <1>4, <1>5 DEF Spoken
<1>7. Holds(t, a) = Holds(s, a) \cup {x.what}
  BY <1>1, <1>6 DEF Holds
<1>8. ASSUME Sorted(s, a), \A m \in Holds(s, a) : Before(m, x.what)
      PROVE  Sorted(t, a)
  <2>1. /\ \A i \in DOMAIN a : Before(a[i], x.what)
        /\ \A i \in Spoken(s) : Before(s[i].what, x.what)
    BY <1>8 DEF Holds
  <2>2. \A i \in DOMAIN a : \A j \in Spoken(t) : Before(a[i], t[j].what)
    BY <1>1, <1>6, <1>8, <2>1 DEF Sorted
  <2>3. ASSUME NEW i \in Spoken(t), NEW j \in Spoken(t), i < j
        PROVE  Before(t[i].what, t[j].what)
    <3>1. i # l
      <4>1. i = l => j \in Nat /\ (j < l \/ j = l)
        BY <1>3, <1>6
      <4> QED BY <1>3, <2>3, <4>1
    <3>2. CASE j = l
      BY <1>1, <1>6, <2>1, <3>1, <3>2
    <3>3. CASE j # l
      BY <1>6, <1>8, <2>3, <3>1, <3>3 DEF Sorted
    <3> QED BY <3>2, <3>3
  <2> QED BY <1>8, <2>2, <2>3 DEF Sorted
<1> QED BY <1>7, <1>8 DEF t

LEMMA SpokenTail ==
    ASSUME NEW s \in Seq(ToBrowser), s # <<>>
    PROVE  /\ \A i \in Spoken(Tail(s)) : i \in Nat /\ i + 1 \in Spoken(s) /\ Tail(s)[i] = s[i + 1]
           /\ \A i \in Spoken(Tail(s)) : 1 < i + 1
<1>1. /\ DOMAIN Tail(s) = 1..(Len(s) - 1) /\ Len(s) \in Nat
      /\ \A i \in DOMAIN Tail(s) : i + 1 \in DOMAIN s /\ Tail(s)[i] = s[i + 1]
  BY TailOf
<1> QED BY <1>1 DEF Spoken

LEMMA HoldsTail ==
    ASSUME NEW s \in Seq(ToBrowser), NEW a, s # <<>>
    PROVE  /\ Holds(Tail(s), a) \subseteq Holds(s, a)
           /\ Sorted(s, a) => Sorted(Tail(s), a)
<1> DEFINE t == Tail(s)
<1>1. \A i \in Spoken(t) : i \in Nat /\ i + 1 \in Spoken(s) /\ t[i] = s[i + 1]
  BY SpokenTail
<1> HIDE DEF t
<1>2. Holds(t, a) \subseteq Holds(s, a)
  BY <1>1 DEF Holds
<1>3. ASSUME Sorted(s, a)
      PROVE  Sorted(t, a)
  <2>1. \A i \in DOMAIN a : \A j \in Spoken(t) : Before(a[i], t[j].what)
    BY <1>1, <1>3 DEF Sorted
  <2>2. \A i, j \in Spoken(t) : i < j => Before(t[i].what, t[j].what)
    <3>1. \A i, j \in Spoken(t) : i < j => i + 1 < j + 1
      BY <1>1
    <3> QED BY <1>1, <1>3, <3>1 DEF Sorted
  <2> QED BY <1>3, <2>1, <2>2 DEF Sorted
<1> QED BY <1>2, <1>3 DEF t

\* The first item, a message, comes to the screen.
LEMMA HoldsShown ==
    ASSUME NEW s \in Seq(ToBrowser), NEW a \in Seq(Message), s # <<>>, s[1].say = "message"
    PROVE  LET b == Append(a, s[1].what)
           IN  /\ Holds(Tail(s), b) \subseteq Holds(s, a)
               /\ Sorted(s, a) => Sorted(Tail(s), b)
<1> DEFINE t == Tail(s)
           b == Append(a, s[1].what)
           l == Len(a) + 1
<1>1. /\ \A i \in Spoken(t) : i \in Nat /\ i + 1 \in Spoken(s) /\ t[i] = s[i + 1]
      /\ \A i \in Spoken(t) : 1 < i + 1
  BY SpokenTail
<1>2. 1 \in Spoken(s) /\ s[1].what \in Message
  BY TailOf, ItemFields DEF Spoken
<1>3. /\ DOMAIN a = 1..Len(a) /\ Len(a) \in Nat /\ DOMAIN b = 1..l
      /\ \A i \in DOMAIN a : b[i] = a[i]
      /\ b[l] = s[1].what
  BY <1>2, AppendOf
<1>4. \A i \in DOMAIN b : i \in Nat /\ i <= l /\ (i \in DOMAIN a \/ i = l)
  BY <1>3
<1>5. l \in Nat
  BY <1>3
<1>6. Sorted(s, a) => Sorted(Tail(s), a)
  BY HoldsTail
<1> HIDE DEF b, l
<1>7. Holds(t, b) \subseteq Holds(s, a)
  <2>1. \A i \in DOMAIN b : b[i] \in Holds(s, a)
    BY <1>2, <1>3, <1>4 DEF Holds
  <2>2. \A i \in Spoken(t) : t[i].what \in Holds(s, a)
    BY <1>1 DEF Holds
  <2> QED BY <2>1, <2>2 DEF Holds
<1>8. ASSUME Sorted(s, a)
      PROVE  Sorted(t, b)
  <2>1. ASSUME NEW i \in DOMAIN b, NEW j \in DOMAIN b, i < j
        PROVE  Before(b[i], b[j])
    <3>1. i \in DOMAIN a
      BY <1>4, <1>5, <2>1
    <3>2. CASE j = l
      BY <1>2, <1>3, <1>8, <3>1, <3>2 DEF Sorted
    <3>3. CASE j \in DOMAIN a
      BY <1>3, <1>8, <2>1, <3>1, <3>3 DEF Sorted
    <3> QED BY <1>4, <3>2, <3>3
  <2>2. ASSUME NEW i \in DOMAIN b, NEW j \in Spoken(t)
        PROVE  Before(b[i], t[j].what)
    <3>1. CASE i = l
      BY <1>1, <1>2, <1>3, <1>8, <3>1 DEF Sorted
    <3>2. CASE i \in DOMAIN a
      BY <1>1, <1>3, <1>8, <3>2 DEF Sorted
    <3> QED BY <1>4, <3>1, <3>2
  <2>3. \A i, j \in Spoken(t) : i < j => Before(t[i].what, t[j].what)
    BY <1>6, <1>8 DEF Sorted
  <2> QED BY <2>1, <2>2, <2>3 DEF Sorted
<1> QED BY <1>7, <1>8 DEF b

\* A screen that is emptied holds no more than before.
LEMMA HoldsCleared ==
    ASSUME NEW s, NEW a, NEW b \in {a, <<>>}
    PROVE  /\ Holds(s, b) \subseteq Holds(s, a)
           /\ Sorted(s, a) => Sorted(s, b)
<1>1. DOMAIN <<>> = {}
  OBVIOUS
<1>2. CASE b = <<>>
  BY <1>1, <1>2 DEF Holds, Sorted
<1> QED BY <1>2

\* A browser holds after a step what it held, or a message more: a reply of the bot, or one
\* from the end of handleMessage, which is taken and recorded.
Fresh(m) ==
    \/ m.n = 0 /\ m.by = Bot
    \/ (\E c \in Chat : Taken(m, c)) /\ Recorded(m) /\ (FromScan(m) \/ FromCall(m))
Keeps(u) ==
    /\ At(u)' \subseteq At(u)
    /\ Sorted(down[u], Screen(cli[u])) => Sorted(down'[u], Screen(cli'[u]))
Gains(u) ==
    \E m \in Message :
        /\ Fresh(m) /\ At(u)' \subseteq At(u) \cup {m}
        /\ Sorted(down[u], Screen(cli[u])) /\ (\A x \in At(u) : Before(x, m))
             => Sorted(down'[u], Screen(cli'[u]))

LEMMA ScreenTyped ==
    ASSUME TypeOK, NEW u \in User
    PROVE  /\ down[u] \in Seq(ToBrowser) /\ cli[u] \in PageState
           /\ Screen(cli[u]) \in Seq(Message) /\ At(u) \in SUBSET Message
<1>1. down[u] \in Seq(ToBrowser) /\ cli[u] \in PageState
  BY DEF TypeOK
<1>2. Screen(cli[u]) \in Seq(Message)
  BY <1>1 DEF Screen, PageState
<1> QED BY <1>1, <1>2, SpokenTyped DEF At

LEMMA HappensAt ==
    ASSUME TypeOK, NEW u \in User, Happens(u)
    PROVE  Keeps(u) \/ Gains(u)
<1> DEFINE a == Screen(cli[u])
           s == down[u]
<1>1. s \in Seq(ToBrowser) /\ a \in Seq(Message)
  BY ScreenTyped
<1>2. ASSUME NEW x \in ToBrowser, x.say # "message", down'[u] = Append(s, x),
             UNCHANGED cli[u]
      PROVE  Keeps(u)
  BY <1>1, <1>2, HoldsAppend DEF Keeps, At
<1>3. CASE Still(u)
  <2>1. CASE down'[u] = down[u]
    BY <1>3, <2>1 DEF Still, Keeps, At
  <2>2. CASE \E x : Plain(x) /\ down'[u] = Append(down[u], x)
    BY <1>2, <1>3, <2>2 DEF Still, Plain
  <2>3. ASSUME NEW x, NEW y, Plain(x), Plain(y), down'[u] = Append(Append(s, x), y)
        PROVE  Keeps(u)
    <3>1. /\ x \in ToBrowser /\ x.say # "message" /\ y \in ToBrowser /\ y.say # "message"
          /\ Append(s, x) \in Seq(ToBrowser)
      BY <1>1, <2>3, AppendOf DEF Plain
    <3>2. /\ Holds(Append(Append(s, x), y), a) = Holds(s, a)
          /\ Sorted(s, a) => Sorted(Append(Append(s, x), y), a)
      BY <1>1, <3>1, HoldsAppend
    <3> QED BY <1>3, <2>3, <3>2 DEF Still, Keeps, At
  <2> QED BY <1>3, <2>1, <2>2, <2>3 DEF Still
<1>4. ASSUME NEW t \in Seq(ToBrowser), NEW m \in Message, NEW c \in Chat,
             Holds(t, a) = Holds(s, a), Sorted(s, a) => Sorted(t, a),
             down'[u] = Append(t, SayMessage(m, c)), Fresh(m), UNCHANGED cli[u]
      PROVE  Gains(u)
  <2> DEFINE x == SayMessage(m, c)
  <2>1. x \in ToBrowser /\ x.say = "message" /\ x.what = m
    BY ItemMade, ItemKinds
  <2> HIDE DEF x
  <2>2. /\ Holds(Append(t, x), a) = Holds(t, a) \cup {m}
        /\ Sorted(t, a) /\ (\A z \in Holds(t, a) : Before(z, m)) => Sorted(Append(t, x), a)
    BY <1>1, <1>4, <2>1, HoldsMessage
  <2>3. down'[u] = Append(t, x)
    BY <1>4 DEF x
  <2> QED BY <1>4, <2>2, <2>3 DEF Gains, At
<1>5. CASE Told(u)
  <2>1. PICK m \in Message, c \in Chat :
          /\ down'[u] = Append(s, SayMessage(m, c))
          /\ Taken(m, c) /\ Recorded(m) /\ (FromScan(m) \/ FromCall(m))
    BY <1>5 DEF Told
  <2>2. Fresh(m)
    BY <2>1 DEF Fresh
  <2> QED BY <1>1, <1>4, <1>5, <2>1, <2>2 DEF Told
<1>6. CASE BotTold(u)
  <2>1. PICK m \in Message, c \in Chat, x \in ToBrowser :
          /\ down'[u] = Append(Append(s, x), SayMessage(m, c))
          /\ m.n = 0 /\ m.by = Bot /\ Plain(x)
    BY <1>6 DEF BotTold
  <2>2. x \in ToBrowser /\ x.say # "message"
    BY <2>1 DEF Plain
  <2>3. /\ Append(s, x) \in Seq(ToBrowser) /\ Holds(Append(s, x), a) = Holds(s, a)
        /\ Sorted(s, a) => Sorted(Append(s, x), a)
    BY <1>1, <2>2, AppendOf, HoldsAppend
  <2>4. Fresh(m)
    BY <2>1 DEF Fresh
  <2> QED BY <1>4, <1>6, <2>1, <2>3, <2>4 DEF BotTold
<1>7. CASE Paired(u)
  <2>1. PICK c \in Chat : down'[u] = Append(s, [say |-> "matched", chat |-> c])
    BY <1>7 DEF Paired
  <2>2. /\ [say |-> "matched", chat |-> c] \in ToBrowser
        /\ [say |-> "matched", chat |-> c].say # "message"
    BY ItemMade, ItemKinds
  <2> QED BY <1>2, <1>7, <2>1, <2>2 DEF Paired
<1>8. ASSUME Screen(cli'[u]) \in {a, <<>>}, down'[u] = s \/ (s # <<>> /\ down'[u] = Tail(s))
      PROVE  Keeps(u)
  <2> DEFINE b == Screen(cli'[u])
  <2>1. Holds(s, b) \subseteq Holds(s, a) /\ (Sorted(s, a) => Sorted(s, b))
    BY <1>8, HoldsCleared
  <2>2. CASE down'[u] = s
    BY <2>1, <2>2 DEF Keeps, At
  <2>3. CASE s # <<>> /\ down'[u] = Tail(s)
    <3>1. Holds(Tail(s), b) \subseteq Holds(s, b) /\ (Sorted(s, b) => Sorted(Tail(s), b))
      BY <1>1, <2>3, HoldsTail
    <3> QED BY <2>1, <2>3, <3>1 DEF Keeps, At
  <2> QED BY <1>8, <2>2, <2>3
<1>9. CASE Turns(u)
  BY <1>8, <1>9 DEF Turns, Quiets
<1>10. CASE Takes(u)
  <2>1. s # <<>> /\ down'[u] = Tail(s)
    BY <1>10 DEF Takes
  <2>2. CASE s[1].say = "message"
    <3>1. Screen(cli'[u]) = Append(a, s[1].what)
      BY <1>10, <2>2 DEF Takes
    <3> QED BY <1>1, <2>1, <2>2, <3>1, HoldsShown DEF Keeps, At
  <2>3. CASE s[1].say # "message"
    <3>1. Screen(cli'[u]) \in {a, <<>>}
      BY <1>10, <2>3 DEF Takes, Quiets
    <3> QED BY <1>8, <2>1, <3>1
  <2> QED BY <2>2, <2>3
<1> QED BY <1>3, <1>5, <1>6, <1>7, <1>9, <1>10 DEF Happens

-----------------------------------------------------------------------------
(* Matches, and the news of them.                                           *)

LEMMA MemberStays ==
    ASSUME ChatsLast, NEW c \in Chat, NEW u, u \in room[c].who
    PROVE  /\ u \in room'[c].who /\ room'[c].who = room[c].who
           /\ Full(c)' <=> Full(c)
BY DEF ChatsLast, Lasts, Full

\* A browser keeps the news it has, and has at most the news of its new chat besides.
LEMMA HappensNews ==
    ASSUME TypeOK, TypeOK', ChatsLast, NEW u \in User, Happens(u), NewsOf(u, down[u])
    PROVE  NewsOf(u, down[u])'
<1> DEFINE s == down[u]
           Fine(t) == \A i \in DOMAIN t : t[i].say = "matched" => u \in room'[t[i].chat].who
<1>1. s \in Seq(ToBrowser) /\ \A i \in DOMAIN s : s[i] \in ToBrowser
  BY DEF TypeOK
<1>2. \A i \in DOMAIN s : s[i].say = "matched" => u \in room'[s[i].chat].who
  <2>1. \A i \in DOMAIN s : s[i].say = "matched" => s[i].chat \in Chat
    BY <1>1, ItemFields
  <2> QED BY <2>1, MemberStays DEF NewsOf
<1>3. ASSUME NEW t \in Seq(ToBrowser), NEW x \in ToBrowser, Fine(t),
             x.say = "matched" => u \in room'[x.chat].who
      PROVE  Fine(Append(t, x)) /\ Append(t, x) \in Seq(ToBrowser)
  <2>1. /\ DOMAIN t = 1..Len(t) /\ Len(t) \in Nat /\ DOMAIN Append(t, x) = 1..(Len(t) + 1)
        /\ \A i \in DOMAIN t : Append(t, x)[i] = t[i]
        /\ Append(t, x)[Len(t) + 1] = x /\ Append(t, x) \in Seq(ToBrowser)
    BY AppendOf
  <2>2. \A i \in DOMAIN Append(t, x) : i \in DOMAIN t \/ i = Len(t) + 1
    BY <2>1
  <2> QED BY <1>3, <2>1, <2>2
<1>4. Fine(s)
  BY <1>2
<1> SUFFICES Fine(down'[u])
  BY DEF NewsOf
<1> HIDE DEF Fine
<1>5. CASE Still(u)
  <2>1. ASSUME NEW x, Plain(x)
        PROVE  x \in ToBrowser /\ x.say # "matched"
    BY <2>1 DEF Plain
  <2>2. CASE down'[u] = s
    BY <1>4, <2>2
  <2>3. CASE \E x : Plain(x) /\ down'[u] = Append(s, x)
    BY <1>1, <1>3, <1>4, <2>1, <2>3
  <2>4. CASE \E x, y : Plain(x) /\ Plain(y) /\ down'[u] = Append(Append(s, x), y)
    BY <1>1, <1>3, <1>4, <2>1, <2>4
  <2> QED BY <1>5, <2>2, <2>3, <2>4 DEF Still
<1>6. CASE Told(u)
  <2>1. PICK m \in Message, c \in Chat : down'[u] = Append(s, SayMessage(m, c))
    BY <1>6 DEF Told
  <2>2. SayMessage(m, c) \in ToBrowser /\ SayMessage(m, c).say # "matched"
    BY ItemMade, ItemKinds
  <2> QED BY <1>1, <1>3, <1>4, <2>1, <2>2
<1>7. CASE BotTold(u)
  <2>1. PICK m \in Message, c \in Chat, x \in ToBrowser :
          down'[u] = Append(Append(s, x), SayMessage(m, c)) /\ Plain(x)
    BY <1>7 DEF BotTold
  <2>2. SayMessage(m, c) \in ToBrowser /\ SayMessage(m, c).say # "matched"
        /\ x \in ToBrowser /\ x.say # "matched"
    BY <2>1, ItemMade, ItemKinds DEF Plain
  <2>3. Fine(Append(s, x)) /\ Append(s, x) \in Seq(ToBrowser)
    BY <1>1, <1>3, <1>4, <2>2
  <2> QED BY <1>3, <2>1, <2>2, <2>3
<1>8. CASE Paired(u)
  <2>1. PICK c \in Chat : /\ down'[u] = Append(s, [say |-> "matched", chat |-> c])
                          /\ u \in room'[c].who
    BY <1>8 DEF Paired
  <2>2. [say |-> "matched", chat |-> c] \in ToBrowser
    BY ItemMade
  <2> QED BY <1>1, <1>3, <1>4, <2>1, <2>2
<1>9. CASE Turns(u) \/ Takes(u)
  <2>1. CASE down'[u] = s
    BY <1>4, <2>1
  <2>2. CASE s # <<>> /\ down'[u] = Tail(s)
    <3>1. \A i \in DOMAIN Tail(s) : i + 1 \in DOMAIN s /\ Tail(s)[i] = s[i + 1]
      BY <1>1, <2>2, TailOf
    <3> QED BY <1>4, <2>2, <3>1 DEF Fine
  <2> QED BY <1>9, <2>1, <2>2 DEF Turns, Takes
<1> QED BY <1>5, <1>6, <1>7, <1>8, <1>9 DEF Happens

LEMMA HappensPage ==
    ASSUME TypeOK, TypeOK', ChatsLast, NEW u \in User, Happens(u),
           Tidy(cli[u]), MatchOf(u, cli[u]), NewsOf(u, down[u])
    PROVE  Tidy(cli'[u]) /\ MatchOf(u, cli[u])'
<1>1. down[u] \in Seq(ToBrowser) /\ cli[u] \in PageState /\ cli'[u] \in PageState
  BY DEF TypeOK
<1>2. Served(cli[u]) /\ (cli[u].match # NoChat => cli[u].match \in Chat)
  BY <1>1 DEF MatchOf, Served, PageState
<1>3. cli[u].match # NoChat => u \in room'[cli[u].match].who
  BY <1>2, MemberStays DEF MatchOf
<1>4. ASSUME Tidy(cli'[u]), Served(cli'[u]), cli'[u].match \in {cli[u].match, NoChat}
      PROVE  Tidy(cli'[u]) /\ MatchOf(u, cli[u])'
  BY <1>3, <1>4 DEF MatchOf, Served
<1>5. CASE cli'[u] = cli[u]
  BY <1>2, <1>4, <1>5
<1>6. CASE Quiets(cli[u], cli'[u])
  BY <1>4, <1>6 DEF Quiets
<1>7. CASE Takes(u)
  <2>1. down[u] # <<>> /\ Tidy(cli'[u]) /\ Served(cli'[u])
    BY <1>7 DEF Takes
  <2>2. CASE down[u][1].say = "matched"
    <3>1. cli'[u].match = down[u][1].chat
      BY <1>7, <2>2 DEF Takes
    <3>2. down[u][1].chat \in Chat /\ u \in room[down[u][1].chat].who
      BY <1>1, <2>1, <2>2, TailOf, ItemFields DEF NewsOf
    <3>3. u \in room'[cli'[u].match].who
      BY <3>1, <3>2, MemberStays
    <3> QED BY <2>1, <3>3 DEF MatchOf, Served
  <2>3. CASE down[u][1].say # "matched"
    <3>1. cli'[u].match \in {cli[u].match, NoChat}
      BY <1>7, <2>3 DEF Takes, Quiets
    <3> QED BY <1>4, <2>1, <3>1
  <2> QED BY <2>2, <2>3
<1> QED BY <1>5, <1>6, <1>7 DEF Happens, Still, Told, BotTold, Paired, Turns

LEMMA NextPages ==
    ASSUME TypeOK, TypeOK', ChatsLast, Pages, Messages, Next
    PROVE  Pages'
<1>1. ASSUME NEW u \in User
      PROVE  Tidy(cli'[u]) /\ MatchOf(u, cli[u])' /\ NewsOf(u, down[u])'
  BY NextHappens, HappensPage, HappensNews DEF Pages
<1> QED BY <1>1 DEF Pages

-----------------------------------------------------------------------------
(* The last news before an item.                                            *)

LEMMA NewsKept ==
    ASSUME NEW s, NEW k, NEW n, NEW i, NEW c, NewsAre(s, k, i, c),
           n.at = "in" => k.at = "in", n.match \in {k.match, NoChat}
    PROVE  NewsAre(s, n, i, c)
BY DEF NewsAre

\* What comes after an item changes nothing of the news before it.
LEMMA NewsBefore ==
    ASSUME NEW s \in Seq(ToBrowser), NEW x \in ToBrowser, NEW k, NEW i \in 0..Len(s), NEW c,
           NewsAre(s, k, i, c)
    PROVE  /\ NewsAre(Append(s, x), k, i, c)
           /\ i = Len(s) /\ x.say # "matched" => NewsAre(Append(s, x), k, i + 1, c)
<1> DEFINE t == Append(s, x)
           l == Len(s)
<1>1. /\ DOMAIN s = 1..l /\ l \in Nat /\ \A j \in DOMAIN s : t[j] = s[j]
      /\ t[l + 1] = x
  BY AppendOf
<1> HIDE DEF t, l
<1>2. i \in Nat /\ i <= l
  BY <1>1 DEF l
<1>3. \A j \in 1..i : t[j] = s[j] /\ \A m \in (j + 1)..i : t[m] = s[m]
  BY <1>1, <1>2
<1>4. NewsAre(t, k, i, c)
  <2>1. CASE \E j \in 1..i : /\ s[j].say = "matched" /\ s[j].chat = c
                             /\ \A m \in (j + 1)..i : s[m].say # "matched"
    BY <1>3, <2>1 DEF NewsAre
  <2>2. CASE (\A j \in 1..i : s[j].say # "matched") /\ (k.at = "in" => k.match \in {c, NoChat})
    BY <1>3, <2>2 DEF NewsAre
  <2> QED BY <2>1, <2>2 DEF NewsAre
<1>5. ASSUME i = l, x.say # "matched"
      PROVE  NewsAre(t, k, i + 1, c)
  <2>1. /\ 1..i \subseteq 1..(i + 1)
        /\ \A j \in 1..(i + 1) : j \in 1..i \/ t[j].say # "matched"
        /\ \A j \in 1..i : \A m \in (j + 1)..(i + 1) : m \in (j + 1)..i \/ t[m].say # "matched"
    BY <1>1, <1>2, <1>5
  <2>2. CASE \E j \in 1..i : /\ t[j].say = "matched" /\ t[j].chat = c
                             /\ \A m \in (j + 1)..i : t[m].say # "matched"
    BY <2>1, <2>2 DEF NewsAre
  <2>3. CASE (\A j \in 1..i : t[j].say # "matched") /\ (k.at = "in" => k.match \in {c, NoChat})
    BY <2>1, <2>3 DEF NewsAre
  <2> QED BY <1>4, <2>2, <2>3 DEF NewsAre
<1> QED BY <1>4, <1>5 DEF t, l

LEMMA NewsMatched ==
    ASSUME NEW s \in Seq(ToBrowser), NEW k, NEW c \in Chat
    PROVE  NewsAre(Append(s, [say |-> "matched", chat |-> c]), k, Len(s) + 1, c)
<1> DEFINE x == [say |-> "matched", chat |-> c]
           l == Len(s) + 1
<1>1. x \in ToBrowser /\ x.say = "matched" /\ x.chat = c
  BY ItemMade
<1>2. Append(s, x)[l] = x /\ Len(s) \in Nat
  BY <1>1, AppendOf
<1>3. l \in 1..l /\ (l + 1)..l = {}
  BY <1>2
<1> HIDE DEF x, l
<1>4. NewsAre(Append(s, x), k, l, c)
  BY <1>1, <1>2, <1>3 DEF NewsAre
<1> QED BY <1>4 DEF x, l

\* The first item is taken: the news stay, or were the match that it is.
LEMMA NewsTaken ==
    ASSUME NEW s \in Seq(ToBrowser), NEW k, NEW n, NEW i \in 0..(Len(s) - 1), NEW c,
           s # <<>>, NewsAre(s, k, i + 1, c),
           \/ s[1].say # "matched" /\ (n.at = "in" => k.at = "in") /\ n.match \in {k.match, NoChat}
           \/ s[1].say = "matched" /\ n.match = s[1].chat
    PROVE  NewsAre(Tail(s), n, i, c)
<1> DEFINE t == Tail(s)
<1>1. /\ DOMAIN t = 1..(Len(s) - 1) /\ Len(s) \in Nat \ {0}
      /\ \A j \in DOMAIN t : t[j] = s[j + 1]
  BY TailOf
<1>2. i \in Nat /\ \A j \in 1..i : j \in DOMAIN t /\ j + 1 \in 1..(i + 1)
  BY <1>1
<1>3. \A j \in 1..i : t[j] = s[j + 1]
  BY <1>1, <1>2
<1> HIDE DEF t
<1>4. CASE \E j \in 1..(i + 1) : /\ s[j].say = "matched" /\ s[j].chat = c
                                 /\ \A l \in (j + 1)..(i + 1) : s[l].say # "matched"
  <2>1. PICK j \in 1..(i + 1) : /\ s[j].say = "matched" /\ s[j].chat = c
                                /\ \A l \in (j + 1)..(i + 1) : s[l].say # "matched"
    BY <1>4
  <2>2. CASE j = 1
    <3>1. \A l \in 1..i : t[l].say # "matched"
      <4>1. \A l \in 1..i : l + 1 \in (1 + 1)..(i + 1)
        BY <1>2
      <4> QED BY <1>3, <2>1, <2>2, <4>1
    <3>2. n.match = c
      BY <2>1, <2>2
    <3> QED BY <3>1, <3>2 DEF NewsAre, t
  <2>3. CASE j # 1
    <3>1. j - 1 \in 1..i /\ (j - 1) + 1 = j
      BY <1>2, <2>3
    <3>2. t[j - 1] = s[j]
      BY <1>3, <3>1
    <3>3. \A l \in ((j - 1) + 1)..i : t[l].say # "matched"
      <4>1. \A l \in ((j - 1) + 1)..i : l \in 1..i /\ l + 1 \in (j + 1)..(i + 1)
        BY <1>2, <3>1
      <4> QED BY <1>3, <2>1, <4>1
    <3> QED BY <2>1, <3>1, <3>2, <3>3 DEF NewsAre, t
  <2> QED BY <2>2, <2>3
<1>5. CASE (\A j \in 1..(i + 1) : s[j].say # "matched") /\ (k.at = "in" => k.match \in {c, NoChat})
  <2>1. 1 \in 1..(i + 1)
    BY <1>2
  <2>2. s[1].say # "matched" /\ \A j \in 1..i : t[j].say # "matched"
    BY <1>2, <1>3, <1>5, <2>1
  <2> QED BY <1>5, <2>2 DEF NewsAre, t
<1> QED BY <1>4, <1>5 DEF NewsAre

\* What is under way, s, is of the chats W of the user with another person, and the news are.
Carries(s, k, W) == (\A c \in W : NewsAre(s, k, Len(s), c)) /\ SentInChat(s, k)

LEMMA CarriesMore ==
    ASSUME NEW s \in Seq(ToBrowser), NEW k, NEW W, NEW x \in ToBrowser, x.say # "matched",
           Carries(s, k, W), x.say = "message" /\ x.what.n # 0 => x.room \in W
    PROVE  Carries(Append(s, x), k, W) /\ Append(s, x) \in Seq(ToBrowser)
<1> DEFINE t == Append(s, x)
           l == Len(s)
<1>1. /\ DOMAIN s = 1..l /\ l \in Nat /\ DOMAIN t = 1..(l + 1) /\ Len(t) = l + 1
      /\ \A i \in DOMAIN s : t[i] = s[i]
      /\ t[l + 1] = x /\ t \in Seq(ToBrowser)
  BY AppendOf
<1>2. l \in 0..Len(s) /\ \A i \in DOMAIN s : i \in 0..Len(s)
  BY <1>1
<1>3. \A i \in DOMAIN t : i \in DOMAIN s \/ i = l + 1
  BY <1>1
<1>4. /\ \A i \in 0..Len(s) : \A c : NewsAre(s, k, i, c) => NewsAre(t, k, i, c)
      /\ \A c : NewsAre(s, k, l, c) => NewsAre(t, k, l + 1, c)
  BY <1>2, NewsBefore
<1> HIDE DEF t, l
<1>5. \A c \in W : NewsAre(t, k, Len(t), c)
  BY <1>1, <1>4 DEF Carries, l
<1>6. SentInChat(t, k)
  <2>1. ASSUME NEW i \in DOMAIN t, t[i].say = "message", t[i].what.n # 0
        PROVE  NewsAre(t, k, i, t[i].room)
    <3>1. CASE i \in DOMAIN s
      BY <1>1, <1>2, <1>4, <2>1, <3>1 DEF Carries, SentInChat
    <3>2. CASE i = l + 1
      BY <1>1, <1>5, <2>1, <3>2
    <3> QED BY <1>3, <3>1, <3>2
  <2> QED BY <2>1 DEF SentInChat
<1> QED BY <1>1, <1>5, <1>6 DEF Carries, t

LEMMA CarriesMatched ==
    ASSUME NEW s \in Seq(ToBrowser), NEW k, NEW W, NEW c \in Chat, Carries(s, k, W)
    PROVE  Carries(Append(s, [say |-> "matched", chat |-> c]), k, {c})
<1> DEFINE x == [say |-> "matched", chat |-> c]
           t == Append(s, x)
<1>1. x \in ToBrowser /\ x.say = "matched"
  BY ItemMade
<1>2. NewsAre(t, k, Len(s) + 1, c)
  BY NewsMatched
<1> HIDE DEF x
<1>3. /\ DOMAIN s = 1..Len(s) /\ Len(s) \in Nat /\ Len(t) = Len(s) + 1
      /\ DOMAIN t = 1..(Len(s) + 1) /\ \A i \in DOMAIN s : t[i] = s[i]
      /\ t[Len(s) + 1] = x
  BY <1>1, AppendOf
<1>4. \A i \in DOMAIN t : (i \in DOMAIN s /\ i \in 0..Len(s)) \/ i = Len(s) + 1
  BY <1>3
<1>5. \A i \in 0..Len(s) : \A d : NewsAre(s, k, i, d) => NewsAre(t, k, i, d)
  BY <1>1, NewsBefore
<1> HIDE DEF t
<1>6. SentInChat(t, k)
  BY <1>1, <1>3, <1>4, <1>5 DEF Carries, SentInChat
<1>7. Carries(t, k, {c})
  BY <1>2, <1>3, <1>6 DEF Carries
<1> QED BY <1>7 DEF t, x

LEMMA CarriesTaken ==
    ASSUME NEW s \in Seq(ToBrowser), NEW k, NEW n, NEW W, s # <<>>, Carries(s, k, W),
           \/ s[1].say # "matched" /\ (n.at = "in" => k.at = "in") /\ n.match \in {k.match, NoChat}
           \/ s[1].say = "matched" /\ n.match = s[1].chat
    PROVE  Carries(Tail(s), n, W)
<1> DEFINE t == Tail(s)
<1>1. /\ t \in Seq(ToBrowser) /\ Len(t) = Len(s) - 1 /\ Len(s) \in Nat \ {0}
      /\ DOMAIN t = 1..(Len(s) - 1)
      /\ \A i \in DOMAIN t : i + 1 \in DOMAIN s /\ t[i] = s[i + 1]
  BY TailOf
<1>2. /\ Len(t) \in 0..(Len(s) - 1) /\ Len(t) + 1 = Len(s)
      /\ \A i \in DOMAIN t : i \in 0..(Len(s) - 1)
  BY <1>1
<1>3. \A i \in 0..(Len(s) - 1) : \A c : NewsAre(s, k, i + 1, c) => NewsAre(t, n, i, c)
  BY NewsTaken
<1> HIDE DEF t
<1>4. \A c \in W : NewsAre(t, n, Len(t), c)
  BY <1>2, <1>3 DEF Carries
<1>5. SentInChat(t, n)
  BY <1>1, <1>2, <1>3 DEF Carries, SentInChat
<1> QED BY <1>4, <1>5 DEF Carries, t

LEMMA CarriesKept ==
    ASSUME NEW s, NEW k, NEW n, NEW W, Carries(s, k, W),
           n.at = "in" => k.at = "in", n.match \in {k.match, NoChat}
    PROVE  Carries(s, n, W)
BY NewsKept DEF Carries, SentInChat

LEMMA HappensCarries ==
    ASSUME TypeOK, NEW u \in User, NEW W, Carries(down[u], cli[u], W),
           \/ Still(u) \/ BotTold(u) \/ Turns(u) \/ Takes(u)
           \/ /\ Told(u)
              /\ \A m \in Message, c \in Chat : u \in Listeners(c, m.by) /\ Taken(m, c) => c \in W
    PROVE  Carries(down'[u], cli'[u], W)
<1> DEFINE s == down[u]
           k == cli[u]
<1>1. s \in Seq(ToBrowser)
  BY DEF TypeOK
<1>2. CASE Still(u)
  <2>1. ASSUME NEW x, Plain(x)
        PROVE  x \in ToBrowser /\ x.say # "matched" /\ x.say # "message"
    BY <2>1 DEF Plain
  <2>2. CASE down'[u] = s
    BY <1>2, <2>2 DEF Still
  <2>3. ASSUME NEW x, Plain(x), down'[u] = Append(s, x)
        PROVE  Carries(down'[u], k, W)
    BY <1>1, <2>1, <2>3, CarriesMore
  <2>4. ASSUME NEW x, NEW y, Plain(x), Plain(y), down'[u] = Append(Append(s, x), y)
        PROVE  Carries(down'[u], k, W)
    <3>1. Carries(Append(s, x), k, W) /\ Append(s, x) \in Seq(ToBrowser)
      BY <1>1, <2>1, <2>4, CarriesMore
    <3> QED BY <2>1, <2>4, <3>1, CarriesMore
  <2> QED BY <1>2, <2>2, <2>3, <2>4 DEF Still
<1>3. CASE BotTold(u)
  <2>1. PICK m \in Message, c \in Chat, x \in ToBrowser :
          /\ down'[u] = Append(Append(s, x), SayMessage(m, c))
          /\ m.n = 0 /\ Plain(x)
    BY <1>3 DEF BotTold
  <2>2. SayMessage(m, c) \in ToBrowser /\ SayMessage(m, c).say # "matched"
        /\ SayMessage(m, c).what.n = 0
    BY <2>1, ItemMade, ItemKinds
  <2>3. x \in ToBrowser /\ x.say # "matched" /\ x.say # "message"
    BY <2>1 DEF Plain
  <2>4. Carries(Append(s, x), k, W) /\ Append(s, x) \in Seq(ToBrowser)
    BY <1>1, <2>3, CarriesMore
  <2>5. Carries(down'[u], k, W)
    BY <2>1, <2>2, <2>4, CarriesMore
  <2> QED BY <1>3, <2>5 DEF BotTold
<1>4. CASE /\ Told(u)
           /\ \A m \in Message, c \in Chat : u \in Listeners(c, m.by) /\ Taken(m, c) => c \in W
  <2>1. PICK m \in Message, c \in Chat :
          down'[u] = Append(s, SayMessage(m, c)) /\ u \in Listeners(c, m.by) /\ Taken(m, c)
    BY <1>4 DEF Told
  <2>2. SayMessage(m, c) \in ToBrowser /\ SayMessage(m, c).say # "matched"
        /\ SayMessage(m, c).room \in W
    BY <1>4, <2>1, ItemMade, ItemKinds
  <2>3. Carries(down'[u], k, W)
    BY <1>1, <2>1, <2>2, CarriesMore
  <2> QED BY <1>4, <2>3 DEF Told
<1>5. CASE Turns(u)
  BY <1>5, CarriesKept DEF Turns, Quiets
<1>6. CASE Takes(u)
  <2>1. s # <<>> /\ down'[u] = Tail(s)
    BY <1>6 DEF Takes
  <2>2. \/ /\ s[1].say # "matched" /\ (cli'[u].at = "in" => k.at = "in")
           /\ cli'[u].match \in {k.match, NoChat}
        \/ s[1].say = "matched" /\ cli'[u].match = s[1].chat
    BY <1>6 DEF Takes, Quiets
  <2> QED BY <1>1, <2>1, <2>2, CarriesTaken
<1> QED BY <1>2, <1>3, <1>4, <1>5, <1>6

LEMMA HappensInRooms ==
    ASSUME TypeOK, TypeOK', Rooms, ChatsLast, NEW u \in User, Happens(u),
           InRooms(u, down[u], cli[u]), SentInChat(down[u], cli[u])
    PROVE  InRooms(u, down[u], cli[u])' /\ SentInChat(down[u], cli[u])'
<1> DEFINE s == down[u]
           k == cli[u]
<1>1. PICK W : W = {c \in srv[u].rooms : ~Full(c)}
  OBVIOUS
<1>2. Carries(s, k, W)
  BY <1>1 DEF Carries, InRooms
<1>3. \A c \in srv[u].rooms : c \in Chat /\ u \in room[c].who /\ (Full(c)' <=> Full(c))
  <2>1. \A c \in srv[u].rooms : c \in Chat /\ u \in room[c].who
    BY DEF TypeOK, SocketState, Rooms, RoomsOfMembers
  <2> QED BY <2>1, MemberStays
<1>4. ASSUME NEW V, Carries(down'[u], cli'[u], V),
             \A c \in srv'[u].rooms : ~Full(c)' => c \in V
      PROVE  InRooms(u, down[u], cli[u])' /\ SentInChat(down[u], cli[u])'
  BY <1>4 DEF Carries, InRooms
<1>5. CASE /\ srv'[u].rooms \subseteq srv[u].rooms
           /\ Still(u) \/ Told(u) \/ BotTold(u) \/ Turns(u) \/ Takes(u)
  <2>1. ASSUME NEW m \in Message, NEW c \in Chat, u \in Listeners(c, m.by), Taken(m, c)
        PROVE  c \in W
    <3>1. c \in srv[u].rooms /\ u # m.by
      BY <2>1 DEF Listeners
    <3>2. m.by \in User /\ m.by \in room[c].who /\ u \in room[c].who
      BY <1>3, <2>1, <3>1 DEF Taken, Said
    <3>3. ~Full(c)
      BY <3>1, <3>2 DEF Rooms, AloneWithBot
    <3> QED BY <1>1, <3>1, <3>3
  <2>2. Carries(down'[u], cli'[u], W)
    BY <1>2, <1>5, <2>1, HappensCarries
  <2>3. \A c \in srv'[u].rooms : ~Full(c)' => c \in W
    BY <1>1, <1>3, <1>5
  <2> QED BY <1>4, <2>2, <2>3
<1>6. CASE Paired(u)
  <2>1. PICK c \in Chat : /\ down'[u] = Append(s, [say |-> "matched", chat |-> c])
                          /\ srv'[u].rooms = srv[u].rooms \cup {c} /\ srv[u].st = "queue"
    BY <1>6 DEF Paired
  <2>2. s \in Seq(ToBrowser) /\ cli'[u] = k
    BY <1>6 DEF TypeOK, Paired
  <2>3. Carries(down'[u], cli'[u], {c})
    BY <1>2, <2>1, <2>2, CarriesMatched
  <2>4. ASSUME NEW d \in srv[u].rooms
        PROVE  Full(d)'
    <3>1. ~In(u, d)
      BY <1>3, <2>1 DEF Rooms, QueueIsOut
    <3>2. ~room[d].live
      BY <1>3, <3>1 DEF In
    <3>3. Full(d)
      BY <3>2 DEF Rooms, RoomsOfMembers
    <3> QED BY <1>3, <3>3
  <2> QED BY <1>4, <2>1, <2>3, <2>4
<1> QED BY <1>5, <1>6 DEF Happens

LEMMA NextNews ==
    ASSUME TypeOK, TypeOK', Rooms, ChatsLast, Pages, NewsInv, Messages, Next
    PROVE  NewsInv'
<1>1. ASSUME NEW u \in User
      PROVE  InRooms(u, down[u], cli[u])' /\ SentInChat(down[u], cli[u])'
  BY NextHappens, HappensInRooms DEF NewsInv
<1> QED BY <1>1 DEF NewsInv

-----------------------------------------------------------------------------
(* What a step does to what is under way to the server, and to the calls.   *)

LEMMA LastOf ==
    ASSUME NEW S, NEW t \in Seq(S), NEW x \in S
    PROVE  \A i \in DOMAIN Append(t, x) :
             /\ i \in Nat
             /\ \/ i \in DOMAIN t /\ Append(t, x)[i] = t[i]
                \/ /\ Append(t, x)[i] = x
                   /\ \A j \in DOMAIN Append(t, x) : j <= i
                   /\ \A j \in DOMAIN t : j < i
<1>1. /\ DOMAIN t = 1..Len(t) /\ Len(t) \in Nat /\ DOMAIN Append(t, x) = 1..(Len(t) + 1)
      /\ \A i \in DOMAIN t : Append(t, x)[i] = t[i]
      /\ Append(t, x)[Len(t) + 1] = x
  BY AppendOf
<1>2. \A i \in 1..(Len(t) + 1) : i \in Nat /\ (i \in 1..Len(t) \/ i = Len(t) + 1)
  BY <1>1
<1> QED BY <1>1, <1>2

\* The messages on the wire of u are the ones before, d places further back, or one more that
\* has just been said.
WireKeeps(u, d) ==
    \A i \in Sayings(up'[u]) : i \in Nat /\ i + d \in Sayings(up[u]) /\ up'[u][i] = up[u][i + d]
WireSpeaks(u) ==
    /\ count'.said = count.said + 1
    /\ \E m \in Message :
        /\ m.by = u /\ m.n = count.said + 1 /\ u \in room[m.chat].who
        /\ \A i \in Sayings(up'[u]) :
             \/ i \in Sayings(up[u]) /\ up'[u][i] = up[u][i]
             \/ up'[u][i].what = m /\ \A j \in Sayings(up'[u]) : j <= i
Wire(u) == WireKeeps(u, 0) \/ WireKeeps(u, 1) \/ WireSpeaks(u)

LEMMA WireSame ==
    ASSUME TypeOK, NEW u \in User, up'[u] = up[u]
    PROVE  WireKeeps(u, 0)
<1>1. up[u] \in Seq(ToServer)
  BY DEF TypeOK
<1>2. \A i \in DOMAIN up[u] : i \in Nat /\ i + 0 = i
  BY <1>1
<1> QED BY <1>2 DEF WireKeeps, Sayings

LEMMA WireTail ==
    ASSUME TypeOK, NEW u \in User, up[u] # <<>>, up'[u] = Tail(up[u])
    PROVE  WireKeeps(u, 1)
<1>1. up[u] \in Seq(ToServer)
  BY DEF TypeOK
<1>2. \A i \in DOMAIN Tail(up[u]) :
         i \in Nat /\ i + 1 \in DOMAIN up[u] /\ Tail(up[u])[i] = up[u][i + 1]
  BY <1>1, TailOf
<1> QED BY <1>2 DEF WireKeeps, Sayings

LEMMA WireAppend ==
    ASSUME TypeOK, NEW u \in User, NEW x \in ToServer, up'[u] = Append(up[u], x)
    PROVE  /\ x.do # "message" => WireKeeps(u, 0)
           /\ /\ x.do = "message" /\ x.what.by = u /\ x.what.n = count.said + 1
              /\ u \in room[x.what.chat].who /\ count'.said = count.said + 1
              => WireSpeaks(u)
<1>1. up[u] \in Seq(ToServer)
  BY DEF TypeOK
<1>2. \A i \in DOMAIN up'[u] :
        /\ i \in Nat
        /\ \/ i \in DOMAIN up[u] /\ up'[u][i] = up[u][i]
           \/ up'[u][i] = x /\ \A j \in DOMAIN up'[u] : j <= i
  BY <1>1, LastOf
<1>3. \A i \in DOMAIN up'[u] : i + 0 = i
  BY <1>2
<1>4. x.do # "message" => WireKeeps(u, 0)
  BY <1>2, <1>3 DEF WireKeeps, Sayings
<1>5. ASSUME x.do = "message", x.what.by = u, x.what.n = count.said + 1,
             u \in room[x.what.chat].who, count'.said = count.said + 1
      PROVE  WireSpeaks(u)
  <2>1. x.what \in Message
    BY <1>5, AskFields
  <2>2. \A i \in Sayings(up'[u]) :
             \/ i \in Sayings(up[u]) /\ up'[u][i] = up[u][i]
             \/ up'[u][i].what = x.what /\ \A j \in Sayings(up'[u]) : j <= i
    BY <1>2 DEF Sayings
  <2> QED BY <1>5, <2>1, <2>2 DEF WireSpeaks
<1> QED BY <1>4, <1>5

\* The first event from w is taken.
LEMMA ArrivesWires ==
    ASSUME TypeOK, NEW w \in User, NEW do, Arrives(w, do)
    PROVE  WireKeeps(w, 1) /\ \A u \in User : u # w => WireKeeps(u, 0)
BY ArrivesTyped, WireSame, WireTail

LEMMA PersonWires ==
    ASSUME TypeOK, NEW w \in User, MatchOf(w, cli[w]),
           Person(w) \/ NextJoins(w) \/ EndFinishes(w) \/ HideTyping(w)
    PROVE  /\ \A u \in User : Wire(u)
           /\ count'.said \in {count.said, count.said + 1}
<1>1. (Beckons(w) /\ count'.said = count.said) \/ Speaks(w)
  BY PersonShape
<1>2. \A u \in User : u # w => Wire(u)
  BY <1>1, WireSame DEF Beckons, Speaks, Wire
<1>3. CASE Beckons(w) /\ count'.said = count.said
  BY <1>2, <1>3, WireSame, WireAppend DEF Beckons, Wire
<1>4. CASE Speaks(w)
  <2>1. PICK x \in ToServer :
         /\ x.do = "message" /\ up'[w] = Append(up[w], x)
         /\ x.what.by = w /\ x.what.n = count.said + 1 /\ w \in room[x.what.chat].who
    BY <1>4 DEF Speaks
  <2>2. count'.said = count.said + 1
    BY <1>4 DEF Speaks
  <2>3. WireSpeaks(w)
    BY <2>1, <2>2, WireAppend
  <2> QED BY <1>2, <2>2, <2>3 DEF Wire
<1> QED BY <1>1, <1>3, <1>4

LEMMA NextWires ==
    ASSUME TypeOK, Pages, Messages, Next
    PROVE  /\ \A u \in User : Wire(u)
           /\ count'.said \in {count.said, count.said + 1}
<1>1. ASSUME UNCHANGED up, count'.said = count.said
      PROVE  /\ \A u \in User : Wire(u)
             /\ count'.said \in {count.said, count.said + 1}
  BY <1>1, WireSame DEF Wire
<1>2. ASSUME NEW w \in User, ServerStep(w)
      PROVE  /\ \A u \in User : Wire(u)
             /\ count'.said \in {count.said, count.said + 1}
  <2>1. CASE Depart(w)
    BY <1>1, <2>1 DEF Depart
  <2>2. ASSUME NEW do, Arrives(w, do), count'.said = count.said
        PROVE  /\ \A u \in User : Wire(u)
               /\ count'.said \in {count.said, count.said + 1}
    BY <2>2, ArrivesWires DEF Wire
  <2>3. CASE Join(w) \/ Leave(w)
    <3>1. count'.said = count.said
      BY <2>3, CountTyped DEF Join, Leave, Fails
    <3> QED BY <2>2, <2>3, <3>1 DEF Join, Leave
  <2>4. CASE ReceiveMessage(w) \/ ReceiveTyping(w)
    <3>1. count'.said = count.said
      BY <2>4, CountTyped DEF ReceiveMessage, ReceiveTyping
    <3> QED BY <2>2, <2>4, <3>1 DEF ReceiveMessage, ReceiveTyping
  <2> QED BY <1>2, <2>1, <2>3, <2>4 DEF ServerStep
<1>3. ASSUME NEW w \in User, Browser(w) \/ Person(w) \/ HideTyping(w)
      PROVE  /\ \A u \in User : Wire(u)
             /\ count'.said \in {count.said, count.said + 1}
  <2>1. CASE ReceiveItem(w) \/ ReceiveStatus(w)
    BY <1>1, <2>1, ReceiveTyped
  <2>2. CASE NextJoins(w) \/ EndFinishes(w) \/ Person(w) \/ HideTyping(w)
    <3>1. MatchOf(w, cli[w])
      BY DEF Pages
    <3> QED BY <2>2, <3>1, PersonWires
  <2> QED BY <1>3, <2>1, <2>2 DEF Browser
<1>4. CASE Match
  <2>1. PICK who \in SUBSET Partner : Pair(who)
    BY <1>4, ChatAssumption DEF Match, Partner
  <2>2. UNCHANGED up /\ count'.said = count.said
    BY <2>1 DEF Pair, TypeOK
  <2> QED BY <1>1, <2>2
<1>5. ASSUME NEW m \in Message, NEW c \in Chat, m.by \in User, Relay(m, c)
      PROVE  count'.said = count.said
  BY <1>5, RelayShape
<1>6. CASE Calls
  <2>1. CASE FindRoom \/ Store
    <3>1. count'.said = count.said
      BY <2>1, CountTyped DEF FindRoom, Store, Fails
    <3> QED BY <1>1, <2>1, <3>1 DEF FindRoom, Store
  <2>2. CASE Scan
    <3>1. Answered("stored") /\ UNCHANGED up
      BY <2>2 DEF Scan
    <3>2. Head(calls).what \in Message /\ Head(calls).chat \in Chat /\ Head(calls).what.by \in User
      BY <3>1, HeadTyped DEF Messages, CallsMade, Taken, Said
    <3>3. count'.said = count.said
      BY <1>5, <2>2, <3>2 DEF Scan
    <3> QED BY <1>1, <3>1, <3>3
  <2> QED BY <1>6, <2>1, <2>2 DEF Calls
<1>7. ASSUME NEW s \in scans, Scanned(s)
      PROVE  /\ \A u \in User : Wire(u)
             /\ count'.said \in {count.said, count.said + 1}
  <2>1. s.what \in Message /\ s.chat \in Chat /\ s.what.by \in User
    BY DEF TypeOK, Messages, ScansMade, Taken, Said
  <2> QED BY <1>1, <1>5, <1>7, <2>1 DEF Scanned
<1>8. CASE Bots
  BY <1>1, <1>8 DEF Bots, BotStep, BotIsSilent, BotFails, BotAnswers, BotSays
<1> QED BY <1>2, <1>3, <1>4, <1>6, <1>7, <1>8 DEF Next, Scans

\* Calls are the ones before, d places further back; or the first has been answered and asks
\* again behind the others; or the first message from u begins one.
CallsKeep(d) ==
    \A i \in DOMAIN calls' : i \in Nat /\ i + d \in DOMAIN calls /\ calls'[i] = calls[i + d]
CallsTurn ==
    /\ 1 \in DOMAIN calls
    /\ \E y \in CallState :
         /\ y.what = calls[1].what /\ y.chat = calls[1].chat
         /\ Phase(y.at) = Phase(calls[1].at) + 1
         /\ y.at = "stored" => y.what \in Known(y.chat)'
         /\ \A i \in DOMAIN calls' :
              /\ i \in Nat
              /\ \/ i + 1 \in DOMAIN calls /\ calls'[i] = calls[i + 1]
                 \/ calls'[i] = y /\ \A j \in DOMAIN calls' : j <= i
CallsBegin(u) ==
    /\ WireKeeps(u, 1) /\ (\A v \in User : v # u => WireKeeps(v, 0))
    /\ 1 \in Sayings(up[u])
    /\ \E y \in CallState :
         /\ y.what = up[u][1].what /\ y.at = "room" /\ In(u, y.chat)
         /\ \A i \in DOMAIN calls' :
              /\ i \in Nat
              /\ \/ i \in DOMAIN calls /\ calls'[i] = calls[i]
                 \/ calls'[i] = y /\ \A j \in DOMAIN calls' : j <= i
CallsGo == CallsKeep(0) \/ CallsKeep(1) \/ CallsTurn \/ \E u \in User : CallsBegin(u)

ScansGo ==
    \A s \in scans' :
        \/ s \in scans
        \/ /\ 1 \in DOMAIN calls /\ calls[1].at = "stored" /\ calls[1].what.hot
           /\ s.what = calls[1].what /\ s.chat = calls[1].chat

LEMMA CallsSame ==
    ASSUME TypeOK, UNCHANGED calls
    PROVE  CallsKeep(0)
<1>1. calls \in Seq(CallState)
  BY DEF TypeOK
<1>2. \A i \in DOMAIN calls : i \in Nat /\ i + 0 = i
  BY <1>1
<1> QED BY <1>2 DEF CallsKeep

LEMMA CallsTail ==
    ASSUME TypeOK, calls # <<>>, calls' = Tail(calls)
    PROVE  CallsKeep(1)
<1>1. calls \in Seq(CallState)
  BY DEF TypeOK
<1>2. \A i \in DOMAIN Tail(calls) : /\ i \in Nat /\ i + 1 \in DOMAIN calls
                                    /\ Tail(calls)[i] = calls[i + 1]
  BY <1>1, TailOf
<1> QED BY <1>2 DEF CallsKeep

LEMMA CallsAsk ==
    ASSUME TypeOK, NEW at \in {"room", "store"}, Answered(at),
           NEW next \in {"store", "stored"}, Asks(next), Phase(next) = Phase(at) + 1,
           next = "stored" => LET c == Head(calls).chat IN
               Head(calls).what \in room'[c].log \cup room'[c].lost
    PROVE  CallsTurn
<1> DEFINE h == Head(calls)
           y == [h EXCEPT !.at = next]
           t == Tail(calls)
<1>1. /\ h \in CallState /\ h = calls[1] /\ h.at = at /\ 1 \in DOMAIN calls
      /\ t \in Seq(CallState) /\ calls \in Seq(CallState) /\ calls # <<>>
  BY HeadTyped
<1>2. y \in CallState /\ calls' = Append(t, y)
  BY AsksTyped
<1>3. y.what = h.what /\ y.chat = h.chat /\ y.at = next
  BY <1>1 DEF CallState
<1>4. \A i \in DOMAIN t : i + 1 \in DOMAIN calls /\ t[i] = calls[i + 1]
  BY <1>1, TailOf
<1> HIDE DEF t, y
<1>5. \A i \in DOMAIN calls' :
        /\ i \in Nat
        /\ \/ i \in DOMAIN t /\ calls'[i] = t[i]
           \/ calls'[i] = y /\ \A j \in DOMAIN calls' : j <= i
  BY <1>1, <1>2, LastOf
<1> QED BY <1>1, <1>2, <1>3, <1>4, <1>5 DEF CallsTurn, Known

LEMMA ReceiveCalls ==
    ASSUME TypeOK, NEW u \in User, ReceiveMessage(u)
    PROVE  CallsGo
<1>1. CASE UNCHANGED calls
  BY <1>1, CallsSame DEF CallsGo
<1>2. ASSUME KeyOf(u) # NoChat,
             calls' = Append(calls, [at |-> "room", what |-> Head(up[u]).what, chat |-> KeyOf(u)])
      PROVE  CallsBegin(u)
  <2> DEFINE y == [at |-> "room", what |-> Head(up[u]).what, chat |-> KeyOf(u)]
  <2>1. Arrives(u, "message")
    BY DEF ReceiveMessage
  <2>2. /\ Head(up[u]) = up[u][1] /\ 1 \in DOMAIN up[u] /\ Head(up[u]) \in ToServer
        /\ Head(up[u]).do = "message" /\ Head(up[u]).what \in Message
    BY <2>1, ArrivesTyped, AskFields
  <2>3. KeyOf(u) \in Chat /\ In(u, KeyOf(u))
    BY <1>2, KeyIs
  <2>4. y \in CallState /\ y.what = up[u][1].what /\ y.at = "room" /\ In(u, y.chat)
    BY <2>2, <2>3 DEF CallState
  <2>5. calls \in Seq(CallState)
    BY DEF TypeOK
  <2> HIDE DEF y
  <2>6. calls' = Append(calls, y)
    BY <1>2 DEF y
  <2>7. \A i \in DOMAIN calls' :
          /\ i \in Nat
          /\ \/ i \in DOMAIN calls /\ calls'[i] = calls[i]
             \/ calls'[i] = y /\ \A j \in DOMAIN calls' : j <= i
    BY <2>4, <2>5, <2>6, LastOf
  <2>8. 1 \in Sayings(up[u])
    BY <2>2 DEF Sayings
  <2>9. WireKeeps(u, 1) /\ \A v \in User : v # u => WireKeeps(v, 0)
    BY <2>1, ArrivesWires
  <2> QED BY <2>4, <2>7, <2>8, <2>9 DEF CallsBegin
<1>3. \/ UNCHANGED calls
      \/ /\ KeyOf(u) # NoChat
         /\ calls' = Append(calls, [at |-> "room", what |-> Head(up[u]).what, chat |-> KeyOf(u)])
  BY DEF ReceiveMessage
<1> QED BY <1>1, <1>2, <1>3 DEF CallsGo

LEMMA NextCalls ==
    ASSUME TypeOK, Pages, Messages, Next
    PROVE  CallsGo /\ ScansGo
<1>1. ASSUME UNCHANGED calls, scans' \subseteq scans
      PROVE  CallsGo /\ ScansGo
  BY <1>1, CallsSame DEF CallsGo, ScansGo
<1>2. ASSUME NEW w \in User, ServerStep(w)
      PROVE  CallsGo /\ ScansGo
  <2>1. CASE Join(w) \/ Leave(w) \/ Depart(w) \/ ReceiveTyping(w)
    BY <1>1, <2>1 DEF Join, Leave, Depart, ReceiveTyping
  <2>2. CASE ReceiveMessage(w)
    BY <2>2, ReceiveCalls DEF ReceiveMessage, ScansGo
  <2> QED BY <1>2, <2>1, <2>2 DEF ServerStep
<1>3. ASSUME NEW w \in User, Browser(w) \/ Person(w) \/ HideTyping(w)
      PROVE  CallsGo /\ ScansGo
  <2>1. CASE ReceiveItem(w) \/ ReceiveStatus(w)
    BY <1>1, <2>1, ReceiveTyped
  <2>2. CASE NextJoins(w) \/ EndFinishes(w) \/ Person(w) \/ HideTyping(w)
    <3>1. MatchOf(w, cli[w])
      BY DEF Pages
    <3> QED BY <1>1, <2>2, <3>1, PersonShape
  <2> QED BY <1>3, <2>1, <2>2 DEF Browser
<1>4. CASE Match
  <2>1. PICK who \in SUBSET Partner : Pair(who)
    BY <1>4, ChatAssumption DEF Match, Partner
  <2> QED BY <1>1, <2>1 DEF Pair
<1>5. CASE FindRoom
  <2>1. Answered("room") /\ UNCHANGED scans
    BY <1>5 DEF FindRoom
  <2>2. CASE Asks("store")
    BY <2>1, <2>2, CallsAsk DEF Phase, CallsGo, ScansGo
  <2>3. CASE calls' = Tail(calls)
    BY <2>1, <2>3, CallsTail DEF Answered, CallsGo, ScansGo
  <2> QED BY <1>5, <2>2, <2>3 DEF FindRoom
<1>6. CASE Store
  <2>1. Answered("store") /\ Asks("stored") /\ UNCHANGED scans
    BY <1>6 DEF Store
  <2>2. Head(calls).chat \in Chat
    BY <2>1, HeadTyped
  <2>3. LET c == Head(calls).chat IN Head(calls).what \in room'[c].log \cup room'[c].lost
    BY <1>6, <2>2 DEF Store, TypeOK, RoomState
  <2> QED BY <2>1, <2>3, CallsAsk DEF Phase, CallsGo, ScansGo
<1>7. CASE Scan
  <2>1. Answered("stored") /\ calls' = Tail(calls)
    BY <1>7 DEF Scan
  <2>2. CallsGo
    BY <2>1, CallsTail DEF Answered, CallsGo
  <2>3. Head(calls) = calls[1] /\ 1 \in DOMAIN calls /\ Head(calls).at = "stored"
    BY <2>1, HeadTyped
  <2>4. \/ UNCHANGED scans
        \/ /\ Head(calls).what.hot
           /\ scans' = scans \cup {[what |-> Head(calls).what, chat |-> Head(calls).chat]}
    BY <1>7 DEF Scan
  <2>5. ScansGo
    BY <2>3, <2>4 DEF ScansGo
  <2> QED BY <2>2, <2>5
<1>8. ASSUME NEW s \in scans, Scanned(s)
      PROVE  CallsGo /\ ScansGo
  BY <1>1, <1>8 DEF Scanned
<1>9. CASE Bots
  BY <1>1, <1>9 DEF Bots, BotStep, BotIsSilent, BotFails, BotAnswers, BotSays
<1> QED BY <1>2, <1>3, <1>4, <1>5, <1>6, <1>7, <1>8, <1>9 DEF Next, Calls, Scans

-----------------------------------------------------------------------------
(* Messages are said in a chat of their writer, and recorded while it goes on. *)

LEMMA MessageStays ==
    ASSUME TypeOK, ChatsLast, count'.said \in {count.said, count.said + 1}, NEW m \in Message
    PROVE  /\ Said(m) => Said(m)'
           /\ \A c \in Chat : Taken(m, c) => Taken(m, c)'
           /\ Made(m) => Made(m)'
           /\ Made(m) /\ Recorded(m) => Recorded(m)'
<1>1. m.chat \in Chat /\ m.n \in Nat /\ count.said \in Nat
  BY DEF Message, TypeOK
<1>2. ASSUME Said(m)
      PROVE  Said(m)' /\ (room'[m.chat].live => room[m.chat].live)
             /\ (room'[m.chat].live => Known(m.chat) \subseteq Known(m.chat)')
  <2>1. m.n \in 1..count'.said
    BY <1>1, <1>2 DEF Said
  <2>2. m.by \in User /\ m.by \in room'[m.chat].who
    BY <1>1, <1>2, MemberStays DEF Said
  <2>3. room[m.chat].who # {}
    BY <1>2 DEF Said
  <2> QED BY <1>1, <2>1, <2>2, <2>3 DEF Said, ChatsLast, Lasts
<1>3. ASSUME NEW c \in Chat, Taken(m, c)
      PROVE  Taken(m, c)'
  <2>1. m.by \in room'[c].who
    BY <1>3, MemberStays DEF Taken
  <2> QED BY <1>2, <1>3, <2>1 DEF Taken
<1>4. Made(m) => Made(m)'
  BY <1>2 DEF Made
<1>5. Made(m) /\ Recorded(m) => Recorded(m)'
  <2>1. CASE Said(m)
    BY <1>2, <2>1 DEF Recorded
  <2>2. CASE m.n = 0
    BY <2>2 DEF Recorded
  <2> QED BY <2>1, <2>2 DEF Made
<1> QED BY <1>2, <1>3, <1>4, <1>5

LEMMA UpTyped ==
    ASSUME TypeOK, UpMade, NEW u \in User, NEW i \in Sayings(up[u])
    PROVE  /\ i \in Nat /\ up[u][i].what \in Message /\ Said(up[u][i].what)
           /\ up[u][i].what.by = u /\ up[u][i].what.n \in 1..count.said
<1>1. up[u] \in Seq(ToServer) /\ i \in DOMAIN up[u] /\ up[u][i].do = "message"
  BY DEF TypeOK, Sayings
<1>2. up[u][i] \in ToServer /\ i \in Nat
  BY <1>1
<1> QED BY <1>1, <1>2, AskFields DEF UpMade, Said

LEMMA CallTyped ==
    ASSUME TypeOK, CallsMade, NEW i \in DOMAIN calls
    PROVE  /\ i \in Nat /\ calls[i] \in CallState
           /\ calls[i].what \in Message /\ calls[i].chat \in Chat
           /\ calls[i].what.n \in 1..count.said /\ calls[i].what.by \in User
           /\ Taken(calls[i].what, calls[i].chat)
<1>1. calls \in Seq(CallState)
  BY DEF TypeOK
<1>2. calls[i] \in CallState /\ i \in Nat
  BY <1>1
<1> QED BY <1>2 DEF CallState, CallsMade, Taken, Said

LEMMA NextUpMade ==
    ASSUME TypeOK, ChatsLast, UpMade, \A u \in User : Wire(u),
           count'.said \in {count.said, count.said + 1}
    PROVE  UpMade'
<1>1. ASSUME NEW u \in User, NEW i \in Sayings(up'[u])
      PROVE  \E m \in Message : m = up'[u][i].what /\ Said(m)' /\ m.by = u
  <2>1. ASSUME NEW j \in Sayings(up[u]), up'[u][i] = up[u][j]
        PROVE  \E m \in Message : m = up'[u][i].what /\ Said(m)' /\ m.by = u
    <3>1. PICK m \in Message : m = up[u][j].what /\ Said(m) /\ m.by = u
      BY UpTyped
    <3>2. Said(m)'
      BY <3>1, MessageStays
    <3> QED BY <2>1, <3>1, <3>2
  <2>2. CASE WireKeeps(u, 0) \/ WireKeeps(u, 1)
    BY <2>1, <2>2 DEF WireKeeps
  <2>3. CASE WireSpeaks(u)
    <3>1. PICK m \in Message :
            /\ m.by = u /\ m.n = count.said + 1 /\ u \in room[m.chat].who
            /\ \/ i \in Sayings(up[u]) /\ up'[u][i] = up[u][i]
               \/ up'[u][i].what = m
      BY <2>3 DEF WireSpeaks
    <3>2. m.chat \in Chat
      BY DEF Message
    <3>3. u \in room'[m.chat].who
      BY <3>1, <3>2, MemberStays
    <3>4. m.n \in 1..count'.said
      BY <2>3, <3>1 DEF WireSpeaks, TypeOK
    <3>5. Said(m)'
      BY <3>1, <3>3, <3>4 DEF Said
    <3> QED BY <2>1, <3>1, <3>5
  <2> QED BY <2>2, <2>3 DEF Wire
<1> QED BY <1>1 DEF UpMade, Said

LEMMA NextCallsMade ==
    ASSUME TypeOK, OneChat, ChatsLast, UpMade, CallsMade, CallsGo,
           count'.said \in {count.said, count.said + 1}
    PROVE  CallsMade'
<1>1. ASSUME NEW i \in DOMAIN calls'
      PROVE  \E m \in Message, c \in Chat :
              /\ m = calls'[i].what /\ c = calls'[i].chat /\ Taken(m, c)'
              /\ calls'[i].at = "stored" => Recorded(m)'
  <2>1. ASSUME NEW j \in DOMAIN calls, calls'[i] = calls[j]
        PROVE  \E m \in Message, c \in Chat :
                /\ m = calls'[i].what /\ c = calls'[i].chat /\ Taken(m, c)'
                /\ calls'[i].at = "stored" => Recorded(m)'
    <3>1. PICK m \in Message, c \in Chat : m = calls[j].what /\ c = calls[j].chat /\ Taken(m, c)
      BY CallTyped
    <3>2. calls[j].at = "stored" => Recorded(m)
      BY <3>1 DEF CallsMade
    <3>3. Taken(m, c)' /\ (calls[j].at = "stored" => Recorded(m)')
      BY <3>1, <3>2, MessageStays DEF Made, Taken
    <3> QED BY <2>1, <3>1, <3>3
  <2>2. CASE CallsKeep(0) \/ CallsKeep(1)
    BY <2>1, <2>2 DEF CallsKeep
  <2>3. CASE CallsTurn
    <3>1. PICK y \in CallState :
            /\ y.what = calls[1].what /\ y.chat = calls[1].chat /\ 1 \in DOMAIN calls
            /\ y.at = "stored" => y.what \in Known(y.chat)'
            /\ \/ i + 1 \in DOMAIN calls /\ calls'[i] = calls[i + 1]
               \/ calls'[i] = y
      BY <2>3 DEF CallsTurn
    <3>2. PICK m \in Message, c \in Chat : m = y.what /\ c = y.chat /\ Taken(m, c)
      BY <3>1, CallTyped
    <3>3. Taken(m, c)'
      BY <3>2, MessageStays
    <3>4. y.at = "stored" => Recorded(m)'
      <4>1. room'[m.chat].live => m.chat = c
        BY <3>3 DEF Taken
      <4> QED BY <3>1, <3>2, <4>1 DEF Recorded
    <3> QED BY <2>1, <3>1, <3>2, <3>3, <3>4
  <2>4. ASSUME NEW u \in User, CallsBegin(u)
        PROVE  \E m \in Message, c \in Chat :
                /\ m = calls'[i].what /\ c = calls'[i].chat /\ Taken(m, c)'
                /\ calls'[i].at = "stored" => Recorded(m)'
    <3>1. PICK y \in CallState :
            /\ y.what = up[u][1].what /\ y.at = "room" /\ In(u, y.chat)
            /\ \/ i \in DOMAIN calls /\ calls'[i] = calls[i]
               \/ calls'[i] = y
      BY <2>4 DEF CallsBegin
    <3>2. 1 \in Sayings(up[u])
      BY <2>4 DEF CallsBegin
    <3>3. PICK m \in Message, c \in Chat : m = y.what /\ c = y.chat
      BY DEF CallState
    <3>4. Said(m) /\ m.by = u /\ m.chat \in Chat
      BY <3>1, <3>2, <3>3, UpTyped DEF Message
    <3>5. room[m.chat].live => m.chat = c
      BY <3>1, <3>3, <3>4 DEF Said, In, OneChat
    <3>6. Taken(m, c)
      BY <3>1, <3>3, <3>4, <3>5 DEF Taken, In
    <3>7. Taken(m, c)'
      BY <3>6, MessageStays
    <3> QED BY <2>1, <3>1, <3>3, <3>7
  <2> QED BY <2>2, <2>3, <2>4 DEF CallsGo
<1> QED BY <1>1 DEF CallsMade, Taken, Said, Recorded

LEMMA NextScansMade ==
    ASSUME TypeOK, ChatsLast, CallsMade, ScansMade, ScansGo,
           count'.said \in {count.said, count.said + 1}
    PROVE  ScansMade'
<1>1. ASSUME NEW s \in scans'
      PROVE  Taken(s.what, s.chat)' /\ Recorded(s.what)' /\ s.what.hot
  <2>1. PICK m \in Message, c \in Chat :
          m = s.what /\ c = s.chat /\ Taken(m, c) /\ Recorded(m) /\ m.hot
    <3>1. CASE s \in scans
      BY <3>1 DEF TypeOK, ScansMade
    <3>2. CASE /\ 1 \in DOMAIN calls /\ calls[1].at = "stored" /\ calls[1].what.hot
               /\ s.what = calls[1].what /\ s.chat = calls[1].chat
      BY <3>2, CallTyped DEF CallsMade
    <3> QED BY <3>1, <3>2 DEF ScansGo
  <2>2. Taken(m, c)' /\ Recorded(m)'
    BY <2>1, MessageStays DEF Made, Taken
  <2> QED BY <2>1, <2>2
<1> QED BY <1>1 DEF ScansMade

\* A fresh message is of a person and recorded, or a reply.
LEMMA FreshMade ==
    ASSUME NEW m, Fresh(m)
    PROVE  Made(m) /\ Recorded(m)
BY DEF Fresh, Made, Taken, Recorded

LEMMA NextAtMade ==
    ASSUME TypeOK, ChatsLast, AtMade, \A u \in User : Keeps(u) \/ Gains(u),
           count'.said \in {count.said, count.said + 1}
    PROVE  AtMade'
<1>1. ASSUME NEW u \in User, NEW m \in At(u)'
      PROVE  Made(m)' /\ Recorded(m)'
  <2>1. m \in Message /\ Made(m) /\ Recorded(m)
    <3>1. CASE m \in At(u)
      BY <3>1, ScreenTyped DEF AtMade
    <3>2. CASE m \notin At(u)
      BY <1>1, <3>2, FreshMade DEF Keeps, Gains
    <3> QED BY <3>1, <3>2
  <2> QED BY <2>1, MessageStays
<1> QED BY <1>1 DEF AtMade

LEMMA NextMessages ==
    ASSUME TypeOK, Rooms, ChatsLast, Pages, Messages, Next
    PROVE  Messages'
<1>1. (\A u \in User : Wire(u)) /\ count'.said \in {count.said, count.said + 1}
  BY NextWires
<1>2. CallsGo /\ ScansGo
  BY NextCalls
<1>3. \A u \in User : Keeps(u) \/ Gains(u)
  BY NextHappens, HappensAt
<1> QED BY <1>1, <1>2, <1>3, NextUpMade, NextCallsMade, NextScansMade, NextAtMade
        DEF Messages, Rooms

-----------------------------------------------------------------------------
(* What was said first is shown first.                                      *)

LEMMA WireOld ==
    ASSUME NEW u \in User, Wire(u), NEW i \in Sayings(up'[u])
    PROVE  \/ \E j \in Sayings(up[u]) : up'[u][i].what = up[u][j].what
           \/ up'[u][i].what.by = u /\ up'[u][i].what.n = count.said + 1
<1>1. CASE WireKeeps(u, 0) \/ WireKeeps(u, 1)
  BY <1>1 DEF WireKeeps
<1>2. CASE WireSpeaks(u)
  BY <1>2 DEF WireSpeaks
<1> QED BY <1>1, <1>2 DEF Wire

LEMMA CallOld ==
    ASSUME CallsGo, NEW i \in DOMAIN calls'
    PROVE  \/ \E j \in DOMAIN calls : calls'[i].what = calls[j].what
           \/ \E u \in User : CallsBegin(u) /\ 1 \in Sayings(up[u])
                              /\ calls'[i].what = up[u][1].what
<1>1. CASE CallsKeep(0) \/ CallsKeep(1)
  BY <1>1 DEF CallsKeep
<1>2. CASE CallsTurn
  BY <1>2 DEF CallsTurn
<1>3. ASSUME NEW u \in User, CallsBegin(u)
      PROVE  \/ \E j \in DOMAIN calls : calls'[i].what = calls[j].what
             \/ 1 \in Sayings(up[u]) /\ calls'[i].what = up[u][1].what
  BY <1>3 DEF CallsBegin
<1> QED BY <1>1, <1>2, <1>3 DEF CallsGo

LEMMA NextSaidInOrder ==
    ASSUME TypeOK, TypeOK', UpMade, SaidInOrder, \A u \in User : Wire(u)
    PROVE  SaidInOrder'
<1>1. ASSUME NEW u \in User, NEW i \in Sayings(up'[u]), NEW j \in Sayings(up'[u]), i < j
      PROVE  up'[u][i].what.n < up'[u][j].what.n
  <2>1. i \in Nat /\ j \in Nat
    <3>1. up'[u] \in Seq(ToServer)
      BY DEF TypeOK
    <3> QED BY <3>1 DEF Sayings
  <2>2. ASSUME NEW d \in {0, 1}, WireKeeps(u, d)
        PROVE  up'[u][i].what.n < up'[u][j].what.n
    <3>1. i + d < j + d
      BY <1>1, <2>1
    <3> QED BY <2>2, <3>1 DEF WireKeeps, SaidInOrder
  <2>3. CASE WireSpeaks(u)
    <3>1. PICK m \in Message :
            /\ m.n = count.said + 1
            /\ \A l \in Sayings(up'[u]) :
                 \/ l \in Sayings(up[u]) /\ up'[u][l] = up[u][l]
                 \/ up'[u][l].what = m /\ \A g \in Sayings(up'[u]) : g <= l
      BY <2>3 DEF WireSpeaks
    <3>2. ~(j <= i)
      BY <1>1, <2>1
    <3>3. i \in Sayings(up[u]) /\ up'[u][i] = up[u][i]
      BY <3>1, <3>2
    <3>4. up[u][i].what.n \in 1..count.said /\ count.said \in Nat
      BY <3>3, UpTyped DEF TypeOK
    <3>5. CASE up'[u][j].what = m
      BY <3>1, <3>3, <3>4, <3>5
    <3>6. CASE j \in Sayings(up[u]) /\ up'[u][j] = up[u][j]
      BY <1>1, <3>3, <3>6 DEF SaidInOrder
    <3> QED BY <3>1, <3>5, <3>6
  <2> QED BY <2>2, <2>3 DEF Wire
<1> QED BY <1>1 DEF SaidInOrder

\* A call that has been answered once more is not ahead of the others any longer.
LEMMA TurnInPhase ==
    ASSUME NEW x \in CallState, NEW y \in CallState, NEW z \in CallState,
           y.what = x.what, Phase(y.at) = Phase(x.at) + 1, InPhase(x, z)
    PROVE  InPhase(z, y)
<1>1. /\ Phase(x.at) \in 0..2 /\ Phase(z.at) \in 0..2
      /\ x.what.n \in Nat /\ z.what.n \in Nat
  BY DEF CallState, Phase, Message
<1> QED BY <1>1 DEF InPhase, Ahead

LEMMA NextCalledInOrder ==
    ASSUME TypeOK, TypeOK', UpMade, CallsMade, SaidInOrder, CalledInOrder,
           CallsGo, \A u \in User : Wire(u)
    PROVE  CalledInOrder'
<1>1. \A i \in DOMAIN calls' : i \in Nat
  <2>1. calls' \in Seq(CallState)
    BY DEF TypeOK
  <2> QED BY <2>1
<1>2. ASSUME NEW i \in DOMAIN calls', NEW j \in DOMAIN calls', i < j
      PROVE  InPhase(calls'[i], calls'[j])
  <2>1. i \in Nat /\ j \in Nat /\ ~(j <= i)
    BY <1>1, <1>2
  <2>2. ASSUME NEW d \in {0, 1}, CallsKeep(d)
        PROVE  InPhase(calls'[i], calls'[j])
    <3>1. i + d < j + d
      BY <1>2, <2>1
    <3> QED BY <2>2, <3>1 DEF CallsKeep, CalledInOrder
  <2>3. CASE CallsTurn
    <3>1. PICK y \in CallState :
            /\ y.what = calls[1].what /\ Phase(y.at) = Phase(calls[1].at) + 1
            /\ \A l \in DOMAIN calls' :
                 \/ l + 1 \in DOMAIN calls /\ calls'[l] = calls[l + 1]
                 \/ calls'[l] = y /\ \A g \in DOMAIN calls' : g <= l
      BY <2>3 DEF CallsTurn
    <3>2. i + 1 \in DOMAIN calls /\ calls'[i] = calls[i + 1] /\ 1 \in DOMAIN calls
      BY <2>1, <2>3, <3>1 DEF CallsTurn
    <3>3. CASE j + 1 \in DOMAIN calls /\ calls'[j] = calls[j + 1]
      <4>1. i + 1 < j + 1
        BY <1>2, <2>1
      <4> QED BY <3>2, <3>3, <4>1 DEF CalledInOrder
    <3>4. CASE calls'[j] = y
      <4>1. 1 < i + 1
        <5>1. i # 0
          <6>1. calls' \in Seq(CallState)
            BY DEF TypeOK
          <6> QED BY <6>1
        <5> QED BY <2>1, <5>1
      <4>2. InPhase(calls[1], calls[i + 1])
        BY <3>2, <4>1 DEF CalledInOrder
      <4>3. calls[1] \in CallState /\ calls[i + 1] \in CallState
        BY <3>2, CallTyped
      <4>4. InPhase(calls[i + 1], y)
        BY <3>1, <4>2, <4>3, TurnInPhase
      <4> QED BY <3>2, <3>4, <4>4
    <3> QED BY <3>1, <3>3, <3>4
  <2>4. ASSUME NEW u \in User, CallsBegin(u)
        PROVE  InPhase(calls'[i], calls'[j])
    <3>1. PICK y \in CallState :
            /\ y.what = up[u][1].what /\ y.at = "room"
            /\ \A l \in DOMAIN calls' :
                 \/ l \in DOMAIN calls /\ calls'[l] = calls[l]
                 \/ calls'[l] = y /\ \A g \in DOMAIN calls' : g <= l
      BY <2>4 DEF CallsBegin
    <3>2. i \in DOMAIN calls /\ calls'[i] = calls[i]
      BY <2>1, <3>1
    <3>3. CASE j \in DOMAIN calls /\ calls'[j] = calls[j]
      BY <1>2, <3>2, <3>3 DEF CalledInOrder
    <3>4. CASE calls'[j] = y
      <4>1. 1 \in Sayings(up[u]) /\ up[u][1].what.by = u
        BY <2>4, UpTyped DEF CallsBegin
      <4>2. calls[i].what.by = u => calls[i].what.n < y.what.n
        BY <3>1, <3>2, <4>1 DEF CalledInOrder
      <4>3. Phase(calls[i].at) >= Phase(y.at)
        BY <3>1 DEF Phase
      <4>4. InPhase(calls[i], y)
        BY <3>1, <4>1, <4>2, <4>3 DEF InPhase, Ahead
      <4> QED BY <3>2, <3>4, <4>4
    <3> QED BY <3>1, <3>3, <3>4
  <2> QED BY <2>2, <2>3, <2>4 DEF CallsGo
<1>3. ASSUME NEW i \in DOMAIN calls', NEW u \in User, NEW j \in Sayings(up'[u]),
             calls'[i].what.by = u
      PROVE  calls'[i].what.n < up'[u][j].what.n
  <2>1. ASSUME NEW l \in DOMAIN calls, calls'[i].what = calls[l].what
        PROVE  calls'[i].what.n < up'[u][j].what.n
    <3>1. CASE \E g \in Sayings(up[u]) : up'[u][j].what = up[u][g].what
      BY <1>3, <2>1, <3>1 DEF CalledInOrder
    <3>2. CASE up'[u][j].what.n = count.said + 1
      <4>1. calls[l].what.n \in 1..count.said /\ count.said \in Nat
        BY CallTyped DEF TypeOK
      <4> QED BY <2>1, <3>2, <4>1
    <3> QED BY <3>1, <3>2, WireOld
  <2>2. ASSUME NEW v \in User, CallsBegin(v), 1 \in Sayings(up[v]),
               calls'[i].what = up[v][1].what
        PROVE  calls'[i].what.n < up'[u][j].what.n
    <3>1. u = v
      BY <1>3, <2>2, UpTyped
    <3>2. j \in Nat /\ j + 1 \in Sayings(up[u]) /\ up'[u][j] = up[u][j + 1]
      BY <2>2, <3>1 DEF CallsBegin, WireKeeps
    <3>3. 1 < j + 1
      <4>1. up'[u] \in Seq(ToServer)
        BY DEF TypeOK
      <4>2. j # 0
        BY <4>1 DEF Sayings
      <4> QED BY <3>2, <4>2
    <3> QED BY <2>2, <3>1, <3>2, <3>3 DEF SaidInOrder
  <2> QED BY <2>1, <2>2, CallOld
<1> QED BY <1>2, <1>3 DEF CalledInOrder

\* A fresh message was said after those that the browsers hold, and before those to come.
LEMMA FreshBefore ==
    ASSUME TypeOK, UpMade, CallsMade, ScansMade, Order, NEW m \in Message, Fresh(m), CallsGo
    PROVE  /\ \A u \in User : \A x \in At(u) : Before(x, m)
           /\ \A i \in DOMAIN calls' : Before(m, calls'[i].what)
           /\ \A v \in User : \A j \in Sayings(up[v]) : Before(m, up[v][j].what)
<1>1. CASE m.hot
  BY <1>1 DEF Before
<1>2. CASE m.n = 0 /\ m.by = Bot
  <2>1. \A x : x.by \in User => Before(m, x)
    BY <1>2, ChatAssumption DEF Before
  <2>2. \A v \in User : \A j \in Sayings(up[v]) : up[v][j].what.by \in User
    BY UpTyped
  <2>3. \A i \in DOMAIN calls' : calls'[i].what.by \in User
    <3>1. \A i \in DOMAIN calls : calls[i].what.by \in User
      BY CallTyped
    <3> QED BY <2>2, <3>1, CallOld
  <2>4. \A x : Before(x, m)
    BY <1>2 DEF Before
  <2> QED BY <2>1, <2>2, <2>3, <2>4
<1>3. CASE FromCall(m)
  <2>1. /\ calls \in Seq(CallState) /\ calls # <<>> /\ calls[1].at = "stored"
        /\ m = calls[1].what /\ calls' = Tail(calls)
    BY <1>3 DEF FromCall
  <2>2. 1 \in DOMAIN calls
    BY <2>1
  <2>3. \A u \in User : \A x \in At(u) : Before(x, m)
    BY <2>1, <2>2 DEF Order, ShownInOrder
  <2>4. ASSUME NEW i \in DOMAIN calls'
        PROVE  Before(m, calls'[i].what)
    <3>1. i + 1 \in DOMAIN calls /\ calls'[i] = calls[i + 1] /\ 1 < i + 1
      BY <2>1, TailOf
    <3>2. InPhase(calls[1], calls[i + 1])
      BY <2>2, <3>1 DEF Order, CalledInOrder
    <3>3. calls[i + 1] \in CallState
      BY <3>1, CallTyped
    <3>4. ~(Phase(calls[1].at) < Phase(calls[i + 1].at))
      BY <2>1, <3>3 DEF Phase, CallState
    <3> QED BY <2>1, <3>1, <3>2, <3>4 DEF InPhase, Ahead, Before
  <2>5. \A v \in User : \A j \in Sayings(up[v]) : Before(m, up[v][j].what)
    <3>1. \A v \in User : \A j \in Sayings(up[v]) :
            up[v][j].what.by = v /\ (m.by = v => m.n < up[v][j].what.n)
      BY <2>1, <2>2, UpTyped DEF Order, CalledInOrder
    <3> QED BY <3>1 DEF Before
  <2> QED BY <2>3, <2>4, <2>5
<1>4. CASE FromScan(m)
  BY <1>1, <1>4 DEF FromScan, ScansMade
<1> QED BY <1>2, <1>3, <1>4 DEF Fresh

LEMMA NextShownInOrder ==
    ASSUME TypeOK, UpMade, CallsMade, ScansMade, AtMade, Order, CallsGo,
           \A u \in User : Wire(u) /\ (Keeps(u) \/ Gains(u))
    PROVE  ShownInOrder'
<1>1. ASSUME NEW u \in User
      PROVE  Sorted(down'[u], Screen(cli'[u]))
  <2>1. Sorted(down[u], Screen(cli[u]))
    BY DEF Order, ShownInOrder
  <2>2. CASE Keeps(u)
    BY <2>1, <2>2 DEF Keeps
  <2>3. CASE Gains(u)
    BY <2>1, <2>3, FreshBefore DEF Gains
  <2> QED BY <2>2, <2>3
<1>2. ASSUME NEW u \in User, NEW m \in At(u)'
      PROVE  /\ \A i \in DOMAIN calls' : Before(m, calls'[i].what)
             /\ \A v \in User : \A i \in Sayings(up'[v]) : Before(m, up'[v][i].what)
  <2>1. /\ m \in Message /\ Made(m)
        /\ \A i \in DOMAIN calls' : Before(m, calls'[i].what)
        /\ \A v \in User : \A i \in Sayings(up[v]) : Before(m, up[v][i].what)
    <3>1. CASE m \in At(u)
      <4>1. m \in Message /\ Made(m)
        BY <3>1, ScreenTyped DEF AtMade
      <4>2. /\ \A i \in DOMAIN calls : Before(m, calls[i].what)
            /\ \A v \in User : \A i \in Sayings(up[v]) : Before(m, up[v][i].what)
        BY <3>1 DEF Order, ShownInOrder
      <4>3. \A i \in DOMAIN calls' : Before(m, calls'[i].what)
        BY <4>2, CallOld
      <4> QED BY <4>1, <4>2, <4>3
    <3>2. CASE m \notin At(u)
      <4>1. m \in Message /\ Fresh(m)
        BY <1>2, <3>2 DEF Keeps, Gains
      <4> QED BY <4>1, FreshMade, FreshBefore
    <3> QED BY <3>1, <3>2
  <2>2. ASSUME NEW v \in User, NEW i \in Sayings(up'[v])
        PROVE  Before(m, up'[v][i].what)
    <3>1. CASE \E j \in Sayings(up[v]) : up'[v][i].what = up[v][j].what
      BY <2>1, <3>1
    <3>2. CASE up'[v][i].what.by = v /\ up'[v][i].what.n = count.said + 1
      <4>1. m.by = v => m.n \in 1..count.said
        BY <2>1, ChatAssumption DEF Made, Said
      <4>2. count.said \in Nat
        BY DEF TypeOK
      <4> QED BY <3>2, <4>1, <4>2 DEF Before
    <3> QED BY <3>1, <3>2, WireOld
  <2> QED BY <2>1, <2>2
<1> QED BY <1>1, <1>2 DEF ShownInOrder

LEMMA NextOrder ==
    ASSUME TypeOK, TypeOK', Pages, Messages, Order, Next
    PROVE  Order'
<1>1. \A u \in User : Wire(u)
  BY NextWires
<1>2. CallsGo
  BY NextCalls
<1>3. \A u \in User : Keeps(u) \/ Gains(u)
  BY NextHappens, HappensAt
<1>4. SaidInOrder' /\ CalledInOrder'
  BY <1>1, <1>2, NextSaidInOrder, NextCalledInOrder DEF Messages, Order
<1>5. ShownInOrder'
  BY <1>1, <1>2, <1>3, NextShownInOrder DEF Messages
<1> QED BY <1>4, <1>5 DEF Order

-----------------------------------------------------------------------------
(* The theorems.                                                            *)

LEMMA InitRelayed == Init => Relayed
<1> SUFFICES ASSUME Init PROVE Relayed
  OBVIOUS
<1> USE DEF Init
<1>1. NoChat \in Chat \cup {NoChat} /\ NoChat \in Partner \cup {NoChat} /\ <<>> \in Seq(Message)
  OBVIOUS
<1>2. TypeOK
  <2>1. room \in [Chat -> RoomState] /\ srv \in [User -> SocketState]
    BY DEF RoomState, SocketState
  <2>2. cli \in [User -> PageState]
    BY <1>1, BlankTyped DEF PageState
  <2>3. count \in [chats : 0..MaxChats, said : 0..MaxSaid, moves : 0..MaxMoves, acts : 0..MaxActs]
    BY ChatAssumption
  <2>4. /\ leave \in [User -> Chat \cup {NoChat}]
        /\ up \in [User -> Seq(ToServer)] /\ down \in [User -> Seq(ToBrowser)]
        /\ calls \in Seq(CallState) /\ scans \in SUBSET [what : Message, chat : Chat]
        /\ replies \in SUBSET ReplyState /\ owed \in SUBSET Message
    OBVIOUS
  <2> QED BY <2>1, <2>2, <2>3, <2>4 DEF TypeOK
<1>3. Rooms
  BY DEF Rooms, ChatsInTurn, RoomsOfMembers, AloneWithBot, RepliesOfBot, QueueIsOut, OneChat,
         Full, In
<1>4. \A u \in User : /\ down[u] = <<>> /\ up[u] = <<>> /\ srv[u].rooms = {}
                      /\ cli[u].at = "out" /\ cli[u].match = NoChat
                      /\ cli[u].shown = <<>> /\ cli[u].kept.shown = <<>>
  BY DEF Blank
<1>5. DOMAIN <<>> = {} /\ calls = <<>> /\ scans = {}
  OBVIOUS
<1> HIDE DEF Init
<1>6. \A u \in User : Tidy(cli[u]) /\ MatchOf(u, cli[u]) /\ NewsOf(u, down[u])
  BY <1>4, <1>5 DEF Tidy, MatchOf, NewsOf
<1>7. \A u \in User : InRooms(u, down[u], cli[u]) /\ SentInChat(down[u], cli[u])
  BY <1>4, <1>5 DEF InRooms, SentInChat
<1>8. \A u \in User : Screen(cli[u]) = <<>> /\ Spoken(down[u]) = {} /\ Sayings(up[u]) = {}
  BY <1>4, <1>5 DEF Screen, Spoken, Sayings
<1>9. \A u \in User : At(u) = {}
  BY <1>5, <1>8 DEF At, Holds
<1>10. Messages
  BY <1>5, <1>8, <1>9 DEF Messages, UpMade, CallsMade, ScansMade, AtMade
<1>11. Order
  BY <1>5, <1>8, <1>9 DEF Order, SaidInOrder, CalledInOrder, ShownInOrder, Sorted
<1> QED BY <1>2, <1>3, <1>6, <1>7, <1>10, <1>11 DEF Relayed, Pages, NewsInv

LEMMA NextRelayed == Relayed /\ [Next]_vars => Relayed'
<1> SUFFICES ASSUME Relayed, [Next]_vars PROVE Relayed'
  OBVIOUS
<1>1. CASE Next
  <2>1. TypeOK'
    BY <1>1, NextTyped DEF Relayed
  <2>2. Rooms' /\ ChatsLast
    BY <1>1, <2>1, NextRooms DEF Relayed
  <2>3. Pages' /\ NewsInv' /\ Messages' /\ Order'
    BY <1>1, <2>1, <2>2, NextPages, NextNews, NextMessages, NextOrder DEF Relayed
  <2> QED BY <2>1, <2>2, <2>3 DEF Relayed
<1>2. CASE UNCHANGED vars
  <2> USE <1>2 DEF vars
  <2>1. TypeOK'
    BY DEF Relayed, TypeOK
  <2>2. Rooms'
    BY DEF Relayed, Rooms, ChatsInTurn, RoomsOfMembers, AloneWithBot, RepliesOfBot,
           QueueIsOut, OneChat, Full, In
  <2>3. Pages'
    BY DEF Relayed, Pages, MatchOf, NewsOf
  <2>4. NewsInv'
    BY DEF Relayed, NewsInv, InRooms, Full
  <2>5. Messages'
    BY DEF Relayed, Messages, UpMade, CallsMade, ScansMade, AtMade, At, Made, Said, Taken,
           Recorded, Known
  <2>6. Order'
    BY DEF Relayed, Order, SaidInOrder, CalledInOrder, ShownInOrder, At
  <2> QED BY <2>1, <2>2, <2>3, <2>4, <2>5, <2>6 DEF Relayed
<1> QED BY <1>1, <1>2

LEMMA RelayedAlways == Spec => []Relayed
BY InitRelayed, NextRelayed, PTL DEF Spec

\* Every variable of handleMessage, handleTyping and useChat keeps its type, under every
\* order of their awaits.
THEOREM TypeCorrect == Spec => []TypeOK
<1>1. Relayed => TypeOK
  BY DEF Relayed
<1> QED BY <1>1, RelayedAlways, PTL

\* What a person said and the server sent into a chat reaches no browser after the news of
\* another chat, for all the awaits of handleMessage (chat.handler.ts:99-192).
THEOREM SentToItsChat == Spec => []NoCrossTalk
<1>1. ASSUME Relayed
      PROVE  NoCrossTalk
  <2>1. ASSUME NEW u \in User, NEW i \in DOMAIN down[u],
               down[u][i].say = "message", down[u][i].what.n # 0
        PROVE  LET news == {j \in 1..i : down[u][j].say = "matched"}
               IN  IF news # {} THEN down[u][Max(news)].chat = down[u][i].room
                   ELSE cli[u].at = "in" => cli[u].match \in {down[u][i].room, NoChat}
    <3> DEFINE s == down[u]
               c == down[u][i].room
               news == {j \in 1..i : s[j].say = "matched"}
    <3>1. NewsAre(s, cli[u], i, c)
      BY <1>1, <2>1 DEF Relayed, NewsInv, SentInChat
    <3>2. i \in Nat
      BY <1>1 DEF Relayed, TypeOK
    <3>3. CASE \E j \in 1..i : /\ s[j].say = "matched" /\ s[j].chat = c
                               /\ \A l \in (j + 1)..i : s[l].say # "matched"
      <4>1. PICK j \in 1..i : /\ s[j].say = "matched" /\ s[j].chat = c
                              /\ \A l \in (j + 1)..i : s[l].say # "matched"
        BY <3>3
      <4>2. j \in news /\ \A l \in news : l \in Nat /\ j >= l
        BY <3>2, <4>1
      <4>3. Max(news) = j
        <5> HIDE DEF news
        <5>1. Max(news) \in news /\ \A l \in news : Max(news) >= l
          BY <4>2 DEF Max
        <5>2. PICK l \in news : l = Max(news)
          BY <5>1
        <5>3. l \in Nat /\ j \in Nat /\ j >= l /\ l >= j
          BY <4>2, <5>1, <5>2
        <5>4. l = j
          BY <5>3
        <5> QED BY <5>2, <5>4
      <4> QED BY <4>1, <4>2, <4>3
    <3>4. CASE (\A j \in 1..i : s[j].say # "matched")
               /\ (cli[u].at = "in" => cli[u].match \in {c, NoChat})
      BY <3>4
    <3> QED BY <3>1, <3>3, <3>4 DEF NewsAre
  <2> QED BY <2>1 DEF NoCrossTalk
<1> QED BY <1>1, RelayedAlways, PTL

\* A page shows the messages of a person with nothing in them in the order they were said,
\* though each has a coroutine of its own with four awaits (chat.handler.ts:72).
THEOREM OrderKept == Spec => []CleanOrderKept
<1>1. ASSUME Relayed
      PROVE  CleanOrderKept
  <2>1. ASSUME NEW u \in User, NEW i \in DOMAIN cli[u].shown, NEW j \in DOMAIN cli[u].shown, i < j
        PROVE  Before(cli[u].shown[i], cli[u].shown[j])
    <3>1. Sorted(down[u], Screen(cli[u])) /\ Tidy(cli[u])
      BY <1>1 DEF Relayed, Order, ShownInOrder, Pages
    <3>2. cli[u].at = "in"
      <4>1. DOMAIN <<>> = {}
        OBVIOUS
      <4> QED BY <3>1, <4>1 DEF Tidy
    <3> QED BY <2>1, <3>1, <3>2 DEF Sorted, Screen
  <2> QED BY <2>1 DEF CleanOrderKept, Before
<1> QED BY <1>1, RelayedAlways, PTL

\* What is on a page is in the history of a chat that goes on (chat.handler.ts:152).
THEOREM ReadIsRecorded == Spec => []ShownIsRecorded
<1>1. ASSUME Relayed
      PROVE  ShownIsRecorded
  <2>1. ASSUME NEW u \in User, NEW m \in ToSet(cli[u].shown)
        PROVE  Recorded(m)
    <3>1. PICK i \in DOMAIN cli[u].shown : m = cli[u].shown[i]
      BY DEF ToSet
    <3>2. Tidy(cli[u])
      BY <1>1 DEF Relayed, Pages
    <3>3. cli[u].at = "in"
      <4>1. DOMAIN <<>> = {}
        OBVIOUS
      <4> QED BY <3>1, <3>2, <4>1 DEF Tidy
    <3>4. m \in At(u)
      BY <3>1, <3>3 DEF At, Holds, Screen
    <3> QED BY <1>1, <3>4 DEF Relayed, Messages, AtMade
  <2> QED BY <2>1 DEF ShownIsRecorded, Recorded, Known
<1> QED BY <1>1, RelayedAlways, PTL
=============================================================================
