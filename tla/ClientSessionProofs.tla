------------------------ MODULE ClientSessionProofs ------------------------
(***************************************************************************)
(* Proofs about ClientSession, for any number of rooms, clicks, drops and  *)
(* media faults: type correctness, that the machine comes to agree with    *)
(* the server, and that the call that is up is the one of the screen.      *)
(***************************************************************************)
EXTENDS ClientSession, TLAPS

Request == {"join", "leave", "cancel"}

\* The server has a user in a room only with the room's number.
Housed == srv.st = "room" => srv.room # NoRoom

-----------------------------------------------------------------------------
(* Messages and sequences of them.                                          *)

LEMMA Rooms == NoRoom \notin Room /\ Room \subseteq Nat
  BY BoundsAssumption DEF Room, NoRoom

LEMMA MessageFields ==
    ASSUME NEW x \in Message
    PROVE  /\ x.type \in {"searching", "left", "cancelled", "error", "partner_left",
                          "matched", "reconnected", "connected"}
           /\ x.type \in {"matched", "reconnected"} => x.room \in Room /\ x.rtc \in BOOLEAN
           /\ x.type = "connected" => x.resumed \in BOOLEAN
  BY DEF Message

LEMMA MessagesMade ==
    /\ \A t \in {"searching", "left", "cancelled", "error", "partner_left"} :
         Say(t) \in Message /\ Say(t).type = t
    /\ \A t \in {"matched", "reconnected"}, r \in Room, b \in BOOLEAN :
         /\ SayRoom(t, r, b) \in Message /\ SayRoom(t, r, b).type = t
         /\ SayRoom(t, r, b).room = r /\ SayRoom(t, r, b).rtc = b
    /\ \A b \in BOOLEAN :
         /\ SayConnected(b) \in Message /\ SayConnected(b).type = "connected"
         /\ SayConnected(b).resumed = b
  BY DEF Say, SayRoom, SayConnected, Message

\* A message sent comes last.
LEMMA SentLast ==
    ASSUME NEW S, NEW s \in Seq(S), NEW x \in S
    PROVE  LET t == s \o <<x>> IN
           /\ t \in Seq(S) /\ t = Append(s, x) /\ t # <<>> /\ Last(t) = x
           /\ DOMAIN t = 1..Len(s) + 1 /\ t[Len(s) + 1] = x
           /\ \A i \in DOMAIN s : i \in DOMAIN t /\ t[i] = s[i]
           /\ \A i \in DOMAIN t : i \in DOMAIN s \/ i = Len(s) + 1
<1> DEFINE t == s \o <<x>>
           n == Len(s)
<1>1. /\ t \in Seq(S) /\ Len(t) = n + 1 /\ t = Append(s, x) /\ n \in Nat
      /\ \A i \in 1..n : t[i] = s[i]
      /\ t[n + 1] = x
      /\ DOMAIN s = 1..n /\ DOMAIN t = 1..n + 1
  OBVIOUS
<1> HIDE DEF t, n
<1>2. \A i \in 1..n + 1 : i \in 1..n \/ i = n + 1
  BY <1>1
<1>3. t # <<>> /\ Last(t) = x
  BY <1>1 DEF Last
<1> QED BY <1>1, <1>2, <1>3 DEF t, n

\* A message received leaves the others in place.
LEMMA Received ==
    ASSUME NEW S, NEW s \in Seq(S), s # <<>>
    PROVE  LET t == Tail(s) IN
           /\ Head(s) \in S /\ Head(s) = s[1] /\ 1 \in DOMAIN s
           /\ t \in Seq(S)
           /\ t # <<>> => Last(t) = Last(s)
           /\ t = <<>> => Last(s) = s[1]
           /\ \A i \in DOMAIN t : i \in Nat /\ i >= 1 /\ i + 1 \in DOMAIN s /\ t[i] = s[i + 1]
           /\ \A i \in DOMAIN s : i \in Nat /\ i >= 1 /\ (i # 1 => i - 1 \in DOMAIN t
                                                               /\ t[i - 1] = s[i])
<1> DEFINE t == Tail(s)
           n == Len(s)
<1>1. /\ Head(s) \in S /\ Head(s) = s[1] /\ t \in Seq(S) /\ Len(t) = n - 1
      /\ n \in Nat /\ n >= 1 /\ DOMAIN s = 1..n /\ DOMAIN t = 1..n - 1
      /\ \A i \in 1..n - 1 : t[i] = s[i + 1]
  OBVIOUS
<1> HIDE DEF t, n
<1>e. (t = <<>> => n = 1) /\ (t # <<>> => n > 1)
  <2>1. t = <<>> => Len(t) = 0
    OBVIOUS
  <2>2. t # <<>> => Len(t) # 0
    BY <1>1
  <2> QED BY <1>1, <2>1, <2>2
<1>2. \A i \in 1..n - 1 : i \in Nat /\ i >= 1 /\ i + 1 \in 1..n
  BY <1>1
<1>3. \A i \in 1..n : i \in Nat /\ i >= 1 /\ (i # 1 => i - 1 \in 1..n - 1 /\ i - 1 + 1 = i)
  BY <1>1
<1>4. \A i \in 1..n : i # 1 => t[i - 1] = s[i]
  <2> SUFFICES ASSUME NEW i \in 1..n, i # 1 PROVE t[i - 1] = s[i]
    OBVIOUS
  <2>1. PICK j : j = i - 1
    OBVIOUS
  <2>2. j \in 1..n - 1 /\ j + 1 = i
    BY <1>3, <2>1
  <2>3. t[j] = s[j + 1]
    BY <1>1, <2>2
  <2> QED BY <2>1, <2>2, <2>3
<1>5. t # <<>> => Last(t) = Last(s)
  <2> SUFFICES ASSUME t # <<>> PROVE Last(t) = Last(s)
    OBVIOUS
  <2>1. n - 1 \in 1..n - 1 /\ n - 1 + 1 = n
    BY <1>1, <1>e
  <2>2. PICK j : j = n - 1
    OBVIOUS
  <2>3. t[j] = s[j + 1] /\ j + 1 = n
    BY <1>1, <2>1, <2>2
  <2>4. Last(t) = t[j]
    BY <1>1, <2>2 DEF Last
  <2>5. Last(s) = s[n]
    BY DEF Last, n
  <2> QED BY <2>3, <2>4, <2>5
<1>6. t = <<>> => Last(s) = s[1]
  BY <1>e DEF Last, n
<1> QED BY <1>1, <1>2, <1>3, <1>4, <1>5, <1>6 DEF t, n

-----------------------------------------------------------------------------
(* The machine.                                                             *)

\* What a join does.
LEMMA DoJoinGives ==
    ASSUME NEW m \in Machine, NEW wire \in Seq(Request), DoJoin(m, wire)
    PROVE  /\ mm' \in Machine /\ mm'.up = m.up /\ mm'.match = m.match
           /\ mm'.reconnecting = m.reconnecting
           /\ m.up => /\ mm'.cs = "waiting" /\ mm'.joining
                      /\ up' = Append(wire, "join") /\ up' \in Seq(Request)
           /\ ~m.up => mm'.cs = "connecting" /\ mm'.joining = m.joining /\ up' = wire
<1>1. CASE m.up
  <2>1. mm' = [m EXCEPT !.pending = "no", !.cs = "waiting", !.joining = TRUE, !.timer = TRUE]
        /\ up' = Append(wire, "join")
    BY <1>1 DEF DoJoin, JoinWhenUp
  <2>2. "join" \in Request
    BY DEF Request
  <2>3. Append(wire, "join") \in Seq(Request)
    BY <2>2
  <2>4. /\ mm' \in Machine /\ mm'.up = m.up /\ mm'.match = m.match
        /\ mm'.reconnecting = m.reconnecting /\ mm'.cs = "waiting" /\ mm'.joining
    BY <2>1 DEF Machine
  <2> QED BY <1>1, <2>1, <2>3, <2>4
<1>2. CASE ~m.up
  <2>1. mm' = [m EXCEPT !.pending = "kept", !.cs = "connecting"] /\ up' = wire
    BY <1>2 DEF DoJoin
  <2> QED BY <1>2, <2>1 DEF Machine
<1> QED BY <1>1, <1>2

\* leaveRoom does nothing, or forgets the room and tells a server it can reach.
LEMMA LeaveRoomGives ==
    ASSUME NEW m \in Machine, NEW n, n = LeaveRoom(m), NEW out, out = LeaveMessages(m)
    PROVE  /\ n \in Machine /\ n.up = m.up /\ n.joining = m.joining /\ out \in Seq(Request)
           /\ LeftRooms(m) \subseteq Room
           /\ \/ n = m /\ out = <<>>
              \/ /\ m.match # NoRoom /\ n.match = NoRoom /\ ~n.reconnecting
                 /\ n.cs \notin {"waiting", "matched"}
                 /\ out = IF m.up THEN <<"leave">> ELSE <<>>
<1>1. CASE m.debounce \/ m.match = NoRoom
  <2>1. n = m
    BY <1>1 DEF LeaveRoom
  <2>2. out = <<>> /\ LeftRooms(m) = {}
    BY <2>1 DEF LeaveMessages, LeftRooms
  <2>3. <<>> \in Seq(Request)
    OBVIOUS
  <2> QED BY <2>1, <2>2, <2>3
<1>2. CASE ~(m.debounce \/ m.match = NoRoom)
  <2>1. n = [m EXCEPT !.reconnecting = FALSE, !.grace = FALSE, !.match = NoRoom,
                      !.debounce = m.up,
                      !.cs = IF m.up THEN "connected" ELSE "disconnected"]
    BY <1>2 DEF LeaveRoom
  <2>2. /\ n \in Machine /\ n.up = m.up /\ n.joining = m.joining /\ n.match = NoRoom
        /\ ~n.reconnecting /\ n.debounce = m.up
        /\ n.cs = IF m.up THEN "connected" ELSE "disconnected"
    BY <2>1 DEF Machine, NoRoom
  <2>3. out = IF m.up THEN <<"leave">> ELSE <<>>
    BY <1>2, <2>2 DEF LeaveMessages
  <2>4. out \in Seq(Request)
    BY <2>3 DEF Request
  <2>5. LeftRooms(m) = {m.match} /\ m.match \in Room
    BY <1>2, <2>2 DEF LeftRooms, Machine
  <2> QED BY <1>2, <2>2, <2>3, <2>4, <2>5
<1> QED BY <1>1, <1>2

\* giveUpSession
LEMMA GivenUpGives ==
    ASSUME NEW m \in Machine, NEW n, n = GivenUp(m)
    PROVE  /\ n \in Machine /\ n.up = m.up /\ n.match = NoRoom /\ ~n.reconnecting
           /\ ~n.joining /\ n.cs \in {"connected", "disconnected"}
<1>1. n = [m EXCEPT !.reconnecting = FALSE, !.grace = FALSE, !.match = NoRoom,
                    !.joining = FALSE,
                    !.cs = IF m.up THEN "connected" ELSE "disconnected"]
  BY DEF GivenUp
<1> QED BY <1>1 DEF Machine, NoRoom

\* endSessionFinal up to its await.
LEMMA EndingGives ==
    ASSUME NEW v \in Screen, NEW n, n = Ending(v)
    PROVE  /\ n \in Screen /\ n.rtc = v.rtc /\ n.initing = v.initing /\ n.finding = v.finding
           /\ \/ v.leaving # "no" /\ n = v
              \/ v.leaving = "no" /\ n.leaving = "end" /\ ~n.session /\ n.cur = NoRoom
<1>1. CASE v.leaving # "no"
  BY <1>1 DEF Ending
<1>2. CASE v.leaving = "no"
  <2>1. n = [v EXCEPT !.leaving = "end", !.session = FALSE, !.cur = NoRoom]
    BY <1>2 DEF Ending
  <2> QED BY <1>2, <2>1 DEF Screen, NoRoom
<1> QED BY <1>1, <1>2

\* initializeRTC, over a call that is up.
LEMMA InitializeGives ==
    ASSUME NEW v \in Screen, NEW n, n = InitializeRtc(v)
    PROVE  /\ n \in Screen /\ n.initing /\ n.rtc = NoRoom /\ n.session = v.session
           /\ n.cur = v.cur /\ n.leaving = v.leaving /\ n.finding = v.finding
  BY DEF InitializeRtc, Screen, NoRoom

\* A session goes up, and the rest of the screen stays.
LEMMA ShowGives ==
    ASSUME TypeOK, NEW r \in Room, NEW v, v = Show(r)
    PROVE  /\ v \in Screen /\ v.session /\ v.cur = r /\ v.leaving = vc.leaving
           /\ v.rtc = vc.rtc /\ v.initing = vc.initing /\ v.finding = vc.finding
  BY DEF Show, TypeOK, Screen

\* A session with a call goes up: its set-up leaves an old call first.
LEMMA SetUpGives ==
    ASSUME TypeOK, NEW r \in Room, SetUpCall(r)
    PROVE  /\ vc' \in Screen /\ vc'.session /\ vc'.cur = r /\ vc'.leaving = vc.leaving
           /\ vc'.finding = vc.finding
           /\ \E t \in SetUp :
                /\ matched' = matched \cup {t} /\ t.room = r
                /\ \/ t.at = "leave" /\ ~vc'.initing /\ vc'.rtc # NoRoom
                   \/ t.at = "join" /\ vc'.initing /\ vc'.rtc = NoRoom
           /\ ghost' \in Ghost /\ (ghost'.stray <=> matched # {})
           /\ ghost'.failed = ghost.failed \ {r}
<1> DEFINE v == Show(r)
           t == [room |-> r, at |-> IF vc.rtc # NoRoom THEN "leave" ELSE "join", try |-> 1]
<1>1. /\ vc' = IF vc.rtc # NoRoom THEN v ELSE InitializeRtc(v)
      /\ matched' = matched \cup {t}
      /\ ghost' = [ghost EXCEPT !.stray = matched # {}, !.failed = ghost.failed \ {r}]
  BY DEF SetUpCall
<1>2. /\ v \in Screen /\ v.session /\ v.cur = r /\ v.leaving = vc.leaving
      /\ v.rtc = vc.rtc /\ v.initing = vc.initing /\ v.finding = vc.finding
  BY ShowGives
<1>3. t \in SetUp /\ t.room = r /\ t.at = IF vc.rtc # NoRoom THEN "leave" ELSE "join"
  BY DEF SetUp
<1> HIDE DEF v, t
<1>4. /\ ghost' \in Ghost /\ (ghost'.stray <=> matched # {})
      /\ ghost'.failed = ghost.failed \ {r}
  BY <1>1 DEF TypeOK, Ghost
<1>5. vc.rtc # NoRoom => ~vc.initing
  BY DEF TypeOK
<1>6. /\ vc' \in Screen /\ vc'.session /\ vc'.cur = r /\ vc'.leaving = vc.leaving
      /\ vc'.finding = vc.finding
      /\ vc.rtc # NoRoom => ~vc'.initing /\ vc'.rtc # NoRoom
      /\ vc.rtc = NoRoom => vc'.initing /\ vc'.rtc = NoRoom
  BY <1>1, <1>2, <1>5, InitializeGives
<1> QED BY <1>1, <1>3, <1>4, <1>6

\* What is astray.
LEMMA StraysGives ==
    ASSUME TypeOK, NEW b \in BOOLEAN, ghost' = Strays(b)
    PROVE  /\ ghost' \in Ghost /\ (ghost'.stray <=> b) /\ ghost'.failed = ghost.failed
           /\ ghost'.lost = ghost.lost
  BY DEF Strays, TypeOK, Ghost

\* handleMatched and handleReconnected: nothing while a session is being left, and otherwise
\* a session, with the set-up of its call when it has one.
LEMMA OnMatchedGives ==
    ASSUME TypeOK, NEW r \in Room, NEW b \in BOOLEAN, OnMatched(r, b)
    PROVE  /\ vc' \in Screen /\ matched' \subseteq SetUp /\ ghost' \in Ghost
           /\ vc'.initing => vc'.rtc = NoRoom
           /\ vc'.leaving = vc.leaving /\ vc'.finding = vc.finding
           /\ \/ vc.leaving # "no" /\ vc' = vc /\ matched' = matched /\ ghost' = ghost
              \/ vc.leaving = "no" /\ b /\ SetUpCall(r)
              \/ /\ vc.leaving = "no" /\ ~b /\ vc' = Show(r) /\ matched' = matched
                 /\ ghost' = Strays(ghost.stray \/ vc.rtc # NoRoom \/ matched # {})
<1>1. CASE vc.leaving # "no"
  BY <1>1 DEF OnMatched, TypeOK
<1>2. CASE vc.leaving = "no" /\ b
  <2>1. SetUpCall(r)
    BY <1>2 DEF OnMatched
  <2>2. PICK t \in SetUp :
          /\ matched' = matched \cup {t}
          /\ \/ ~vc'.initing
             \/ vc'.initing /\ vc'.rtc = NoRoom
    BY <2>1, SetUpGives
  <2>3. vc' \in Screen /\ vc'.leaving = vc.leaving /\ vc'.finding = vc.finding
        /\ ghost' \in Ghost
    BY <2>1, SetUpGives
  <2> QED BY <1>2, <2>1, <2>2, <2>3 DEF TypeOK
<1>3. CASE vc.leaving = "no" /\ ~b
  <2> DEFINE w == ghost.stray \/ vc.rtc # NoRoom \/ matched # {}
  <2>1. /\ vc' = Show(r) /\ matched' = matched /\ ghost' = Strays(w)
    BY <1>3 DEF OnMatched
  <2>2. w \in BOOLEAN
    BY DEF TypeOK, Ghost
  <2> HIDE DEF w
  <2>3. ghost' \in Ghost
    BY <2>1, <2>2, StraysGives
  <2>4. /\ vc' \in Screen /\ vc'.leaving = vc.leaving /\ vc'.rtc = vc.rtc
        /\ vc'.initing = vc.initing /\ vc'.finding = vc.finding
    BY <2>1, ShowGives
  <2> QED BY <1>3, <2>1, <2>3, <2>4 DEF TypeOK, w
<1> QED BY <1>1, <1>2, <1>3

LEMMA OnReconnectedGives ==
    ASSUME TypeOK, NEW r \in Room, NEW b \in BOOLEAN, OnReconnected(r, b), ~OnMatched(r, b)
    PROVE  /\ vc.leaving = "no" /\ (vc.rtc # NoRoom \/ ~b)
           /\ vc' = Show(r) /\ matched' = matched /\ ghost' = ghost
  BY DEF OnReconnected

\* Send(<<x>>) adds x to what is under way, if the socket is up.
LEMMA SendGives ==
    ASSUME TypeOK, NEW x \in Message, Send(<<x>>)
    PROVE  /\ down' \in Seq(Message)
           /\ mm.up => down' = down \o <<x>>
           /\ ~mm.up => down' = down
<1>1. down \in Seq(Message) /\ down \o <<x>> \in Seq(Message)
  BY SentLast DEF TypeOK
<1> QED BY <1>1 DEF Send

\* A message of type t is received.
LEMMA ReceiveGives ==
    ASSUME TypeOK, NEW t, Receive(t)
    PROVE  /\ down # <<>> /\ Head(down) = down[1] /\ 1 \in DOMAIN down
           /\ Head(down) \in Message /\ Head(down).type = t
           /\ down' = Tail(down) /\ down' \in Seq(Message) /\ srv' = srv /\ up' = up
  BY Received DEF TypeOK, Receive

-----------------------------------------------------------------------------
(* Type correctness.                                                        *)

LEMMA InitTyped == Init => TypeOK /\ Housed
<1> SUFFICES ASSUME Init PROVE TypeOK /\ Housed
  OBVIOUS
<1>1. srv \in Server /\ Housed
  BY BoundsAssumption DEF Init, Server, NoRoom, Housed
<1>2. mm \in Machine
  BY DEF Init, Machine, NoRoom
<1>3. vc \in Screen /\ ~vc.initing /\ vc.leaving = "no"
  BY DEF Init, Screen, NoRoom
<1>4. ghost \in Ghost
  BY BoundsAssumption DEF Init, Ghost
<1>5. up \in Seq(Request) /\ down \in Seq(Message) /\ matched \subseteq SetUp
  BY DEF Init
<1> QED BY <1>1, <1>2, <1>3, <1>4, <1>5 DEF TypeOK, Request

LEMMA LostGives ==
    ASSUME TypeOK, ghost' = LostRoom
    PROVE  /\ ghost' \in Ghost /\ ghost'.stray = ghost.stray /\ ghost'.failed = ghost.failed
           /\ ghost.lost \subseteq ghost'.lost
           /\ srv.room # NoRoom => srv.room \in ghost'.lost
<1>1. srv.room \in Room \cup {NoRoom} /\ ghost \in Ghost
  BY DEF TypeOK, Server
<1>2. PICK new : new = IF srv.room = NoRoom THEN {} ELSE {srv.room}
  OBVIOUS
<1>3. ghost' = [ghost EXCEPT !.lost = ghost.lost \cup new] /\ new \subseteq Room
  BY <1>1, <1>2 DEF LostRoom
<1> QED BY <1>1, <1>2, <1>3 DEF Ghost

LEMMA ServerTyped ==
    ASSUME TypeOK, Housed,
           ServerReceives \/ CancelEnds \/ Match \/ PartnerLeaves \/ GraceEnds
    PROVE  TypeOK' /\ Housed'
<1>1. srv \in Server /\ srv.rooms \in 0..MaxRooms /\ MaxRooms \in Nat
  BY BoundsAssumption DEF TypeOK, Server
<1>2. Idle(srv) \in Server /\ Idle(srv).st = "idle"
  BY <1>1 DEF Idle, Server, NoRoom
<1>3. CASE ServerReceives
  <2>1. up # <<>> /\ up' = Tail(up) /\ UNCHANGED <<mm, vc, matched>>
        /\ (ServerJoins \/ ServerLeaves \/ ServerCancels)
    BY <1>3 DEF ServerReceives
  <2>2. up' \in Seq(Request)
    BY <2>1, Received DEF TypeOK, Request
  <2>3. ghost' \in Ghost
    <3>1. ghost' = ghost \/ ghost' = LostRoom
      BY <2>1 DEF ServerJoins, ServerLeaves, ServerCancels
    <3> QED BY <3>1, LostGives DEF TypeOK
  <2>4. srv' \in Server /\ Housed'
    <3>1. \/ srv' \in {srv, Idle(srv)} \/ srv' = [srv EXCEPT !.st = "queue"]
          \/ srv' = [srv EXCEPT !.st = "idle"]
          \/ srv' = [srv EXCEPT !.cancelling = srv.st = "queue"]
      BY <2>1 DEF ServerJoins, ServerLeaves, ServerCancels
    <3>2. /\ [srv EXCEPT !.st = "queue"] \in Server /\ [srv EXCEPT !.st = "queue"].st = "queue"
          /\ [srv EXCEPT !.st = "idle"] \in Server /\ [srv EXCEPT !.st = "idle"].st = "idle"
      BY <1>1 DEF Server
    <3>3. CASE srv' = [srv EXCEPT !.cancelling = srv.st = "queue"]
      <4>1. PICK b \in BOOLEAN : b = (srv.st = "queue")
        OBVIOUS
      <4>2. srv' = [srv EXCEPT !.cancelling = b]
        BY <3>3, <4>1
      <4> QED BY <1>1, <4>2 DEF Server, Housed
    <3> QED BY <1>1, <1>2, <3>1, <3>2, <3>3 DEF Housed
  <2>5. down' \in Seq(Message)
    <3>1. \/ \E t \in {"searching", "error", "left"} : Send(<<Say(t)>>)
          \/ down' = down
      BY <2>1 DEF ServerJoins, ServerLeaves, ServerCancels
    <3> QED BY <3>1, SendGives, MessagesMade DEF TypeOK
  <2> QED BY <2>1, <2>2, <2>3, <2>4, <2>5 DEF TypeOK, Request
<1>a. CASE CancelEnds
  <2>1. /\ srv' = [srv EXCEPT !.cancelling = FALSE, !.st = "idle"]
        /\ Send(<<Say("cancelled")>>) /\ ghost' = LostRoom
        /\ UNCHANGED <<up, mm, vc, matched>>
    BY <1>a DEF CancelEnds
  <2>2. srv' \in Server /\ Housed'
    BY <1>1, <2>1 DEF Server, Housed
  <2>3. down' \in Seq(Message)
    BY <2>1, SendGives, MessagesMade
  <2>4. ghost' \in Ghost
    BY <2>1, LostGives
  <2> QED BY <2>1, <2>2, <2>3, <2>4 DEF TypeOK
<1>4. CASE Match
  <2> DEFINE r == srv.rooms + 1
  <2>1. r \in Room /\ r \in 0..MaxRooms /\ r # NoRoom
    <3>1. srv.rooms < MaxRooms
      BY <1>4 DEF Match
    <3> QED BY <1>1, <3>1 DEF Room, NoRoom
  <2>2. PICK b \in BOOLEAN :
          /\ srv' = [srv EXCEPT !.st = "room", !.room = r, !.rooms = r,
                                !.bots = IF b THEN @ ELSE @ \cup {r}]
          /\ Send(<<SayRoom("matched", r, b)>>)
    BY <1>4 DEF Match
  <2>3. UNCHANGED <<up, mm, vc, matched, ghost>>
    BY <1>4 DEF Match
  <2> HIDE DEF r
  <2>4. srv' \in Server /\ Housed'
    <3>1. PICK bots : bots = IF b THEN srv.bots ELSE srv.bots \cup {r}
      OBVIOUS
    <3>2. bots \in SUBSET Room
      BY <1>1, <2>1, <3>1 DEF Server
    <3>3. srv' = [srv EXCEPT !.st = "room", !.room = r, !.rooms = r, !.bots = bots]
      BY <2>2, <3>1
    <3> QED BY <1>1, <2>1, <3>2, <3>3 DEF Server, Housed
  <2>5. down' \in Seq(Message)
    BY <2>1, <2>2, SendGives, MessagesMade
  <2> QED BY <2>3, <2>4, <2>5 DEF TypeOK
<1>5. CASE PartnerLeaves
  <2>1. /\ srv' = Idle(srv) /\ \E w \in {"partner_left", "left"} : Send(<<Say(w)>>)
        /\ UNCHANGED <<up, mm, vc, matched, ghost>>
    BY <1>5 DEF PartnerLeaves
  <2>2. down' \in Seq(Message)
    BY <2>1, SendGives, MessagesMade
  <2> QED BY <1>2, <2>1, <2>2 DEF TypeOK, Housed
<1>6. CASE GraceEnds
  <2>1. srv' = [Idle(srv) EXCEPT !.held = FALSE] /\ UNCHANGED <<up, down, mm, vc, matched, ghost>>
    BY <1>6 DEF GraceEnds
  <2>2. srv' \in Server /\ Housed'
    BY <1>2, <2>1 DEF Server, Housed
  <2> QED BY <2>1, <2>2 DEF TypeOK
<1> QED BY <1>3, <1>a, <1>4, <1>5, <1>6

LEMMA PartnerGoneGives ==
    ASSUME TypeOK, PartnerGone
    PROVE  /\ vc' \in Screen /\ (vc'.initing => vc'.rtc = NoRoom)
           /\ vc'.leaving = "next" => vc'.finding
           /\ \/ vc' = vc \/ vc' = Ending(vc)
              \/ /\ vc'.session = vc.session /\ vc'.cur = vc.cur /\ vc'.leaving = vc.leaving
                 /\ vc'.rtc = vc.rtc /\ vc'.initing = vc.initing
<1>1. vc' = vc \/ vc' = Ending(vc) \/ vc' = [vc EXCEPT !.parting = TRUE]
  BY DEF PartnerGone
<1>2. CASE vc' = vc \/ vc' = Ending(vc)
  BY <1>2, EndingGives DEF TypeOK
<1>3. CASE vc' = [vc EXCEPT !.parting = TRUE]
  BY <1>3 DEF TypeOK, Screen
<1> QED BY <1>1, <1>2, <1>3

LEMMA ReceivesTyped ==
    ASSUME TypeOK, Housed, Receives
    PROVE  TypeOK' /\ Housed'
<1>1. PICK t : Receive(t)
  BY DEF Receives, ReceiveConnected, ReceiveSearching, ReceiveMatched, ReceiveReconnected,
         ReceivePartnerLeft, ReceiveLeft, ReceiveCancelled, ReceiveError
<1>2. srv' = srv /\ up' = up /\ down' \in Seq(Message) /\ Head(down) \in Message
  BY <1>1, ReceiveGives
<1>3. SUFFICES /\ mm' \in Machine /\ vc' \in Screen /\ ghost' \in Ghost
               /\ matched' \in SUBSET SetUp
               /\ vc'.initing => vc'.rtc = NoRoom
               /\ vc'.leaving = "next" => vc'.finding
  BY <1>2 DEF TypeOK, Housed
<1>5. \A n \in {vc, Ending(vc)} :
        /\ n \in Screen /\ n.initing => n.rtc = NoRoom
        /\ n.leaving = "next" => n.finding
  BY EndingGives DEF TypeOK
<1>6. CASE ReceiveConnected
  <2>1. mm' \in {mm, GivenUp(mm)} /\ vc' \in {vc, Ending(vc)} /\ UNCHANGED <<matched, ghost>>
    BY <1>6 DEF ReceiveConnected
  <2>2. GivenUp(mm) \in Machine
    BY GivenUpGives DEF TypeOK
  <2> QED BY <1>5, <2>1, <2>2, EndingGives DEF TypeOK
<1>7. CASE ReceiveSearching \/ ReceiveCancelled \/ ReceiveError
  <2>1. UNCHANGED <<vc, matched, ghost>>
    BY <1>7 DEF ReceiveSearching, ReceiveCancelled, ReceiveError
  <2>2. mm' \in Machine
    BY <1>7 DEF ReceiveSearching, ReceiveCancelled, ReceiveError, TypeOK, Machine, NoRoom
  <2> QED BY <2>1, <2>2 DEF TypeOK
<1>8. CASE ReceivePartnerLeft \/ ReceiveLeft
  <2>1. PartnerGone /\ UNCHANGED <<matched, ghost>>
    BY <1>8 DEF ReceivePartnerLeft, ReceiveLeft
  <2>2. mm' \in Machine
    BY <1>8 DEF ReceivePartnerLeft, ReceiveLeft, TypeOK, Machine, NoRoom
  <2> QED BY <2>1, <2>2, PartnerGoneGives DEF TypeOK
<1>9. CASE ReceiveMatched \/ ReceiveReconnected
  <2> DEFINE r == Head(down).room
             b == Head(down).rtc
  <2>1. Head(down).type \in {"matched", "reconnected"}
    BY <1>9 DEF ReceiveMatched, ReceiveReconnected, Receive
  <2>2. r \in Room /\ b \in BOOLEAN
    BY <1>2, <2>1, MessageFields
  <2> HIDE DEF r, b
  <2>3. mm' \in Machine
    <3>1. mm' = [mm EXCEPT !.timer = FALSE, !.reconnecting = FALSE, !.grace = FALSE,
                           !.cs = "matched", !.match = r, !.joining = FALSE]
          \/ mm' = [mm EXCEPT !.reconnecting = FALSE, !.grace = FALSE, !.cs = "matched",
                              !.match = r, !.joining = FALSE]
      BY <1>9 DEF ReceiveMatched, ReceiveReconnected, r
    <3> QED BY <2>2, <3>1 DEF TypeOK, Machine
  <2>4. OnMatched(r, b) \/ OnReconnected(r, b)
    BY <1>9 DEF ReceiveMatched, ReceiveReconnected, r, b
  <2>5. CASE OnMatched(r, b)
    BY <2>2, <2>3, <2>5, OnMatchedGives DEF TypeOK
  <2>6. CASE OnReconnected(r, b) /\ ~OnMatched(r, b)
    <3>1. vc' = Show(r) /\ UNCHANGED <<matched, ghost>> /\ vc.leaving = "no"
      BY <2>2, <2>6, OnReconnectedGives
    <3>2. vc' \in Screen /\ vc'.initing = vc.initing /\ vc'.rtc = vc.rtc
          /\ vc'.leaving = vc.leaving
      BY <2>2, <3>1, ShowGives
    <3> QED BY <2>3, <3>1, <3>2 DEF TypeOK
  <2> QED BY <2>4, <2>5, <2>6
<1> QED BY <1>6, <1>7, <1>8, <1>9 DEF Receives

LEMMA SocketTyped ==
    ASSUME TypeOK, Housed, Drop \/ Reconnect \/ GraceTimer \/ SocketGivesUp
    PROVE  TypeOK' /\ Housed'
<1>1. /\ srv \in Server /\ mm \in Machine /\ vc \in Screen /\ ghost \in Ghost
      /\ up \in Seq(Request) /\ down \in Seq(Message)
  BY DEF TypeOK, Request
<1>2. CASE Drop
  <2>1. mm' \in Machine
    <3>1. PICK g \in BOOLEAN : g = (mm.grace \/ ~mm.reconnecting)
      BY <1>1 DEF Machine
    <3>2. \/ mm' = [mm EXCEPT !.up = FALSE, !.reconnecting = TRUE, !.grace = g]
          \/ mm' = [mm EXCEPT !.up = FALSE, !.cs = "disconnected", !.match = NoRoom]
      BY <1>2, <3>1 DEF Drop
    <3> QED BY <1>1, <3>2 DEF Machine, NoRoom
  <2>2. srv' \in Server /\ Housed'
    <3>1. PICK b \in BOOLEAN : b = (srv.st = "room")
      OBVIOUS
    <3>2. PICK s : s = IF srv.st = "room" THEN srv ELSE Idle(srv)
      OBVIOUS
    <3>3. s \in Server /\ (s.st = "room" => s.room # NoRoom)
      BY <1>1, <3>2 DEF Idle, Server, NoRoom, Housed
    <3>4. srv' = [s EXCEPT !.cancelling = FALSE, !.held = b]
      BY <1>2, <3>1, <3>2 DEF Drop
    <3> QED BY <3>3, <3>4 DEF Server, Housed
  <2>3. ghost' \in Ghost
    <3>1. ghost.drops + 1 \in 0..MaxDrops
      BY <1>1, <1>2, BoundsAssumption DEF Drop, Ghost
    <3>2. ghost' = [ghost EXCEPT !.drops = ghost.drops + 1]
      BY <1>2 DEF Drop
    <3> QED BY <1>1, <3>1, <3>2 DEF Ghost
  <2>4. up' = <<>> /\ down' = <<>> /\ UNCHANGED matched
    BY <1>2 DEF Drop
  <2>5. up' \in Seq(Request) /\ down' \in Seq(Message)
    BY <2>4
  <2>6. /\ vc' \in Screen /\ (vc'.initing => vc'.rtc = NoRoom)
        /\ vc'.leaving = "next" => vc'.finding
    <3>1. PICK f \in BOOLEAN : f = (vc.finding /\ vc.leaving = "next")
      BY <1>1 DEF Screen
    <3>2. vc' = [vc EXCEPT !.finding = f]
      BY <1>2, <3>1 DEF Drop
    <3> QED BY <1>1, <3>1, <3>2 DEF TypeOK, Screen
  <2> QED BY <2>1, <2>2, <2>3, <2>4, <2>5, <2>6 DEF TypeOK, Request
<1>3. CASE Reconnect
  <2>1. mm' \in Machine
    BY <1>1, <1>3 DEF Reconnect, Machine
  <2>2. srv' \in Server /\ Housed'
    BY <1>1, <1>3 DEF Reconnect, Server, Housed
  <2>3. down' \in Seq(Message)
    <3> DEFINE b == srv.room \notin srv.bots
    <3>1. srv.st = "room" => srv.room \in Room
      BY <1>1 DEF Housed, Server
    <3>2. \/ down' = <<SayConnected(FALSE)>>
          \/ down' = <<SayConnected(TRUE), Say("left")>>
          \/ /\ srv.st = "room"
             /\ down' = <<SayConnected(TRUE), SayRoom("reconnected", srv.room, b)>>
      BY <1>3 DEF Reconnect
    <3>3. \A x, y \in Message : <<x>> \in Seq(Message) /\ <<x, y>> \in Seq(Message)
      OBVIOUS
    <3>b. b \in BOOLEAN
      OBVIOUS
    <3> HIDE DEF b
    <3>4. /\ SayConnected(FALSE) \in Message /\ SayConnected(TRUE) \in Message
          /\ Say("left") \in Message
          /\ srv.st = "room" => SayRoom("reconnected", srv.room, b) \in Message
      BY <3>1, <3>b, MessagesMade
    <3> QED BY <3>2, <3>3, <3>4
  <2>4. UNCHANGED <<up, vc, matched, ghost>>
    BY <1>3 DEF Reconnect
  <2> QED BY <2>1, <2>2, <2>3, <2>4 DEF TypeOK
<1>4. CASE (GraceTimer \/ SocketGivesUp) /\ mm.reconnecting
  <2>1. mm' = GivenUp(mm) /\ vc' = Ending(vc) /\ UNCHANGED <<srv, up, down, matched, ghost>>
    BY <1>4 DEF GraceTimer, SocketGivesUp
  <2>2. mm' \in Machine
    BY <1>1, <2>1, GivenUpGives
  <2>3. /\ vc' \in Screen /\ vc'.initing => vc'.rtc = NoRoom
        /\ vc'.leaving = "next" => vc'.finding
    BY <1>1, <2>1, EndingGives DEF TypeOK
  <2> QED BY <2>1, <2>2, <2>3, <1>1, EndingGives DEF TypeOK, Housed
<1>5. CASE GraceTimer /\ ~mm.reconnecting
  <2>1. mm' = [mm EXCEPT !.grace = FALSE] /\ UNCHANGED <<srv, up, down, vc, matched, ghost>>
    BY <1>5 DEF GraceTimer
  <2>2. mm' \in Machine
    BY <1>1, <2>1 DEF Machine
  <2> QED BY <2>1, <2>2 DEF TypeOK, Housed
<1>6. SocketGivesUp => mm.reconnecting
  BY DEF SocketGivesUp
<1> QED BY <1>2, <1>3, <1>4, <1>5, <1>6

LEMMA EffectsTyped ==
    ASSUME TypeOK, Housed, PendingJoin \/ SearchTimeout \/ DebounceEnds
    PROVE  TypeOK' /\ Housed'
<1>1. mm \in Machine /\ vc \in Screen /\ up \in Seq(Request)
  BY DEF TypeOK, Request
<1>2. UNCHANGED <<srv, down, matched, ghost>>
  BY DEF PendingJoin, SearchTimeout, DebounceEnds
<1>3. Append(up, "cancel") \in Seq(Request)
  BY <1>1 DEF Request
<1>4. CASE PendingJoin
  <2>1. vc' = vc
    BY <1>4 DEF PendingJoin
  <2>2. mm' \in Machine /\ up' \in Seq(Request)
    <3>1. \/ mm' = [mm EXCEPT !.pending = "due"] /\ up' = up
          \/ DoJoin([mm EXCEPT !.pending = "no"], up)
      BY <1>4 DEF PendingJoin
    <3>2. [mm EXCEPT !.pending = "due"] \in Machine /\ [mm EXCEPT !.pending = "no"] \in Machine
      BY <1>1 DEF Machine
    <3>3. CASE mm' = [mm EXCEPT !.pending = "due"] /\ up' = up
      BY <1>1, <3>2, <3>3
    <3>4. CASE DoJoin([mm EXCEPT !.pending = "no"], up)
      <4> DEFINE m == [mm EXCEPT !.pending = "no"]
      <4>1. m \in Machine
        BY <3>2
      <4>2. DoJoin(m, up)
        BY <3>4
      <4> HIDE DEF m
      <4>3. m.up \in BOOLEAN
        BY <4>1 DEF Machine
      <4> QED BY <1>1, <4>1, <4>2, <4>3, DoJoinGives
    <3> QED BY <3>1, <3>3, <3>4
  <2> QED BY <1>2, <2>1, <2>2 DEF TypeOK, Housed, Request
<1>5. CASE SearchTimeout
  <2>1. mm' \in Machine
    BY <1>1, <1>5 DEF SearchTimeout, Machine, NoRoom
  <2>2. vc' = vc /\ up' \in {up, Append(up, "cancel")}
    BY <1>5 DEF SearchTimeout
  <2> QED BY <1>1, <1>2, <1>3, <2>1, <2>2 DEF TypeOK, Housed, Request
<1>6. CASE DebounceEnds
  <2>1. mm' \in Machine
    BY <1>1, <1>6 DEF DebounceEnds, Machine
  <2>2. /\ vc' \in Screen /\ vc'.initing = vc.initing /\ vc'.rtc = vc.rtc
        /\ vc'.leaving = "next" => vc'.finding
    BY <1>1, <1>6 DEF DebounceEnds, Screen, TypeOK
  <2>3. up' = up
    BY <1>6 DEF DebounceEnds
  <2> QED BY <1>2, <2>1, <2>2, <2>3 DEF TypeOK, Housed
<1> QED BY <1>4, <1>5, <1>6

LEMMA UserTyped ==
    ASSUME TypeOK, Housed, Start \/ Stop \/ Leave \/ FindNext
    PROVE  TypeOK' /\ Housed'
<1>1. mm \in Machine /\ vc \in Screen /\ up \in Seq(Request) /\ ghost \in Ghost
  BY DEF TypeOK, Request
<1>2. UNCHANGED <<srv, down, matched>>
  BY DEF Start, Stop, Leave, FindNext, Click
<1>3. Click => ghost' \in Ghost
  BY <1>1, BoundsAssumption DEF Click, Ghost
<1>4. CASE Start
  <2>1. vc' = [vc EXCEPT !.starting = @ + 1] /\ ghost' \in Ghost /\ UNCHANGED <<up, mm>>
    BY <1>3, <1>4 DEF Start
  <2>2. /\ vc' \in Screen /\ vc'.initing = vc.initing /\ vc'.rtc = vc.rtc
        /\ vc'.leaving = vc.leaving /\ vc'.finding = vc.finding
    BY <1>1, <2>1 DEF Screen
  <2> QED BY <1>2, <2>1, <2>2 DEF TypeOK, Housed
<1>5. CASE Stop
  <2>1. mm' \in Machine
    BY <1>1, <1>5 DEF Stop, Machine, NoRoom
  <2>2. up' \in {up, Append(up, "cancel")} /\ vc' = vc /\ ghost' \in Ghost
    BY <1>3, <1>5 DEF Stop
  <2>3. Append(up, "cancel") \in Seq(Request)
    BY <1>1 DEF Request
  <2> QED BY <1>1, <1>2, <2>1, <2>2, <2>3 DEF TypeOK, Housed, Request
<1>6. CASE Leave
  <2>1. vc' = Ending(vc) /\ ghost' \in Ghost /\ UNCHANGED <<up, mm>>
    BY <1>3, <1>6 DEF Leave
  <2>2. vc' \in Screen
    BY <1>1, <2>1, EndingGives
  <2>3. (vc'.initing => vc'.rtc = NoRoom) /\ (vc'.leaving = "next" => vc'.finding)
    BY <1>1, <2>1, EndingGives DEF TypeOK
  <2> QED BY <1>2, <2>1, <2>2, <2>3 DEF TypeOK, Housed
<1>7. CASE FindNext
  <2>1. /\ vc' = [vc EXCEPT !.leaving = "next", !.finding = TRUE, !.session = FALSE,
                            !.cur = NoRoom]
        /\ mm' = LeaveRoom(mm) /\ up' = up \o LeaveMessages(mm)
        /\ ghost' = [ghost EXCEPT !.clicks = @ + 1, !.left = @ \cup LeftRooms(mm)]
        /\ ghost.clicks < MaxClicks
    BY <1>7 DEF FindNext
  <2>2. /\ vc' \in Screen /\ vc'.initing = vc.initing /\ vc'.rtc = vc.rtc /\ vc'.finding
    BY <1>1, <2>1 DEF Screen, NoRoom
  <2>3. LeaveMessages(mm) \in Seq(Request) /\ LeftRooms(mm) \subseteq Room /\ mm' \in Machine
    BY <1>1, <2>1, LeaveRoomGives
  <2>4. up' \in Seq(Request)
    BY <1>1, <2>1, <2>3
  <2>5. ghost' \in Ghost
    <3>1. ghost.clicks + 1 \in 0..MaxClicks /\ ghost.left \cup LeftRooms(mm) \in SUBSET Room
      BY <1>1, <2>1, <2>3, BoundsAssumption DEF Ghost
    <3>2. ghost' = [ghost EXCEPT !.clicks = ghost.clicks + 1,
                                 !.left = ghost.left \cup LeftRooms(mm)]
      BY <2>1
    <3> QED BY <1>1, <3>1, <3>2 DEF Ghost
  <2> QED BY <1>2, <2>2, <2>3, <2>4, <2>5 DEF TypeOK, Housed, Request
<1> QED BY <1>4, <1>5, <1>6, <1>7

\* What leaveRTC does to the ghost.
LEMMA LeaveRtcGives ==
    ASSUME TypeOK, NEW left \in SUBSET Room, LeaveRtc(left)
    PROVE  /\ ghost' \in Ghost /\ ghost'.failed = ghost.failed /\ ghost'.lost = ghost.lost
           /\ ghost'.stray <=> matched # {} /\ (ghost.stray \/ vc.initing)
<1>1. Overdue = IF vc.initing THEN 1 ELSE 0
  BY DEF Overdue
<1>2. PICK b : b = (matched # {} /\ (ghost.stray \/ Overdue > 0))
  OBVIOUS
<1>3. /\ ghost.faults + Overdue <= MaxMediaFaults
      /\ ghost' = [ghost EXCEPT !.faults = ghost.faults + Overdue,
                                !.left = ghost.left \cup left, !.stray = b]
  BY <1>2 DEF LeaveRtc, LeftCall
<1>4. ghost \in Ghost /\ ghost.faults \in 0..MaxMediaFaults /\ MaxMediaFaults \in Nat
      /\ ghost.stray \in BOOLEAN /\ vc.initing \in BOOLEAN
  BY BoundsAssumption DEF TypeOK, Ghost, Screen
<1>5. ghost.faults + Overdue \in 0..MaxMediaFaults /\ b \in BOOLEAN
      /\ (b <=> matched # {} /\ (ghost.stray \/ vc.initing))
  <2>1. Overdue \in 0..1 /\ (Overdue > 0 <=> vc.initing)
    BY <1>1, <1>4
  <2>2. ghost.faults + Overdue \in 0..MaxMediaFaults
    BY <1>3, <1>4, <2>1
  <2>3. b \in BOOLEAN /\ (b <=> matched # {} /\ (ghost.stray \/ vc.initing))
    BY <1>2, <2>1, Zenon
  <2> QED BY <2>2, <2>3
<1>6. ghost' \in Ghost /\ ghost'.failed = ghost.failed /\ ghost'.stray = b
      /\ ghost'.lost = ghost.lost
  BY <1>3, <1>4, <1>5 DEF Ghost
<1> QED BY <1>5, <1>6

\* A set-up goes on to initializeRTC.
LEMMA ProceedGives ==
    ASSUME TypeOK, NEW t \in matched, LeftRtc(t) \/ Retry(t)
    PROVE  /\ vc' \in Screen /\ vc'.initing /\ vc'.rtc = NoRoom /\ vc'.session = vc.session
           /\ vc'.cur = vc.cur /\ vc'.leaving = vc.leaving /\ vc'.finding = vc.finding
           /\ ghost' \in Ghost /\ ghost'.failed = ghost.failed /\ ghost'.lost = ghost.lost
           /\ ghost'.stray <=> ghost.stray \/ ~(vc.session /\ vc.cur = t.room)
           /\ \E u \in SetUp : /\ u.room = t.room /\ u.at = "join"
                               /\ matched' = (matched \ {t}) \cup {u}
           /\ UNCHANGED <<srv, up, down, mm>>
<1> DEFINE b == ghost.stray \/ ~(vc.session /\ vc.cur = t.room)
           u == [t EXCEPT !.at = "join"]
<1>1. /\ vc' = InitializeRtc(vc) /\ matched' = (matched \ {t}) \cup {u} /\ ghost' = Strays(b)
      /\ UNCHANGED <<srv, up, down, mm>>
  BY DEF LeftRtc, Retry, Proceed
<1>2. t \in SetUp /\ b \in BOOLEAN
  BY DEF TypeOK, Ghost, Screen
<1>3. u \in SetUp /\ u.room = t.room /\ u.at = "join"
  BY <1>2 DEF SetUp
<1> HIDE DEF b, u
<1>4. /\ ghost' \in Ghost /\ ghost'.failed = ghost.failed /\ ghost'.lost = ghost.lost
      /\ (ghost'.stray <=> b)
  BY <1>1, <1>2, StraysGives
<1>5. /\ vc' \in Screen /\ vc'.initing /\ vc'.rtc = NoRoom /\ vc'.session = vc.session
      /\ vc'.cur = vc.cur /\ vc'.leaving = vc.leaving /\ vc'.finding = vc.finding
  BY <1>1, InitializeGives DEF TypeOK
<1> QED BY <1>1, <1>3, <1>4, <1>5 DEF b

\* The first attempt fails, and is followed by a second; or the set-up ends, and with it, it
\* may be, the session.
LEMMA FailsGives ==
    ASSUME TypeOK, NEW t \in matched, JoinRtcFails(t)
    PROVE  /\ vc' \in Screen /\ ~vc'.initing /\ vc'.rtc = NoRoom
           /\ vc'.leaving = "next" => vc'.finding
           /\ ghost' \in Ghost /\ ghost'.stray = ghost.stray /\ ghost'.lost = ghost.lost
           /\ UNCHANGED <<srv, up, down, mm>> /\ t.at = "join"
           /\ \/ /\ vc'.session = vc.session /\ vc'.cur = vc.cur /\ vc'.leaving = vc.leaving
                 /\ ghost'.failed = ghost.failed
                 /\ \E u \in SetUp : /\ u.room = t.room /\ u.at = "retry"
                                     /\ matched' = (matched \ {t}) \cup {u}
              \/ /\ matched' = matched \ {t} /\ ghost'.failed = ghost.failed \cup {t.room}
                 /\ \/ /\ vc'.session = vc.session /\ vc'.cur = vc.cur
                       /\ vc'.leaving = vc.leaving
                    \/ vc.leaving = "no" /\ vc'.leaving = "end" /\ ~vc'.session
<1> DEFINE v == [vc EXCEPT !.initing = FALSE, !.rtc = NoRoom]
           u == [t EXCEPT !.at = "retry", !.try = 2]
<1>1. /\ vc \in Screen /\ ghost \in Ghost /\ t \in SetUp /\ t.room \in Room /\ t.at = "join"
      /\ ghost.faults + 1 \in 0..MaxMediaFaults /\ UNCHANGED <<srv, up, down, mm>>
  BY BoundsAssumption DEF TypeOK, Ghost, SetUp, JoinRtcFails
<1>2. /\ v \in Screen /\ ~v.initing /\ v.rtc = NoRoom /\ v.session = vc.session
      /\ v.cur = vc.cur /\ v.leaving = vc.leaving /\ v.finding = vc.finding
  BY <1>1 DEF Screen, NoRoom
<1>3. u \in SetUp /\ u.room = t.room /\ u.at = "retry"
  <2> DEFINE n == [t EXCEPT !.at = "retry"]
  <2>1. n \in SetUp /\ n.room = t.room /\ n.at = "retry"
    BY <1>1 DEF SetUp
  <2>2. u = [n EXCEPT !.try = 2]
    OBVIOUS
  <2> HIDE DEF n, u
  <2> QED BY <2>1, <2>2 DEF SetUp
<1>4. \/ /\ vc' = v /\ matched' = (matched \ {t}) \cup {u}
         /\ ghost' = [ghost EXCEPT !.faults = ghost.faults + 1]
      \/ /\ vc' \in {v, Ending(v)} /\ matched' = matched \ {t}
         /\ ghost' = [ghost EXCEPT !.faults = ghost.faults + 1,
                                   !.failed = ghost.failed \cup {t.room}]
  BY DEF JoinRtcFails
<1>t. vc.leaving = "next" => vc.finding
  BY DEF TypeOK
<1> HIDE DEF v, u
<1>5. CASE /\ vc' = v /\ matched' = (matched \ {t}) \cup {u}
           /\ ghost' = [ghost EXCEPT !.faults = ghost.faults + 1]
  <2>1. /\ ghost' \in Ghost /\ ghost'.stray = ghost.stray /\ ghost'.lost = ghost.lost
        /\ ghost'.failed = ghost.failed
    BY <1>1, <1>5 DEF Ghost
  <2> QED BY <1>1, <1>2, <1>3, <1>5, <1>t, <2>1
<1>6. CASE /\ vc' \in {v, Ending(v)} /\ matched' = matched \ {t}
           /\ ghost' = [ghost EXCEPT !.faults = ghost.faults + 1,
                                     !.failed = ghost.failed \cup {t.room}]
  <2>1. /\ ghost' \in Ghost /\ ghost'.stray = ghost.stray /\ ghost'.lost = ghost.lost
        /\ ghost'.failed = ghost.failed \cup {t.room}
    BY <1>1, <1>6 DEF Ghost
  <2>2. CASE vc' = v
    BY <1>1, <1>2, <1>6, <1>t, <2>1, <2>2
  <2>3. CASE vc' = Ending(v)
    <3>1. /\ vc' \in Screen /\ vc'.rtc = NoRoom /\ ~vc'.initing /\ vc'.finding = vc.finding
          /\ \/ vc.leaving # "no" /\ vc' = v
             \/ vc.leaving = "no" /\ vc'.leaving = "end" /\ ~vc'.session
      BY <1>2, <2>3, EndingGives
    <3> QED BY <1>1, <1>2, <1>6, <1>t, <2>1, <3>1
  <2> QED BY <1>6, <2>2, <2>3
<1> QED BY <1>4, <1>5, <1>6

LEMMA CoroutinesTyped ==
    ASSUME TypeOK, Housed, Proceeds \/ \E t \in matched : JoinRtcFails(t)
    PROVE  TypeOK' /\ Housed'
<1>1. /\ mm \in Machine /\ vc \in Screen /\ up \in Seq(Request) /\ ghost \in Ghost
      /\ matched \subseteq SetUp /\ mm.up \in BOOLEAN
  BY DEF TypeOK, Request, Machine
<1>2. UNCHANGED <<srv, down>>
  BY DEF Proceeds, EndFinishes, NextFinishes, MediaReady, PartnerLeft, LeftRtc, JoinRtc, Retry,
         Proceed, JoinRtcFails
<1>3. CASE EndFinishes
  <2>1. /\ LeaveRtc(LeftRooms(mm)) /\ vc' = [vc EXCEPT !.rtc = NoRoom, !.leaving = "no"]
        /\ mm' = LeaveRoom(mm) /\ up' = up \o LeaveMessages(mm) /\ matched' = matched
    BY <1>3 DEF EndFinishes
  <2>2. LeaveMessages(mm) \in Seq(Request) /\ LeftRooms(mm) \subseteq Room /\ mm' \in Machine
    BY <1>1, <2>1, LeaveRoomGives
  <2>3. up' \in Seq(Request)
    BY <1>1, <2>1, <2>2
  <2>4. ghost' \in Ghost
    BY <2>1, <2>2, LeaveRtcGives
  <2>5. vc' \in Screen /\ vc'.rtc = NoRoom /\ vc'.leaving = "no"
    BY <1>1, <2>1 DEF Screen, NoRoom
  <2> QED BY <1>2, <2>1, <2>2, <2>3, <2>4, <2>5 DEF TypeOK, Housed, Request
<1>4. CASE NextFinishes
  <2>1. /\ LeaveRtc({}) /\ vc' = [vc EXCEPT !.rtc = NoRoom, !.leaving = "no"]
        /\ DoJoin(mm, up) /\ matched' = matched
    BY <1>4 DEF NextFinishes
  <2>2. mm' \in Machine /\ up' \in Seq(Request)
    BY <1>1, <2>1, DoJoinGives
  <2>3. ghost' \in Ghost
    BY <2>1, LeaveRtcGives
  <2>4. vc' \in Screen /\ vc'.rtc = NoRoom /\ vc'.leaving = "no"
    BY <1>1, <2>1 DEF Screen, NoRoom
  <2> QED BY <1>2, <2>1, <2>2, <2>3, <2>4 DEF TypeOK, Housed, Request
<1>5. CASE MediaReady
  <2>1. /\ vc' = [vc EXCEPT !.starting = @ - 1] /\ vc.starting > 0
        /\ DoJoin(mm, up) /\ UNCHANGED <<matched, ghost>>
    BY <1>5 DEF MediaReady
  <2>2. mm' \in Machine /\ up' \in Seq(Request)
    BY <1>1, <2>1, DoJoinGives
  <2>3. /\ vc' \in Screen /\ vc'.initing = vc.initing /\ vc'.rtc = vc.rtc
        /\ vc'.leaving = vc.leaving /\ vc'.finding = vc.finding
    BY <1>1, <2>1 DEF Screen
  <2> QED BY <1>2, <2>1, <2>2, <2>3 DEF TypeOK, Housed, Request
<1>6. CASE PartnerLeft
  <2> DEFINE v == Ending(vc)
  <2>1. /\ vc' = [v EXCEPT !.parting = FALSE] /\ UNCHANGED <<srv, up, down, mm, matched, ghost>>
    BY <1>6 DEF PartnerLeft
  <2>2. /\ v \in Screen /\ (v.initing => v.rtc = NoRoom) /\ (v.leaving = "next" => v.finding)
    BY EndingGives DEF TypeOK
  <2> HIDE DEF v
  <2>3. /\ vc' \in Screen /\ (vc'.initing => vc'.rtc = NoRoom)
        /\ vc'.leaving = "next" => vc'.finding
    BY <2>1, <2>2 DEF Screen
  <2> QED BY <2>1, <2>3 DEF TypeOK, Housed
<1>7. ASSUME NEW t \in matched, LeftRtc(t) \/ Retry(t)
      PROVE  TypeOK' /\ Housed'
  <2>1. PICK u \in SetUp : matched' = (matched \ {t}) \cup {u}
    BY <1>7, ProceedGives
  <2>2. /\ vc' \in Screen /\ vc'.rtc = NoRoom /\ vc'.leaving = vc.leaving
        /\ vc'.finding = vc.finding /\ ghost' \in Ghost /\ UNCHANGED <<srv, up, down, mm>>
    BY <1>7, ProceedGives
  <2> QED BY <2>1, <2>2 DEF TypeOK, Housed
<1>8. ASSUME NEW t \in matched, JoinRtc(t)
      PROVE  TypeOK' /\ Housed'
  <2>1. t \in SetUp /\ t.room \in Room
    BY <1>1, <1>8 DEF SetUp
  <2>2. PICK r : r = IF vc.rtc = NoRoom THEN t.room ELSE vc.rtc
    OBVIOUS
  <2>3. /\ vc' = [vc EXCEPT !.initing = FALSE, !.rtc = r] /\ matched' = matched \ {t}
        /\ UNCHANGED <<srv, up, down, mm, ghost>>
    BY <1>8, <2>2 DEF JoinRtc
  <2>4. /\ vc' \in Screen /\ ~vc'.initing /\ vc'.leaving = vc.leaving
        /\ vc'.finding = vc.finding
    BY <1>1, <2>1, <2>2, <2>3 DEF Screen
  <2> QED BY <2>3, <2>4 DEF TypeOK, Housed
<1>9. ASSUME NEW t \in matched, JoinRtcFails(t)
      PROVE  TypeOK' /\ Housed'
  <2>1. /\ vc' \in Screen /\ vc'.rtc = NoRoom /\ (vc'.leaving = "next" => vc'.finding)
        /\ ghost' \in Ghost /\ UNCHANGED <<srv, up, down, mm>>
    BY <1>9, FailsGives
  <2>2. \/ matched' = matched \ {t}
        \/ \E u \in SetUp : matched' = (matched \ {t}) \cup {u}
    BY <1>9, FailsGives
  <2> QED BY <2>1, <2>2 DEF TypeOK, Housed
<1> QED BY <1>3, <1>4, <1>5, <1>6, <1>7, <1>8, <1>9 DEF Proceeds

LEMMA NextTyped == TypeOK /\ Housed /\ [Next]_vars => TypeOK' /\ Housed'
<1>1. CASE UNCHANGED vars
  BY <1>1 DEF vars, TypeOK, Housed
<1> QED BY <1>1, ServerTyped, ReceivesTyped, SocketTyped, EffectsTyped, UserTyped,
           CoroutinesTyped DEF Next

\* Every part of the client and of its server keeps its range, through every handler.
THEOREM TypeCorrect == Spec => [](TypeOK /\ Housed)
  BY InitTyped, NextTyped, PTL DEF Spec

-----------------------------------------------------------------------------
(* The call follows the session on the screen.                              *)

\* A message that gives a room names one that the server has made, and whether it has a call.
Announced(x) ==
    x.type \in {"matched", "reconnected"} =>
        x.room <= srv.rooms /\ (x.rtc <=> x.room \notin srv.bots)

\* The rooms that are known anywhere are rooms the server has made, and set-ups are of rooms
\* with a call.
Numbered ==
    /\ srv.bots \subseteq 1..srv.rooms /\ srv.room <= srv.rooms /\ vc.cur <= srv.rooms
    /\ \A i \in DOMAIN down : Announced(down[i])
    /\ \A t \in matched : t.room <= srv.rooms /\ t.room \notin srv.bots

\* The room whose call should be up.
Expected ==
    IF vc.session /\ vc.cur \notin srv.bots \cup ghost.failed THEN vc.cur ELSE NoRoom

\* A session that the machine has a room for is about that room, and none is on the screen
\* while one is being left; a call is being initialized only for a set-up.
OneSession ==
    /\ vc.session /\ mm.match # NoRoom => vc.cur = mm.match
    /\ vc.leaving # "no" => ~vc.session
    /\ vc.session => vc.cur # NoRoom
    /\ vc.initing => \E t \in matched : t.at = "join"

\* There is one set-up at most; one that initializes the call is about the session, unless
\* that is being left, and afterwards the call is the session's.
OneSetUp ==
    /\ \A t, u \in matched : t = u
    /\ \A t \in matched : t.at = "join" => vc.initing
    /\ \A t \in matched : t.room \notin ghost.failed
    /\ vc.leaving = "no" =>
         \A t \in matched : t.at = "join" => vc.session /\ vc.cur = t.room
    /\ vc.leaving = "no" /\ matched = {} => vc.rtc = Expected

Calls == OneSession /\ (~ghost.stray => OneSetUp)

LEMMA Plain ==
    \A t \in {"searching", "left", "cancelled", "error", "partner_left"} :
        Say(t) \in Message /\ Announced(Say(t))
  BY MessagesMade DEF Announced

\* A message sent on its own leaves what is announced true.
LEMMA SentAnnounced ==
    ASSUME TypeOK, \A i \in DOMAIN down : Announced(down[i]),
           NEW x \in Message, Announced(x), Send(<<x>>)
    PROVE  \A i \in DOMAIN down' : Announced(down'[i])
<1>1. CASE mm.up
  <2> DEFINE d == down \o <<x>>
  <2>1. down' = d
    BY <1>1, SendGives
  <2>2. /\ \A i \in DOMAIN d : i \in DOMAIN down \/ i = Len(down) + 1
        /\ \A i \in DOMAIN down : d[i] = down[i]
        /\ d[Len(down) + 1] = x
    BY SentLast DEF TypeOK
  <2> HIDE DEF d
  <2>3. ASSUME NEW i \in DOMAIN d PROVE Announced(d[i])
    BY <2>2
  <2> QED BY <2>1, <2>3
<1>2. CASE ~mm.up
  <2>1. down' = down
    BY <1>2, SendGives
  <2> QED BY <2>1
<1> QED BY <1>1, <1>2

LEMMA DownAnnounced ==
    ASSUME TypeOK, Housed, Numbered, [Next]_vars, ~Match
    PROVE  \A i \in DOMAIN down' : Announced(down'[i])
<1>0. \A i \in DOMAIN down : Announced(down[i])
  BY DEF Numbered
<1>1. CASE ServerReceives \/ CancelEnds \/ PartnerLeaves
  <2>1. \/ \E t \in {"searching", "error", "left", "cancelled", "partner_left"} :
             Send(<<Say(t)>>)
        \/ down' = down
    BY <1>1 DEF ServerReceives, ServerJoins, ServerLeaves, ServerCancels, CancelEnds,
                PartnerLeaves
  <2>2. CASE down' = down
    BY <1>0, <2>2
  <2>3. CASE \E t \in {"searching", "error", "left", "cancelled", "partner_left"} :
               Send(<<Say(t)>>)
    BY <1>0, <2>3, Plain, SentAnnounced
  <2> QED BY <2>1, <2>2, <2>3
<1>2. CASE Receives
  <2>1. \E t : Receive(t)
    BY <1>2 DEF Receives, ReceiveConnected, ReceiveSearching, ReceiveMatched,
         ReceiveReconnected, ReceivePartnerLeft, ReceiveLeft, ReceiveCancelled, ReceiveError
  <2>2. down # <<>> /\ down' = Tail(down)
    BY <2>1, ReceiveGives
  <2> DEFINE d == Tail(down)
  <2>3. \A i \in DOMAIN d : i + 1 \in DOMAIN down /\ d[i] = down[i + 1]
    BY <2>2, Received DEF TypeOK
  <2> HIDE DEF d
  <2>4. ASSUME NEW i \in DOMAIN d PROVE Announced(d[i])
    BY <1>0, <2>3
  <2> QED BY <2>2, <2>4 DEF d
<1>3. CASE Drop
  <2>1. down' = <<>>
    BY <1>3 DEF Drop
  <2> QED BY <2>1
<1>4. CASE Reconnect
  <2> DEFINE b == srv.room \notin srv.bots
             y == SayRoom("reconnected", srv.room, b)
  <2>1. \/ down' = <<SayConnected(FALSE)>>
        \/ down' = <<SayConnected(TRUE), Say("left")>>
        \/ srv.st = "room" /\ down' = <<SayConnected(TRUE), y>>
    BY <1>4 DEF Reconnect
  <2>2. srv.st = "room" => srv.room \in Room /\ srv.room <= srv.rooms
    BY DEF Housed, TypeOK, Server, Numbered
  <2>3. b \in BOOLEAN
    OBVIOUS
  <2>4. srv.st = "room" => y.room = srv.room /\ y.rtc = b
    BY <2>2, <2>3, MessagesMade
  <2>5. srv.st = "room" => Announced(y)
    BY <2>2, <2>4 DEF Announced
  <2>6. Announced(SayConnected(TRUE)) /\ Announced(SayConnected(FALSE)) /\ Announced(Say("left"))
    BY Plain, MessagesMade DEF Announced
  <2> HIDE DEF y
  <2>7. ASSUME NEW u, NEW v, Announced(u), Announced(v)
        PROVE  /\ \A i \in DOMAIN <<u>> : Announced(<<u>>[i])
               /\ \A i \in DOMAIN <<u, v>> : Announced(<<u, v>>[i])
    <3>1. DOMAIN <<u>> = {1} /\ DOMAIN <<u, v>> = {1, 2}
      OBVIOUS
    <3> QED BY <2>7, <3>1
  <2> QED BY <2>1, <2>5, <2>6, <2>7
<1>5. CASE \/ UNCHANGED vars \/ GraceEnds \/ GraceTimer \/ SocketGivesUp \/ PendingJoin
           \/ SearchTimeout \/ DebounceEnds \/ Start \/ Stop \/ Leave \/ FindNext \/ Proceeds
           \/ \E t \in matched : JoinRtcFails(t)
  <2>1. down' = down
    BY <1>5 DEF vars, GraceEnds, GraceTimer, SocketGivesUp, PendingJoin, SearchTimeout,
         DebounceEnds, Start, Stop, Leave, FindNext, Click, Proceeds, EndFinishes, NextFinishes,
         MediaReady, PartnerLeft, LeftRtc, JoinRtc, Retry, Proceed, JoinRtcFails
  <2> QED BY <1>0, <2>1
<1> QED BY <1>1, <1>2, <1>3, <1>4, <1>5 DEF Next

\* Any step but a match or a resume leaves the room of the screen, or forgets it, and begins
\* no set-up.
LEMMA ScreenSteps ==
    ASSUME TypeOK, [Next]_vars, ~(ReceiveMatched \/ ReceiveReconnected)
    PROVE  /\ vc'.cur \in {vc.cur, NoRoom}
           /\ \A t \in matched' : \E u \in matched : t.room = u.room
<1>1. vc \in Screen /\ matched \subseteq SetUp
  BY DEF TypeOK
<1>2. Ending(vc).cur \in {vc.cur, NoRoom} /\ Ending(vc) \in Screen
  BY <1>1, EndingGives DEF Screen
<1>3. CASE vc' \in {vc, Ending(vc)} /\ matched' = matched
  BY <1>2, <1>3
<1>4. CASE \/ UNCHANGED vars \/ ServerReceives \/ CancelEnds \/ Match \/ PartnerLeaves
           \/ GraceEnds \/ Reconnect \/ GraceTimer \/ SocketGivesUp \/ PendingJoin
           \/ SearchTimeout \/ Stop \/ Leave
           \/ ReceiveConnected \/ ReceiveSearching \/ ReceiveCancelled \/ ReceiveError
  BY <1>3, <1>4 DEF vars, ServerReceives, CancelEnds, Match, PartnerLeaves, GraceEnds,
         Reconnect, GraceTimer, SocketGivesUp, PendingJoin, SearchTimeout, Stop, Leave, Click,
         ReceiveConnected, ReceiveSearching, ReceiveCancelled, ReceiveError
<1>5. CASE ReceivePartnerLeft \/ ReceiveLeft
  <2>1. PartnerGone /\ matched' = matched
    BY <1>5 DEF ReceivePartnerLeft, ReceiveLeft
  <2> QED BY <1>2, <2>1, PartnerGoneGives
<1>6. CASE Drop \/ DebounceEnds \/ Start \/ FindNext \/ EndFinishes \/ NextFinishes \/ MediaReady
  <2>1. matched' = matched
    BY <1>6 DEF Drop, DebounceEnds, Start, FindNext, Click, EndFinishes, NextFinishes,
                MediaReady
  <2>2. vc'.cur \in {vc.cur, NoRoom}
    <3>1. \/ vc' = vc
          \/ vc' = [vc EXCEPT !.finding = vc.finding /\ vc.leaving = "next"]
          \/ vc' = [vc EXCEPT !.finding = FALSE]
          \/ vc' = [vc EXCEPT !.starting = vc.starting + 1]
          \/ vc' = [vc EXCEPT !.starting = vc.starting - 1]
          \/ vc' = [vc EXCEPT !.leaving = "next", !.finding = TRUE, !.session = FALSE,
                              !.cur = NoRoom]
          \/ vc' = [vc EXCEPT !.rtc = NoRoom, !.leaving = "no"]
      BY <1>6 DEF Drop, DebounceEnds, Start, FindNext, EndFinishes, NextFinishes, MediaReady
    <3> QED BY <1>1, <3>1 DEF Screen
  <2> QED BY <2>1, <2>2
<1>7. CASE PartnerLeft
  <2>1. matched' = matched /\ vc' = [Ending(vc) EXCEPT !.parting = FALSE]
    BY <1>7 DEF PartnerLeft
  <2>2. vc'.cur = Ending(vc).cur
    BY <1>2, <2>1 DEF Screen
  <2> QED BY <1>2, <2>1, <2>2
<1>8. ASSUME NEW t \in matched, LeftRtc(t) \/ Retry(t)
      PROVE  /\ vc'.cur \in {vc.cur, NoRoom}
             /\ \A w \in matched' : \E u \in matched : w.room = u.room
  <2>1. vc'.cur = vc.cur
    BY <1>8, ProceedGives
  <2>2. PICK v \in SetUp : v.room = t.room /\ matched' = (matched \ {t}) \cup {v}
    BY <1>8, ProceedGives
  <2> QED BY <2>1, <2>2
<1>9. ASSUME NEW t \in matched, JoinRtc(t)
      PROVE  /\ vc'.cur \in {vc.cur, NoRoom}
             /\ \A w \in matched' : \E u \in matched : w.room = u.room
  <2>1. /\ vc' = [vc EXCEPT !.initing = FALSE,
                            !.rtc = IF vc.rtc = NoRoom THEN t.room ELSE vc.rtc]
        /\ matched' = matched \ {t}
    BY <1>9 DEF JoinRtc
  <2> QED BY <1>1, <2>1 DEF Screen
<1>10. ASSUME NEW t \in matched, JoinRtcFails(t)
       PROVE  /\ vc'.cur \in {vc.cur, NoRoom}
              /\ \A w \in matched' : \E u \in matched : w.room = u.room
  <2> DEFINE v == [vc EXCEPT !.initing = FALSE, !.rtc = NoRoom]
  <2>1. v \in Screen /\ v.cur = vc.cur
    BY <1>1 DEF Screen, NoRoom
  <2>2. vc' \in {v, Ending(v)}
    BY <1>10 DEF JoinRtcFails
  <2> HIDE DEF v
  <2>3. vc'.cur \in {vc.cur, NoRoom}
    BY <2>1, <2>2 DEF Ending, Screen
  <2>4. \/ \E u \in SetUp : u.room = t.room /\ matched' = (matched \ {t}) \cup {u}
        \/ matched' = matched \ {t}
    BY <1>10, FailsGives
  <2> QED BY <2>3, <2>4
<1> QED BY <1>4, <1>5, <1>6, <1>7, <1>8, <1>9, <1>10 DEF Next, Receives, Proceeds

\* The set-ups after a message that gives a room.
LEMMA GivenNumbered ==
    ASSUME TypeOK, Numbered, NEW r \in Room, NEW b \in BOOLEAN, r <= srv.rooms,
           b <=> r \notin srv.bots, OnMatched(r, b) \/ OnReconnected(r, b)
    PROVE  /\ vc'.cur <= srv.rooms
           /\ \A t \in matched' : t.room <= srv.rooms /\ t.room \notin srv.bots
<1>1. CASE b /\ SetUpCall(r)
  <2>1. vc'.cur = r
    BY <1>1, SetUpGives
  <2>2. PICK t \in SetUp : matched' = matched \cup {t} /\ t.room = r
    BY <1>1, SetUpGives
  <2> QED BY <1>1, <2>1, <2>2 DEF Numbered
<1>2. CASE matched' = matched /\ vc' \in {vc, Show(r)}
  BY <1>2, ShowGives DEF Numbered
<1> QED BY <1>1, <1>2, OnMatchedGives, OnReconnectedGives

LEMMA ReadRoom ==
    ASSUME TypeOK, Numbered, ReceiveMatched \/ ReceiveReconnected,
           NEW r, NEW b, r = Head(down).room, b = Head(down).rtc
    PROVE  /\ r \in Room /\ b \in BOOLEAN /\ r <= srv.rooms /\ (b <=> r \notin srv.bots)
           /\ srv' = srv /\ mm'.match = r
           /\ OnMatched(r, b) \/ (mm.match = r /\ OnReconnected(r, b))
<1>1. \E t \in {"matched", "reconnected"} : Receive(t)
  BY DEF ReceiveMatched, ReceiveReconnected
<1>2. /\ 1 \in DOMAIN down /\ Head(down) = down[1] /\ Head(down) \in Message /\ srv' = srv
      /\ Head(down).type \in {"matched", "reconnected"}
  BY <1>1, ReceiveGives
<1>3. Announced(Head(down))
  BY <1>2 DEF Numbered
<1>4. r \in Room /\ b \in BOOLEAN /\ r <= srv.rooms /\ (b <=> r \notin srv.bots)
  BY <1>2, <1>3, MessageFields DEF Announced
<1>5. mm'.match = r
  BY DEF ReceiveMatched, ReceiveReconnected, TypeOK, Machine
<1> QED BY <1>2, <1>4, <1>5 DEF ReceiveMatched, ReceiveReconnected

LEMMA NextNumbered ==
    ASSUME TypeOK, TypeOK', Housed, Numbered, [Next]_vars
    PROVE  Numbered'
<1>1. /\ srv \in Server /\ vc \in Screen /\ matched \subseteq SetUp /\ srv.rooms \in Nat
      /\ srv.bots \subseteq 1..srv.rooms /\ srv.room <= srv.rooms /\ vc.cur <= srv.rooms
      /\ \A t \in matched : t.room <= srv.rooms /\ t.room \notin srv.bots
  BY DEF TypeOK, Server, Numbered
<1>2. CASE Match
  <2> DEFINE r == srv.rooms + 1
  <2>1. PICK b \in BOOLEAN :
          /\ srv' = [srv EXCEPT !.st = "room", !.room = r, !.rooms = r,
                                !.bots = IF b THEN srv.bots ELSE srv.bots \cup {r}]
          /\ Send(<<SayRoom("matched", r, b)>>)
    BY <1>2 DEF Match
  <2>2. UNCHANGED <<vc, mm, matched>> /\ srv.rooms < MaxRooms
    BY <1>2 DEF Match
  <2>3. r \in Room /\ r \in Nat /\ srv.rooms < r /\ ~(r <= srv.rooms)
    BY <1>1, <2>2, BoundsAssumption DEF Room
  <2>4. 1..r = 1..srv.rooms \cup {r}
    BY <1>1
  <2>5. \A n : n \in Nat /\ n <= srv.rooms => n # r /\ n <= r
    BY <1>1, <2>3
  <2>t. \A n \in Room \cup {NoRoom} : n \in Nat
    BY Rooms DEF NoRoom
  <2> HIDE DEF r
  <2>6. /\ srv'.rooms = r /\ srv'.room = r
        /\ srv'.bots = IF b THEN srv.bots ELSE srv.bots \cup {r}
    BY <1>1, <2>1 DEF Server
  <2>7. srv'.bots \subseteq 1..r
    BY <1>1, <2>4, <2>6
  <2>8. r \notin srv.bots
    BY <1>1, <2>3
  <2>9. vc'.cur <= r
    BY <1>1, <2>2, <2>5, <2>t DEF Screen
  <2>10. \A t \in matched' : t.room <= r /\ t.room \notin srv'.bots
    <3> SUFFICES ASSUME NEW t \in matched PROVE t.room <= r /\ t.room \notin srv'.bots
      BY <2>2
    <3>1. t.room \in Nat /\ t.room <= srv.rooms /\ t.room \notin srv.bots
      BY <1>1, <2>t DEF SetUp
    <3>2. t.room # r /\ t.room <= r
      BY <2>5, <3>1
    <3> QED BY <2>6, <3>1, <3>2
  <2>11. ASSUME NEW x \in Message, Announced(x)
         PROVE  x.type \in {"matched", "reconnected"} =>
                    x.room <= r /\ (x.rtc <=> x.room \notin srv'.bots)
    <3> SUFFICES ASSUME x.type \in {"matched", "reconnected"}
                 PROVE  x.room <= r /\ (x.rtc <=> x.room \notin srv'.bots)
      OBVIOUS
    <3>1. x.room \in Nat /\ x.room <= srv.rooms /\ (x.rtc <=> x.room \notin srv.bots)
      BY <2>11, <2>t, MessageFields DEF Announced
    <3>2. x.room # r /\ x.room <= r
      BY <2>5, <3>1
    <3> QED BY <2>6, <3>1, <3>2
  <2> DEFINE x == SayRoom("matched", r, b)
  <2>12. x \in Message /\ x.type = "matched" /\ x.room = r /\ x.rtc = b
    BY <2>3, MessagesMade
  <2> HIDE DEF x
  <2>13. x.room <= r /\ (x.rtc <=> x.room \notin srv'.bots)
    BY <2>3, <2>6, <2>8, <2>12
  <2> DEFINE New(y) == y.type \in {"matched", "reconnected"} =>
                           y.room <= r /\ (y.rtc <=> y.room \notin srv'.bots)
  <2>14. \A i \in DOMAIN down : New(down[i])
    <3> SUFFICES ASSUME NEW i \in DOMAIN down PROVE New(down[i])
      OBVIOUS
    <3>1. down[i] \in Message /\ Announced(down[i])
      BY DEF TypeOK, Numbered
    <3> QED BY <2>11, <3>1
  <2>15. New(x)
    BY <2>13
  <2> HIDE DEF New
  <2>16. \A i \in DOMAIN down' : New(down'[i])
    <3> DEFINE d == down \o <<x>>
    <3>1. down' = down \/ down' = d
      BY <2>1, <2>12, SendGives DEF x
    <3>2. /\ \A i \in DOMAIN d : i \in DOMAIN down \/ i = Len(down) + 1
          /\ \A i \in DOMAIN down : d[i] = down[i]
          /\ d[Len(down) + 1] = x
      BY <2>12, SentLast DEF TypeOK
    <3> HIDE DEF d
    <3>3. ASSUME NEW i \in DOMAIN d PROVE New(d[i])
      BY <2>14, <2>15, <3>2
    <3> QED BY <2>14, <3>1, <3>3
  <2> QED BY <2>3, <2>6, <2>7, <2>9, <2>10, <2>16 DEF Numbered, Announced, New
<1>3. CASE ~Match
  <2>1. \A i \in DOMAIN down' : Announced(down'[i])
    BY <1>3, DownAnnounced
  <2>2. /\ srv'.rooms = srv.rooms /\ srv'.bots = srv.bots
        /\ srv'.room \in {srv.room, NoRoom}
    <3>1. CASE srv' = srv
      BY <3>1
    <3>2. CASE ServerReceives \/ CancelEnds \/ PartnerLeaves \/ GraceEnds \/ Drop \/ Reconnect
      <4>1. /\ Idle(srv).rooms = srv.rooms /\ Idle(srv).bots = srv.bots
            /\ Idle(srv).room = NoRoom /\ Idle(srv) \in Server
        BY <1>1 DEF Idle, Server, NoRoom
      <4> DEFINE s == IF srv.st = "room" THEN srv ELSE Idle(srv)
      <4>2. /\ s \in Server /\ s.rooms = srv.rooms /\ s.bots = srv.bots
            /\ s.room \in {srv.room, NoRoom}
        BY <1>1, <4>1
      <4>3. \/ srv' \in {srv, Idle(srv)}
            \/ srv' = [srv EXCEPT !.st = "queue"]
            \/ srv' = [srv EXCEPT !.st = "idle"]
            \/ srv' = [srv EXCEPT !.cancelling = srv.st = "queue"]
            \/ srv' = [srv EXCEPT !.cancelling = FALSE, !.st = "idle"]
            \/ srv' = [Idle(srv) EXCEPT !.held = FALSE]
            \/ srv' = [s EXCEPT !.cancelling = FALSE, !.held = srv.st = "room"]
            \/ srv' = [srv EXCEPT !.held = FALSE]
        BY <3>2 DEF ServerReceives, ServerJoins, ServerLeaves, ServerCancels, CancelEnds,
                    PartnerLeaves, GraceEnds, Drop, Reconnect
      <4> HIDE DEF s
      <4> QED BY <1>1, <4>1, <4>2, <4>3 DEF Server
    <3>3. CASE Receives
      <4>1. \E t : Receive(t)
        BY <3>3 DEF Receives, ReceiveConnected, ReceiveSearching, ReceiveMatched,
           ReceiveReconnected, ReceivePartnerLeft, ReceiveLeft, ReceiveCancelled, ReceiveError
      <4> QED BY <4>1 DEF Receive
    <3>4. CASE \/ UNCHANGED vars \/ GraceTimer \/ SocketGivesUp \/ PendingJoin
               \/ SearchTimeout \/ DebounceEnds \/ Start \/ Stop \/ Leave \/ FindNext
               \/ Proceeds \/ \E t \in matched : JoinRtcFails(t)
      <4>1. srv' = srv
        BY <3>4 DEF vars, GraceTimer, SocketGivesUp, PendingJoin, SearchTimeout,
         DebounceEnds, Start, Stop, Leave, FindNext, Click, Proceeds, EndFinishes, NextFinishes,
         MediaReady, PartnerLeft, LeftRtc, JoinRtc, Retry, Proceed, JoinRtcFails
      <4> QED BY <4>1
    <3> QED BY <1>3, <3>1, <3>2, <3>3, <3>4 DEF Next
  <2>3. /\ vc'.cur <= srv.rooms
        /\ \A t \in matched' : t.room <= srv.rooms /\ t.room \notin srv.bots
    <3>1. CASE ReceiveMatched \/ ReceiveReconnected
      BY <3>1, ReadRoom, GivenNumbered
    <3>2. CASE ~(ReceiveMatched \/ ReceiveReconnected)
      <4>1. /\ vc'.cur \in {vc.cur, NoRoom}
            /\ \A t \in matched' : \E u \in matched : t.room = u.room
        BY <1>3, <3>2, ScreenSteps
      <4>2. NoRoom <= srv.rooms
        BY <1>1 DEF NoRoom
      <4> QED BY <1>1, <4>1, <4>2
    <3> QED BY <3>1, <3>2
  <2>4. NoRoom <= srv.rooms
    BY <1>1 DEF NoRoom
  <2> QED BY <1>1, <2>1, <2>2, <2>3, <2>4 DEF Numbered, Announced
<1> QED BY <1>2, <1>3

\* A step that leaves the session and the call alone, or begins to leave the session.
LEMMA CallsKept ==
    ASSUME TypeOK, TypeOK', Calls, matched' = matched,
           mm'.match \in {mm.match, NoRoom},
           vc'.rtc = vc.rtc, vc'.initing = vc.initing,
           \/ vc'.session = vc.session /\ vc'.cur = vc.cur /\ vc'.leaving = vc.leaving
           \/ vc'.leaving # "no" /\ ~vc'.session,
           ghost'.stray = ghost.stray, ghost'.failed = ghost.failed,
           vc.cur \in srv'.bots <=> vc.cur \in srv.bots
    PROVE  Calls'
<1>1. OneSession'
  BY DEF Calls, OneSession
<1>2. OneSetUp => OneSetUp'
  BY DEF OneSetUp, Expected
<1> QED BY <1>1, <1>2 DEF Calls

LEMMA CallsSetUp ==
    ASSUME TypeOK, TypeOK', Calls, NEW r \in Room, mm'.match = r, vc.leaving = "no",
           SetUpCall(r)
    PROVE  Calls'
<1>1. /\ vc'.session /\ vc'.cur = r /\ vc'.leaving = "no" /\ r # NoRoom
      /\ ghost'.stray <=> matched # {}
      /\ ghost'.failed = ghost.failed \ {r}
  BY SetUpGives, Rooms
<1>2. PICK t \in SetUp :
        /\ matched' = matched \cup {t} /\ t.room = r
        /\ \/ t.at = "leave" /\ ~vc'.initing /\ vc'.rtc # NoRoom
           \/ t.at = "join" /\ vc'.initing /\ vc'.rtc = NoRoom
  BY SetUpGives
<1>3. OneSession'
  BY <1>1, <1>2 DEF OneSession
<1>4. ASSUME ~ghost'.stray PROVE OneSetUp'
  <2>1. matched' = {t}
    BY <1>1, <1>2, <1>4
  <2> QED BY <1>1, <1>2, <2>1 DEF OneSetUp
<1> QED BY <1>3, <1>4 DEF Calls

\* A match with a bot.
LEMMA CallsShown ==
    ASSUME TypeOK, TypeOK', Calls, NEW r \in Room, mm'.match = r, vc.leaving = "no",
           r \in srv.bots, srv' = srv, vc' = Show(r), matched' = matched,
           ghost' = Strays(ghost.stray \/ vc.rtc # NoRoom \/ matched # {})
    PROVE  Calls'
<1> DEFINE b == ghost.stray \/ vc.rtc # NoRoom \/ matched # {}
<1>1. /\ vc'.session /\ vc'.cur = r /\ vc'.leaving = "no" /\ vc'.rtc = vc.rtc
      /\ vc'.initing = vc.initing /\ r # NoRoom
  BY ShowGives, Rooms
<1>2. b \in BOOLEAN /\ ghost' = Strays(b)
  BY DEF TypeOK, Ghost
<1> HIDE DEF b
<1>3. ghost'.stray <=> b
  BY <1>2, StraysGives
<1>4. OneSession'
  BY <1>1 DEF OneSession, Calls
<1>5. ASSUME ~ghost'.stray PROVE OneSetUp'
  <2>1. matched' = {} /\ vc'.rtc = NoRoom
    BY <1>1, <1>3, <1>5 DEF b
  <2>2. Expected' = NoRoom
    BY <1>1 DEF Expected
  <2> QED BY <2>1, <2>2 DEF OneSetUp
<1> QED BY <1>4, <1>5 DEF Calls

\* A resume of the room that the machine has kept, with its call up, or without a call.
LEMMA CallsBack ==
    ASSUME TypeOK, TypeOK', Numbered, Calls, NEW r \in Room, mm'.match = r, mm.match = r,
           vc.leaving = "no", vc.rtc # NoRoom \/ r \in srv.bots, srv' = srv, vc' = Show(r),
           matched' = matched, ghost' = ghost
    PROVE  Calls'
<1>1. /\ vc'.session /\ vc'.cur = r /\ vc'.leaving = "no" /\ vc'.rtc = vc.rtc
      /\ vc'.initing = vc.initing /\ r # NoRoom
  BY ShowGives, Rooms
<1>2. OneSession'
  BY <1>1 DEF OneSession, Calls
<1>3. ASSUME OneSetUp PROVE OneSetUp'
  <2>1. vc.session => vc.cur = r
    BY <1>1 DEF Calls, OneSession
  <2>2. ASSUME NEW t \in matched, t.at = "join" PROVE FALSE
    <3>1. vc.initing /\ vc.session /\ vc.cur = t.room
      BY <1>3, <2>2 DEF OneSetUp
    <3>2. vc.rtc = NoRoom /\ r \in srv.bots
      BY <3>1 DEF TypeOK
    <3>3. t.room \notin srv.bots
      BY <2>2 DEF Numbered
    <3> QED BY <2>1, <3>1, <3>2, <3>3
  <2>3. ASSUME matched = {} PROVE vc'.rtc = Expected'
    <3>1. vc.rtc = Expected
      BY <1>3, <2>3 DEF OneSetUp
    <3>2. CASE vc.rtc # NoRoom
      <4>1. vc.session /\ vc.cur = r /\ r \notin srv.bots \cup ghost.failed /\ vc.rtc = r
        BY <2>1, <3>1, <3>2 DEF Expected
      <4> QED BY <1>1, <4>1 DEF Expected
    <3>3. CASE vc.rtc = NoRoom
      BY <1>1, <3>3 DEF Expected
    <3> QED BY <3>2, <3>3
  <2> QED BY <1>1, <1>3, <2>2, <2>3 DEF OneSetUp
<1> QED BY <1>2, <1>3 DEF Calls

LEMMA ReceivesCalls ==
    ASSUME TypeOK, TypeOK', Numbered, Calls, Receives
    PROVE  Calls'
<1>1. mm \in Machine
  BY DEF TypeOK
<1>2. CASE ReceiveConnected \/ ReceiveSearching \/ ReceiveCancelled \/ ReceiveError
           \/ ReceivePartnerLeft \/ ReceiveLeft
  <2>1. UNCHANGED <<matched, ghost>> /\ (vc' \in {vc, Ending(vc)} \/ PartnerGone)
    BY <1>2 DEF ReceiveConnected, ReceiveSearching, ReceiveCancelled, ReceiveError,
                ReceivePartnerLeft, ReceiveLeft
  <2>2. mm'.match \in {mm.match, NoRoom}
    <3>1. CASE ReceiveConnected
      BY <1>1, <3>1, GivenUpGives DEF ReceiveConnected
    <3>2. CASE ~ReceiveConnected
      BY <1>1, <1>2, <3>2 DEF ReceiveSearching, ReceiveCancelled, ReceiveError,
                              ReceivePartnerLeft, ReceiveLeft, Machine
    <3> QED BY <3>1, <3>2
  <2>3. srv' = srv
    BY <1>2 DEF ReceiveConnected, ReceiveSearching, ReceiveCancelled, ReceiveError,
                ReceivePartnerLeft, ReceiveLeft, Receive
  <2>4. /\ vc'.rtc = vc.rtc /\ vc'.initing = vc.initing
        /\ \/ vc'.session = vc.session /\ vc'.cur = vc.cur /\ vc'.leaving = vc.leaving
           \/ vc'.leaving # "no" /\ ~vc'.session
    BY <2>1, EndingGives, PartnerGoneGives DEF TypeOK
  <2> QED BY <2>1, <2>2, <2>3, <2>4, CallsKept
<1>3. CASE ReceiveMatched \/ ReceiveReconnected
  <2> DEFINE r == Head(down).room
             b == Head(down).rtc
  <2>1. /\ r \in Room /\ b \in BOOLEAN /\ (b <=> r \notin srv.bots) /\ srv' = srv
        /\ mm'.match = r
        /\ OnMatched(r, b) \/ (mm.match = r /\ OnReconnected(r, b))
    BY <1>3, ReadRoom
  <2> HIDE DEF r, b
  <2>2. CASE OnMatched(r, b)
    <3>1. CASE vc.leaving # "no" /\ vc' = vc /\ matched' = matched /\ ghost' = ghost
      <4>1. OneSession'
        BY <3>1 DEF Calls, OneSession
      <4>2. OneSetUp => OneSetUp'
        BY <2>1, <3>1 DEF OneSetUp, Expected
      <4> QED BY <3>1, <4>1, <4>2 DEF Calls
    <3>2. CASE vc.leaving = "no" /\ b /\ SetUpCall(r)
      BY <2>1, <3>2, CallsSetUp
    <3>3. CASE /\ vc.leaving = "no" /\ ~b /\ vc' = Show(r) /\ matched' = matched
               /\ ghost' = Strays(ghost.stray \/ vc.rtc # NoRoom \/ matched # {})
      BY <2>1, <3>3, CallsShown
    <3> QED BY <2>1, <2>2, <3>1, <3>2, <3>3, OnMatchedGives
  <2>3. CASE mm.match = r /\ OnReconnected(r, b) /\ ~OnMatched(r, b)
    <3>1. /\ vc.leaving = "no" /\ (vc.rtc # NoRoom \/ ~b)
          /\ vc' = Show(r) /\ matched' = matched /\ ghost' = ghost
      BY <2>1, <2>3, OnReconnectedGives
    <3> QED BY <2>1, <2>3, <3>1, CallsBack
  <2> QED BY <2>1, <2>2, <2>3
<1> QED BY <1>2, <1>3 DEF Receives

\* joining leaves the match of the machine alone.
LEMMA DoJoinKeepsMatch ==
    ASSUME TypeOK, DoJoin(mm, up) \/ DoJoin([mm EXCEPT !.pending = "no"], up)
    PROVE  mm'.match = mm.match
<1> DEFINE m == [mm EXCEPT !.pending = "no"]
<1>1. mm \in Machine /\ up \in Seq(Request)
  BY DEF TypeOK, Request
<1>2. m \in Machine /\ m.match = mm.match
  BY <1>1 DEF Machine
<1>3. DoJoin(mm, up) \/ DoJoin(m, up)
  OBVIOUS
<1> HIDE DEF m
<1> QED BY <1>1, <1>2, <1>3, DoJoinGives

\* The steps of the set-ups.
LEMMA SetUpCalls ==
    ASSUME TypeOK, TypeOK', Numbered, Calls, NEW t \in matched,
           LeftRtc(t) \/ Retry(t) \/ JoinRtc(t) \/ JoinRtcFails(t)
    PROVE  Calls'
<1>1. vc \in Screen /\ t \in SetUp /\ t.room \in Room
  BY DEF TypeOK, SetUp
<1>2. CASE LeftRtc(t) \/ Retry(t)
  <2>1. /\ vc'.initing /\ vc'.rtc = NoRoom /\ vc'.session = vc.session
        /\ vc'.cur = vc.cur /\ vc'.leaving = vc.leaving /\ ghost'.failed = ghost.failed
        /\ ghost'.stray <=> ghost.stray \/ ~(vc.session /\ vc.cur = t.room)
        /\ srv' = srv /\ mm' = mm
    BY <1>2, ProceedGives
  <2>2. PICK u \in SetUp : /\ u.room = t.room /\ u.at = "join"
                           /\ matched' = (matched \ {t}) \cup {u}
    BY <1>2, ProceedGives
  <2>3. OneSession'
    BY <2>1, <2>2 DEF Calls, OneSession
  <2>4. ASSUME ~ghost'.stray PROVE OneSetUp'
    <3>1. OneSetUp /\ vc.session /\ vc.cur = t.room
      BY <2>1, <2>4 DEF Calls
    <3>2. matched' = {u} /\ t.room \notin ghost.failed
      BY <2>2, <3>1 DEF OneSetUp
    <3> QED BY <2>1, <2>2, <3>1, <3>2 DEF OneSetUp
  <2> QED BY <2>3, <2>4 DEF Calls
<1>3. CASE JoinRtc(t)
  <2> DEFINE r == IF vc.rtc = NoRoom THEN t.room ELSE vc.rtc
  <2>1. /\ t.at = "join" /\ matched' = matched \ {t} /\ ghost' = ghost
        /\ vc' = [vc EXCEPT !.initing = FALSE, !.rtc = r] /\ srv' = srv /\ mm' = mm
    BY <1>3 DEF JoinRtc
  <2> HIDE DEF r
  <2>2. /\ ~vc'.initing /\ vc'.rtc = r /\ vc'.session = vc.session
        /\ vc'.cur = vc.cur /\ vc'.leaving = vc.leaving
    BY <1>1, <2>1 DEF Screen
  <2>3. OneSession'
    BY <2>1, <2>2 DEF Calls, OneSession
  <2>4. ASSUME OneSetUp PROVE OneSetUp'
    <3>1. matched' = {} /\ vc.initing
      BY <2>1, <2>4 DEF OneSetUp
    <3>2. vc.rtc = NoRoom /\ vc'.rtc = t.room
      BY <2>2, <3>1 DEF TypeOK, r
    <3>3. t.room \notin ghost.failed /\ t.room \notin srv.bots
      BY <2>4 DEF OneSetUp, Numbered
    <3>4. vc.leaving = "no" => vc.session /\ vc.cur = t.room
      BY <2>1, <2>4 DEF OneSetUp
    <3>5. vc.leaving = "no" => vc'.rtc = Expected'
      BY <2>1, <2>2, <3>2, <3>3, <3>4 DEF Expected
    <3> QED BY <2>2, <3>1, <3>5 DEF OneSetUp
  <2> QED BY <2>1, <2>3, <2>4 DEF Calls
<1>4. CASE JoinRtcFails(t)
  <2>1. /\ ~vc'.initing /\ vc'.rtc = NoRoom /\ ghost'.stray = ghost.stray
        /\ srv' = srv /\ mm' = mm /\ t.at = "join"
    BY <1>4, FailsGives
  <2>2. CASE /\ vc'.session = vc.session /\ vc'.cur = vc.cur /\ vc'.leaving = vc.leaving
             /\ ghost'.failed = ghost.failed
             /\ \E u \in SetUp : /\ u.room = t.room /\ u.at = "retry"
                                 /\ matched' = (matched \ {t}) \cup {u}
    <3>1. OneSession'
      BY <2>1, <2>2 DEF Calls, OneSession
    <3>2. PICK u \in SetUp : /\ u.room = t.room /\ u.at = "retry"
                             /\ matched' = (matched \ {t}) \cup {u}
      BY <2>2
    <3>3. ASSUME OneSetUp PROVE OneSetUp'
      <4>1. matched' = {u} /\ t.room \notin ghost.failed
        BY <3>2, <3>3 DEF OneSetUp
      <4> QED BY <2>1, <2>2, <3>2, <4>1 DEF OneSetUp
    <3> QED BY <2>1, <3>1, <3>3 DEF Calls
  <2>3. CASE /\ matched' = matched \ {t} /\ ghost'.failed = ghost.failed \cup {t.room}
             /\ \/ vc'.session = vc.session /\ vc'.cur = vc.cur /\ vc'.leaving = vc.leaving
                \/ vc.leaving = "no" /\ vc'.leaving = "end" /\ ~vc'.session
    <3>1. OneSession'
      BY <2>1, <2>3 DEF Calls, OneSession
    <3>2. ASSUME OneSetUp PROVE OneSetUp'
      <4>1. matched' = {}
        BY <2>3, <3>2 DEF OneSetUp
      <4>2. vc'.leaving = "no" => vc'.session /\ vc'.cur = t.room
        BY <2>1, <2>3, <3>2 DEF OneSetUp
      <4>3. vc'.leaving = "no" => Expected' = NoRoom
        BY <2>3, <4>2 DEF Expected
      <4> QED BY <2>1, <4>1, <4>3 DEF OneSetUp
    <3> QED BY <2>1, <3>1, <3>2 DEF Calls
  <2> QED BY <1>4, <2>2, <2>3, FailsGives
<1> QED BY <1>2, <1>3, <1>4

LEMMA NextCalls ==
    ASSUME TypeOK, TypeOK', Numbered, Calls, [Next]_vars
    PROVE  Calls'
<1>1. mm \in Machine /\ vc \in Screen /\ ghost \in Ghost /\ srv \in Server
  BY DEF TypeOK
<1>2. CASE \/ UNCHANGED vars \/ ServerReceives \/ CancelEnds \/ Match \/ PartnerLeaves
           \/ GraceEnds \/ Drop \/ Reconnect \/ GraceTimer \/ SocketGivesUp \/ PendingJoin
           \/ SearchTimeout \/ DebounceEnds \/ Start \/ Stop \/ Leave \/ FindNext
           \/ MediaReady \/ PartnerLeft
  <2>1. matched' = matched
    BY <1>2 DEF vars, ServerReceives, CancelEnds, Match, PartnerLeaves, GraceEnds, Drop,
         Reconnect, GraceTimer, SocketGivesUp, PendingJoin, SearchTimeout, DebounceEnds, Start,
         Stop, Leave, FindNext, MediaReady, PartnerLeft, Click
  <2>2. ghost'.stray = ghost.stray /\ ghost'.failed = ghost.failed
    <3>1. CASE ghost' = ghost
      BY <3>1
    <3>2. CASE ghost' = LostRoom
      BY <3>2, LostGives
    <3>3. CASE \/ ghost' = [ghost EXCEPT !.drops = ghost.drops + 1]
               \/ ghost' = [ghost EXCEPT !.clicks = ghost.clicks + 1]
               \/ ghost' = [ghost EXCEPT !.clicks = ghost.clicks + 1,
                                         !.left = ghost.left \cup LeftRooms(mm)]
      BY <1>1, <3>3 DEF Ghost
    <3> QED BY <1>2, <3>1, <3>2, <3>3 DEF vars, ServerReceives, ServerJoins, ServerLeaves,
         ServerCancels, CancelEnds, Match, PartnerLeaves, GraceEnds, Drop,
         Reconnect, GraceTimer, SocketGivesUp, PendingJoin, SearchTimeout, DebounceEnds, Start,
         Stop, Leave, FindNext, MediaReady, PartnerLeft, Click
  <2>3. mm'.match \in {mm.match, NoRoom}
    <3>1. CASE PendingJoin \/ MediaReady
      BY <1>1, <3>1, DoJoinKeepsMatch DEF PendingJoin, MediaReady, Machine
    <3>2. CASE GraceTimer \/ SocketGivesUp
      BY <1>1, <3>2, GivenUpGives DEF GraceTimer, SocketGivesUp, Machine
    <3>3. CASE FindNext
      BY <1>1, <3>3, LeaveRoomGives DEF FindNext
    <3>4. CASE ~(PendingJoin \/ MediaReady \/ GraceTimer \/ SocketGivesUp \/ FindNext)
      BY <1>1, <1>2, <3>4 DEF vars, ServerReceives, CancelEnds, Match, PartnerLeaves,
         GraceEnds, Drop, Reconnect, SearchTimeout, DebounceEnds, Start, Stop, Leave,
         PartnerLeft, Machine
    <3> QED BY <3>1, <3>2, <3>3, <3>4
  <2>4. /\ vc'.rtc = vc.rtc /\ vc'.initing = vc.initing
        /\ \/ vc'.session = vc.session /\ vc'.cur = vc.cur /\ vc'.leaving = vc.leaving
           \/ vc'.leaving # "no" /\ ~vc'.session
    <3> DEFINE v == Ending(vc)
    <3>1. /\ v \in Screen /\ v.rtc = vc.rtc /\ v.initing = vc.initing
          /\ v = vc \/ (v.leaving # "no" /\ ~v.session)
      BY <1>1, EndingGives
    <3>2. \/ vc' = vc \/ vc' = v
          \/ vc' = [vc EXCEPT !.finding = vc.finding /\ vc.leaving = "next"]
          \/ vc' = [vc EXCEPT !.finding = FALSE]
          \/ vc' = [vc EXCEPT !.starting = vc.starting + 1]
          \/ vc' = [vc EXCEPT !.starting = vc.starting - 1]
          \/ vc' = [vc EXCEPT !.leaving = "next", !.finding = TRUE, !.session = FALSE,
                              !.cur = NoRoom]
          \/ vc' = [v EXCEPT !.parting = FALSE]
      BY <1>2 DEF vars, ServerReceives, CancelEnds, Match, PartnerLeaves, GraceEnds, Drop,
         Reconnect, GraceTimer, SocketGivesUp, PendingJoin, SearchTimeout, DebounceEnds, Start,
         Stop, Leave, FindNext, MediaReady, PartnerLeft
    <3> HIDE DEF v
    <3>3. CASE vc' = v \/ vc' = [v EXCEPT !.parting = FALSE]
      BY <3>1, <3>3 DEF Screen
    <3>4. CASE ~(vc' = v \/ vc' = [v EXCEPT !.parting = FALSE])
      BY <1>1, <3>2, <3>4 DEF Screen
    <3> QED BY <3>3, <3>4
  <2>5. vc.cur \in srv'.bots <=> vc.cur \in srv.bots
    <3>1. CASE Match
      <4> DEFINE r == srv.rooms + 1
      <4>1. \E b \in BOOLEAN :
              srv' = [srv EXCEPT !.st = "room", !.room = r, !.rooms = r,
                                 !.bots = IF b THEN srv.bots ELSE srv.bots \cup {r}]
        BY <3>1 DEF Match
      <4>2. srv'.bots \in {srv.bots, srv.bots \cup {r}}
        BY <1>1, <4>1 DEF Server
      <4>3. vc.cur # r
        BY <1>1, Rooms DEF Numbered, Server, Screen, NoRoom
      <4> QED BY <4>2, <4>3
    <3>2. CASE ~Match
      <4>1. srv'.bots = srv.bots
        <5> DEFINE s == IF srv.st = "room" THEN srv ELSE Idle(srv)
        <5>1. /\ Idle(srv).bots = srv.bots /\ Idle(srv) \in Server
          BY <1>1 DEF Idle, Server, NoRoom
        <5>2. s \in Server /\ s.bots = srv.bots
          BY <1>1, <5>1
        <5>3. \/ srv' \in {srv, Idle(srv)}
              \/ srv' = [srv EXCEPT !.st = "queue"]
              \/ srv' = [srv EXCEPT !.st = "idle"]
              \/ srv' = [srv EXCEPT !.cancelling = srv.st = "queue"]
              \/ srv' = [srv EXCEPT !.cancelling = FALSE, !.st = "idle"]
              \/ srv' = [Idle(srv) EXCEPT !.held = FALSE]
              \/ srv' = [s EXCEPT !.cancelling = FALSE, !.held = srv.st = "room"]
              \/ srv' = [srv EXCEPT !.held = FALSE]
          BY <1>2, <3>2 DEF vars, ServerReceives, ServerJoins, ServerLeaves, ServerCancels,
             CancelEnds, PartnerLeaves, GraceEnds, Drop, Reconnect, GraceTimer, SocketGivesUp,
             PendingJoin, SearchTimeout, DebounceEnds, Start, Stop, Leave, FindNext, MediaReady,
             PartnerLeft, Click
        <5> HIDE DEF s
        <5> QED BY <1>1, <5>1, <5>2, <5>3 DEF Server
      <4> QED BY <4>1
    <3> QED BY <3>1, <3>2
  <2> QED BY <2>1, <2>2, <2>3, <2>4, <2>5, CallsKept
<1>3. CASE EndFinishes \/ NextFinishes
  <2>1. /\ vc.leaving # "no" /\ vc' = [vc EXCEPT !.rtc = NoRoom, !.leaving = "no"]
        /\ matched' = matched /\ srv' = srv
        /\ LeaveRtc(LeftRooms(mm)) \/ LeaveRtc({})
    BY <1>3 DEF EndFinishes, NextFinishes
  <2>2. /\ vc'.session = vc.session /\ vc'.rtc = NoRoom /\ vc'.initing = vc.initing
        /\ vc'.leaving = "no"
    BY <1>1, <2>1 DEF Screen
  <2>3. LeftRooms(mm) \subseteq Room
    BY <1>1, LeaveRoomGives
  <2>4. /\ ghost'.failed = ghost.failed
        /\ ghost'.stray <=> matched # {} /\ (ghost.stray \/ vc.initing)
    BY <2>1, <2>3, LeaveRtcGives
  <2>5. ~vc.session /\ (vc.initing => \E t \in matched : t.at = "join")
    BY <2>1 DEF Calls, OneSession
  <2>6. OneSession'
    BY <2>1, <2>2, <2>5 DEF OneSession
  <2>7. ASSUME ~ghost'.stray PROVE OneSetUp'
    <3>1. Expected' = NoRoom
      BY <2>2, <2>5 DEF Expected
    <3>2. CASE matched = {}
      BY <2>1, <2>2, <3>1, <3>2 DEF OneSetUp
    <3>3. CASE matched # {}
      <4>1. ~vc.initing /\ OneSetUp
        BY <2>4, <2>7, <3>3 DEF Calls
      <4> QED BY <2>1, <2>2, <2>4, <3>3, <4>1 DEF OneSetUp
    <3> QED BY <3>2, <3>3
  <2> QED BY <2>6, <2>7 DEF Calls
<1> QED BY <1>2, <1>3, ReceivesCalls, SetUpCalls DEF Next, Proceeds

LEMMA InitCalls == Init => Numbered /\ Calls
<1> SUFFICES ASSUME Init PROVE Numbered /\ Calls
  OBVIOUS
<1>1. /\ ~vc.session /\ vc.leaving = "no" /\ ~vc.initing /\ vc.rtc = NoRoom
      /\ vc.cur = NoRoom /\ srv.rooms = 0 /\ srv.room = NoRoom /\ srv.bots = {}
      /\ matched = {} /\ down = <<>>
  BY DEF Init
<1>2. Numbered
  BY <1>1 DEF Numbered, NoRoom
<1> QED BY <1>1, <1>2 DEF Calls, OneSession, OneSetUp, Expected

\* Whatever messages, drops, clicks, faults and timers do between its awaits, useVideoChat
\* ends with the call of the session it shows, and with none when that session has none; and
\* where it does not, a set-up has outlived its session or met another, or a bot came over a
\* call.
THEOREM CallOfTheSession == Spec => []CallFollowsSession
<1> DEFINE Inv == TypeOK /\ Housed /\ Numbered /\ Calls
<1>1. Init => Inv
  BY InitTyped, InitCalls
<1>2. Inv /\ [Next]_vars => Inv'
  BY NextTyped, NextNumbered, NextCalls
<1>3. Inv => CallFollowsSession
  BY DEF Calls, OneSetUp, Expected, CallFollowsSession, Settled
<1> QED BY <1>1, <1>2, <1>3, PTL DEF Spec

-----------------------------------------------------------------------------
(* The machine comes to agree with the server.                              *)

\* A handshake that says that the session was not resumed is under way.
Renewed(d) == \E i \in DOMAIN d : d[i].type = "connected" /\ ~d[i].resumed

\* The room that the machine keeps when it has read the handshake.
Kept(m, d) == IF m.reconnecting /\ Renewed(d) THEN NoRoom ELSE m.match

\* The messages that give the machine a room or take it, and the room they leave.
Sets(x) == x.type \in {"matched", "reconnected", "left", "partner_left", "cancelled"}
After(x) == IF x.type \in {"matched", "reconnected"} THEN x.room ELSE NoRoom

\* After message i, or from here on, no message sets the room.
Rest(d, i) == \A j \in DOMAIN d : j > i => ~Sets(d[j])
Silent(d) == \A j \in DOMAIN d : ~Sets(d[j])

\* Having read everything under way, the machine has room r.
Foresees(m, d, r) ==
    \/ Silent(d) /\ r = Kept(m, d)
    \/ \E i \in DOMAIN d : Sets(d[i]) /\ Rest(d, i) /\ r = After(d[i])

\* The last message under way tells the machine what to show, and it will show a search.
Told(d) == d # <<>> /\ Last(d).type # "connected"
Waits(m, d) ==
    IF Told(d) THEN Last(d).type = "searching"
    ELSE m.cs = "waiting" /\ ~(m.reconnecting /\ Renewed(d))

\* The machine searches, or is about to, with the room that it will have anyway.
Wishes(m, d) ==
    \/ (m.joining \/ m.cs = "waiting") /\ Silent(d)
    \/ \E i \in DOMAIN d : d[i].type = "searching" /\ Rest(d, i)

Asked(u, request) == \E i \in DOMAIN u : u[i] = request

\* While the socket is down nothing is under way, and the machine keeps a room only for a
\* resume.
Away ==
    /\ srv.held => ~mm.up
    /\ ~mm.up =>
         /\ up = <<>> /\ down = <<>> /\ srv.st # "queue" /\ mm.cs # "waiting"
         /\ ~srv.cancelling
         /\ ~srv.held => srv.st = "idle"
         /\ srv.st # "room" => srv.room = NoRoom
         /\ ~mm.reconnecting => mm.match = NoRoom

Placed == srv.st = "queue" => srv.room = NoRoom

\* The handshake comes first.
Ordered == \A i \in DOMAIN down : down[i].type = "connected" => i = 1

\* While the socket is up, a machine that waits for a resume is going to be told.
Resolves(x) ==
    \/ x.type \in {"left", "partner_left", "reconnected", "matched"}
    \/ x.type = "connected" /\ ~x.resumed
Resumes == mm.up /\ mm.reconnecting => \E i \in DOMAIN down : Resolves(down[i])

\* A machine that searches over a room still has the join under way, or had it refused.
Asks ==
    mm.up /\ Wishes(mm, down) /\ (\E r \in Room : Foresees(mm, down, r)) =>
        Asked(up, "join") \/ srv.room \in ghost.lost

\* The machine will have the server's room, unless it has left, or joins, on its own, or the
\* room has met a join or a cancel.
Excused == Asked(up, "leave") \/ Asked(up, "join") \/ srv.room \in ghost.lost
Matches ==
    mm.up => \A r : Foresees(mm, down, r) => r = srv.room \/ (r = NoRoom /\ Excused)

\* The machine will be waiting as the server is, unless a join or a cancel is under way.
Waiting ==
    mm.up => \/ Waits(mm, down) <=> srv.st = "queue"
             \/ Asked(up, "join")
             \/ ~Waits(mm, down) /\ (Asked(up, "cancel") \/ srv.cancelling)

Agreement == Away /\ Placed /\ Ordered /\ Resumes /\ Asks /\ Matches /\ Waiting

\* A machine that is told nothing has at most the handshake to read.
LEMMA NothingTold ==
    ASSUME TypeOK, Ordered, ~Told(down)
    PROVE  Silent(down) /\ \A i \in DOMAIN down : i = 1 /\ down[i].type = "connected"
<1>1. CASE down = <<>>
  BY <1>1 DEF Silent
<1>2. CASE down # <<>>
  <2> DEFINE n == Len(down)
  <2>1. n \in Nat /\ n >= 1 /\ DOMAIN down = 1..n /\ Last(down) = down[n]
    BY <1>2 DEF TypeOK, Last
  <2>2. n \in DOMAIN down /\ down[n].type = "connected"
    BY <1>2, <2>1 DEF Told
  <2>3. n = 1
    BY <2>2 DEF Ordered
  <2>4. \A i \in 1..1 : i = 1
    OBVIOUS
  <2> QED BY <2>1, <2>2, <2>3, <2>4 DEF Silent, Sets
<1> QED BY <1>1, <1>2

\* A request that has been sent is asked for, and those before it still are.
LEMMA AskedSent ==
    ASSUME NEW u \in Seq(Request), NEW x \in Request
    PROVE  LET t == Append(u, x) IN
           Asked(t, x) /\ \A y : Asked(u, y) => Asked(t, y)
<1>1. u \o <<x>> = Append(u, x)
  BY SentLast
<1> DEFINE t == Append(u, x)
<1>2. /\ DOMAIN t = 1..Len(u) + 1 /\ t[Len(u) + 1] = x /\ Len(u) + 1 \in 1..Len(u) + 1
      /\ \A i \in DOMAIN u : i \in DOMAIN t /\ t[i] = u[i]
  BY <1>1, SentLast
<1> HIDE DEF t
<1>3. Asked(t, x)
  BY <1>2 DEF Asked
<1>4. \A y : Asked(u, y) => Asked(t, y)
  BY <1>2 DEF Asked
<1> QED BY <1>3, <1>4 DEF t

\* Of the requests under way only the first one can have been served.
LEMMA AskedServed ==
    ASSUME NEW u \in Seq(Request), u # <<>>, NEW y, Asked(u, y), y # Head(u)
    PROVE  Asked(Tail(u), y)
<1> DEFINE t == Tail(u)
<1>1. /\ Head(u) = u[1]
      /\ \A i \in DOMAIN u : i # 1 => i - 1 \in DOMAIN t /\ t[i - 1] = u[i]
  BY Received
<1> HIDE DEF t
<1>2. PICK i \in DOMAIN u : u[i] = y
  BY DEF Asked
<1>3. i # 1
  BY <1>1, <1>2
<1>4. i - 1 \in DOMAIN t /\ t[i - 1] = y
  BY <1>1, <1>2, <1>3
<1>5. Asked(t, y)
  BY <1>4 DEF Asked
<1> QED BY <1>5 DEF t

\* What the machine foresees when one more message is under way.
LEMMA SentForesees ==
    ASSUME NEW d \in Seq(Message), NEW x \in Message, x.type # "connected",
           NEW m, NEW e, e = d \o <<x>>
    PROVE  /\ Told(e) /\ (Waits(m, e) <=> x.type = "searching")
           /\ Kept(m, e) = Kept(m, d)
           /\ Sets(x) => ~Wishes(m, e) /\ \A r : Foresees(m, e, r) => r = After(x)
           /\ ~Sets(x) => \A r : Foresees(m, e, r) => Foresees(m, d, r)
           /\ (\A i \in DOMAIN d : d[i].type = "connected" => i = 1)
                => (\A i \in DOMAIN e : e[i].type = "connected" => i = 1)
           /\ (\E i \in DOMAIN d : Resolves(d[i])) => \E i \in DOMAIN e : Resolves(e[i])
<1> DEFINE n == Len(d) + 1
<1>1. /\ e # <<>> /\ Last(e) = x /\ n \in DOMAIN e /\ e[n] = x
      /\ \A i \in DOMAIN d : i \in DOMAIN e /\ e[i] = d[i] /\ n > i
      /\ \A i \in DOMAIN e : i \in DOMAIN d \/ i = n
  <2>1. n \in 1..n /\ n \in Nat /\ \A i \in DOMAIN d : n > i
    OBVIOUS
  <2> QED BY <2>1, SentLast
<1> HIDE DEF n
<1>2. Told(e) /\ (Waits(m, e) <=> x.type = "searching")
  BY <1>1 DEF Told, Waits
<1>3. Renewed(e) <=> Renewed(d)
  BY <1>1 DEF Renewed
<1>4. Kept(m, e) = Kept(m, d)
  BY <1>3 DEF Kept
<1>5. ASSUME Sets(x)
      PROVE  ~Wishes(m, e) /\ \A r : Foresees(m, e, r) => r = After(x)
  <2>1. ~Silent(e) /\ \A i \in DOMAIN e : Rest(e, i) => i = n
    BY <1>1, <1>5 DEF Silent, Rest
  <2>2. x.type # "searching"
    BY <1>5 DEF Sets
  <2>3. ~Wishes(m, e)
    BY <1>1, <2>1, <2>2 DEF Wishes
  <2>4. \A r : Foresees(m, e, r) => r = After(x)
    BY <1>1, <2>1 DEF Foresees
  <2> QED BY <2>3, <2>4
<1>6. ASSUME ~Sets(x), NEW r, Foresees(m, e, r)
      PROVE  Foresees(m, d, r)
  <2>1. CASE Silent(e) /\ r = Kept(m, e)
    <3>1. Silent(d)
      BY <1>1, <2>1 DEF Silent
    <3> QED BY <1>4, <2>1, <3>1 DEF Foresees
  <2>2. CASE \E i \in DOMAIN e : Sets(e[i]) /\ Rest(e, i) /\ r = After(e[i])
    <3>1. PICK i \in DOMAIN e : Sets(e[i]) /\ Rest(e, i) /\ r = After(e[i])
      BY <2>2
    <3>2. i \in DOMAIN d /\ e[i] = d[i]
      BY <1>1, <1>6, <3>1
    <3>3. Rest(d, i)
      BY <1>1, <3>1 DEF Rest
    <3> QED BY <3>1, <3>2, <3>3 DEF Foresees
  <2> QED BY <1>6, <2>1, <2>2 DEF Foresees
<1>7. (\A i \in DOMAIN d : d[i].type = "connected" => i = 1)
        => (\A i \in DOMAIN e : e[i].type = "connected" => i = 1)
  BY <1>1
<1>8. (\E i \in DOMAIN d : Resolves(d[i])) => \E i \in DOMAIN e : Resolves(e[i])
  BY <1>1
<1> QED BY <1>2, <1>4, <1>5, <1>6, <1>7, <1>8

-----------------------------------------------------------------------------
(* The server's steps.                                                      *)

\* A message that sets the room is sent.
LEMMA TellsAgrees ==
    ASSUME TypeOK, Agreement, mm.up, NEW x \in Message, Sets(x),
           down' = down \o <<x>>, mm' = mm, ~srv'.held, srv'.st # "queue",
           After(x) = srv'.room \/ (After(x) = NoRoom /\ srv'.room \in ghost'.lost)
    PROVE  Agreement'
<1>1. x.type \notin {"connected", "searching"} /\ down \in Seq(Message)
  BY DEF Sets, TypeOK
<1>2. /\ ~Waits(mm, down') /\ ~Wishes(mm, down')
      /\ \A r : Foresees(mm, down', r) => r = After(x)
  BY <1>1, SentForesees
<1>3. Ordered' /\ Resumes'
  BY <1>1, SentForesees DEF Agreement, Ordered, Resumes
<1>4. Away' /\ Placed' /\ Asks'
  BY <1>2 DEF Away, Placed, Asks
<1>5. Matches' /\ Waiting'
  BY <1>2 DEF Matches, Waiting, Excused
<1> QED BY <1>3, <1>4, <1>5 DEF Agreement

\* A join is answered: by a search, or by an error that spoils the room.
LEMMA JoinedAgrees ==
    ASSUME TypeOK, Agreement, mm.up, NEW x \in Message, x.type \in {"searching", "error"},
           down' = down \o <<x>>, mm' = mm, ~srv'.held, srv'.room = srv.room,
           x.type = "searching" => srv.room = NoRoom /\ srv'.st = "queue",
           x.type = "error" => srv.room \in ghost'.lost /\ srv'.st = "idle"
    PROVE  Agreement'
<1>1. x.type # "connected" /\ ~Sets(x) /\ down \in Seq(Message)
  BY DEF Sets, TypeOK
<1>2. /\ Waits(mm, down') <=> x.type = "searching"
      /\ \A r : Foresees(mm, down', r) => Foresees(mm, down, r)
  BY <1>1, SentForesees
<1>3. Ordered' /\ Resumes'
  BY <1>1, SentForesees DEF Agreement, Ordered, Resumes
<1>4. Away' /\ Placed' /\ Waiting'
  BY <1>2 DEF Away, Placed, Waiting
<1>5. \A r : Foresees(mm, down', r) => r \in {srv.room, NoRoom}
  BY <1>2 DEF Agreement, Matches
<1>6. Matches'
  BY <1>5 DEF Matches, Excused
<1>7. Asks'
  <2>1. x.type = "searching" => \A r : Foresees(mm, down', r) => r \notin Room
    BY <1>5, Rooms
  <2> QED BY <2>1 DEF Asks
<1> QED BY <1>3, <1>4, <1>6, <1>7 DEF Agreement

\* A request that is served without an answer.
LEMMA ServedAgrees ==
    ASSUME TypeOK, Agreement, up # <<>>, up' = Tail(up), UNCHANGED <<down, mm, ghost>>,
           srv'.st = srv.st, srv'.room = srv.room, srv'.held = srv.held, ~srv.cancelling,
           \/ Head(up) = "leave" /\ srv.room = NoRoom
           \/ Head(up) = "cancel" /\ (srv.st = "queue" => srv'.cancelling)
    PROVE  Agreement'
<1>1. mm.up
  BY DEF Agreement, Away
<1>2. \A y : Asked(up, y) /\ y # Head(up) => Asked(up', y)
  BY AskedServed DEF TypeOK, Request
<1>3. Away' /\ Placed' /\ Ordered' /\ Resumes'
  BY <1>1 DEF Agreement, Away, Placed, Ordered, Resumes
<1>4. Asks'
  BY <1>2 DEF Agreement, Asks
<1>5. Matches'
  BY <1>1, <1>2 DEF Agreement, Matches, Excused
<1>6. Waiting'
  BY <1>1, <1>2 DEF Agreement, Waiting
<1> QED BY <1>3, <1>4, <1>5, <1>6 DEF Agreement

\* A step taken while the socket is down, or that takes it down.
LEMMA AwayAgrees ==
    ASSUME Away', Placed', ~mm'.up
    PROVE  Agreement'
<1>1. down' = <<>>
  BY DEF Away
<1>2. Ordered'
  BY <1>1 DEF Ordered
<1> QED BY <1>2 DEF Agreement, Resumes, Asks, Matches, Waiting

LEMMA ServerAgrees ==
    ASSUME TypeOK, Housed, Agreement,
           ServerReceives \/ CancelEnds \/ Match \/ PartnerLeaves \/ GraceEnds
    PROVE  Agreement'
<1>1. /\ srv \in Server /\ srv.rooms \in 0..MaxRooms /\ MaxRooms \in Nat /\ ghost \in Ghost
      /\ mm.up => ~srv.held
      /\ srv.st = "queue" => srv.room = NoRoom
  BY BoundsAssumption DEF TypeOK, Server, Agreement, Away, Placed
<1>2. /\ Idle(srv) \in Server /\ Idle(srv).st = "idle" /\ Idle(srv).room = NoRoom
      /\ Idle(srv).held = srv.held /\ Idle(srv).cancelling = srv.cancelling
  BY <1>1 DEF Idle, Server, NoRoom
<1>3. CASE ServerReceives
  <2>1. up # <<>> /\ up' = Tail(up) /\ UNCHANGED <<mm, vc, matched>> /\ mm.up /\ ~srv.cancelling
        /\ \/ Head(up) = "join" /\ ServerJoins
           \/ Head(up) = "leave" /\ ServerLeaves
           \/ Head(up) = "cancel" /\ ServerCancels
    BY <1>3 DEF ServerReceives, Agreement, Away
  <2>2. CASE ServerJoins /\ srv.room = NoRoom
    <3> DEFINE x == Say("searching")
    <3>1. srv' = [srv EXCEPT !.st = "queue"] /\ Send(<<x>>)
      BY <2>2 DEF ServerJoins
    <3>2. srv'.st = "queue" /\ srv'.room = srv.room /\ ~srv'.held
      BY <1>1, <2>1, <3>1 DEF Server
    <3>3. x \in Message /\ x.type = "searching"
      BY MessagesMade
    <3> HIDE DEF x
    <3>4. down' = down \o <<x>>
      BY <2>1, <3>1, <3>3, SendGives
    <3> QED BY <2>1, <2>2, <3>2, <3>3, <3>4, JoinedAgrees
  <2>3. CASE ServerJoins /\ srv.room # NoRoom
    <3> DEFINE x == Say("error")
    <3>1. srv' = [srv EXCEPT !.st = "idle"] /\ Send(<<x>>) /\ ghost' = LostRoom
      BY <2>3 DEF ServerJoins
    <3>2. srv'.st = "idle" /\ srv'.room = srv.room /\ ~srv'.held
      BY <1>1, <2>1, <3>1 DEF Server
    <3>3. x \in Message /\ x.type = "error"
      BY MessagesMade
    <3> HIDE DEF x
    <3>4. down' = down \o <<x>>
      BY <2>1, <3>1, <3>3, SendGives
    <3>5. srv.room \in ghost'.lost
      BY <2>3, <3>1, LostGives
    <3> QED BY <2>1, <3>2, <3>3, <3>4, <3>5, JoinedAgrees
  <2>4. CASE ServerLeaves /\ srv.room # NoRoom
    <3> DEFINE x == Say("left")
    <3>1. srv' = Idle(srv) /\ Send(<<x>>)
      BY <2>4 DEF ServerLeaves
    <3>2. x \in Message /\ Sets(x) /\ After(x) = NoRoom
      BY MessagesMade DEF After, Sets
    <3> HIDE DEF x
    <3>3. down' = down \o <<x>>
      BY <2>1, <3>1, <3>2, SendGives
    <3> QED BY <1>1, <1>2, <2>1, <3>1, <3>2, <3>3, TellsAgrees
  <2>5. CASE Head(up) = "leave" /\ ServerLeaves /\ srv.room = NoRoom
    <3>1. UNCHANGED <<srv, down, ghost>>
      BY <2>5 DEF ServerLeaves
    <3> QED BY <2>1, <2>5, <3>1, ServedAgrees
  <2>6. CASE Head(up) = "cancel" /\ ServerCancels
    <3>1. PICK b \in BOOLEAN : b = (srv.st = "queue")
      OBVIOUS
    <3>2. srv' = [srv EXCEPT !.cancelling = b] /\ UNCHANGED <<down, ghost>>
      BY <2>6, <3>1 DEF ServerCancels
    <3>3. srv'.st = srv.st /\ srv'.room = srv.room /\ srv'.held = srv.held
          /\ srv'.cancelling = b
      BY <1>1, <3>2 DEF Server
    <3> QED BY <2>1, <2>6, <3>1, <3>2, <3>3, ServedAgrees
  <2> QED BY <2>1, <2>2, <2>3, <2>4, <2>5, <2>6
<1>a. CASE CancelEnds
  <2> DEFINE x == Say("cancelled")
  <2>1. /\ srv' = [srv EXCEPT !.cancelling = FALSE, !.st = "idle"] /\ Send(<<x>>)
        /\ ghost' = LostRoom /\ UNCHANGED <<up, mm, vc, matched>> /\ srv.cancelling
    BY <1>a DEF CancelEnds
  <2>2. x \in Message /\ Sets(x) /\ After(x) = NoRoom
    BY MessagesMade DEF After, Sets
  <2> HIDE DEF x
  <2>3. mm.up
    BY <2>1 DEF Agreement, Away
  <2>4. srv'.st = "idle" /\ srv'.room = srv.room /\ ~srv'.held
    BY <1>1, <2>1, <2>3 DEF Server
  <2>5. down' = down \o <<x>>
    BY <2>1, <2>2, <2>3, SendGives
  <2>6. srv.room # NoRoom => srv.room \in ghost'.lost
    BY <2>1, LostGives
  <2> QED BY <2>1, <2>2, <2>3, <2>4, <2>5, <2>6, TellsAgrees
<1>4. CASE Match
  <2> DEFINE r == srv.rooms + 1
  <2>1. srv.rooms < MaxRooms /\ srv.st = "queue" /\ UNCHANGED <<up, mm, vc, matched, ghost>>
    BY <1>4 DEF Match
  <2>2. PICK b \in BOOLEAN :
          /\ srv' = [srv EXCEPT !.st = "room", !.room = r, !.rooms = r,
                                !.bots = IF b THEN srv.bots ELSE srv.bots \cup {r}]
          /\ Send(<<SayRoom("matched", r, b)>>)
    BY <1>4 DEF Match
  <2>3. r \in Room
    BY <1>1, <2>1 DEF Room
  <2> HIDE DEF r
  <2> DEFINE x == SayRoom("matched", r, b)
  <2>4. mm.up
    BY <2>1 DEF Agreement, Away
  <2>5. x \in Message /\ x.type = "matched" /\ x.room = r
    BY <2>3, MessagesMade
  <2>6. srv'.st = "room" /\ srv'.room = r /\ ~srv'.held
    BY <1>1, <2>2, <2>4 DEF Server
  <2>7. Send(<<x>>)
    BY <2>2
  <2> HIDE DEF x
  <2>8. down' = down \o <<x>>
    BY <2>4, <2>5, <2>7, SendGives
  <2>9. Sets(x) /\ After(x) = r
    BY <2>5 DEF Sets, After
  <2> QED BY <2>1, <2>4, <2>5, <2>6, <2>8, <2>9, TellsAgrees
<1>5. CASE PartnerLeaves
  <2>1. PICK w \in {"partner_left", "left"} : Send(<<Say(w)>>)
    BY <1>5 DEF PartnerLeaves
  <2> DEFINE x == Say(w)
  <2>2. srv' = Idle(srv) /\ Send(<<x>>) /\ UNCHANGED <<up, mm, vc, matched, ghost>>
        /\ srv.room # NoRoom
    BY <1>5, <2>1 DEF PartnerLeaves
  <2>3. x \in Message /\ Sets(x) /\ After(x) = NoRoom
    BY MessagesMade DEF After, Sets
  <2> HIDE DEF x
  <2>4. CASE mm.up
    <3>1. down' = down \o <<x>>
      BY <2>2, <2>3, <2>4, SendGives
    <3> QED BY <1>1, <1>2, <2>2, <2>3, <2>4, <3>1, TellsAgrees
  <2>5. CASE ~mm.up
    <3>1. down' = down
      BY <2>2, <2>3, <2>5, SendGives
    <3>2. Away' /\ Placed'
      BY <1>2, <2>2, <2>5, <3>1 DEF Agreement, Away, Placed
    <3> QED BY <2>2, <2>5, <3>2, AwayAgrees
  <2> QED BY <2>4, <2>5
<1>6. CASE GraceEnds
  <2>1. srv' = [Idle(srv) EXCEPT !.held = FALSE] /\ UNCHANGED <<up, down, mm, vc, matched, ghost>>
        /\ srv.held
    BY <1>6 DEF GraceEnds
  <2>2. srv'.st = "idle" /\ srv'.room = NoRoom /\ ~srv'.held
        /\ srv'.cancelling = srv.cancelling
    BY <1>2, <2>1 DEF Server
  <2>3. ~mm.up
    BY <1>1, <2>1
  <2>4. Away' /\ Placed'
    BY <2>1, <2>2, <2>3 DEF Agreement, Away, Placed
  <2> QED BY <2>1, <2>3, <2>4, AwayAgrees
<1> QED BY <1>3, <1>a, <1>4, <1>5, <1>6

-----------------------------------------------------------------------------
(* The socket's steps.                                                      *)

LEMMA DropAgrees == ASSUME TypeOK, Agreement, Drop PROVE Agreement'
<1> DEFINE s == IF srv.st = "room" THEN srv ELSE Idle(srv)
<1>1. /\ mm \in Machine /\ srv \in Server
      /\ \/ /\ mm.cs = "matched" /\ mm.match # NoRoom
            /\ mm' = [mm EXCEPT !.up = FALSE, !.reconnecting = TRUE,
                                !.grace = mm.grace \/ ~mm.reconnecting]
         \/ mm' = [mm EXCEPT !.up = FALSE, !.cs = "disconnected", !.match = NoRoom]
      /\ srv' = [s EXCEPT !.cancelling = FALSE, !.held = srv.st = "room"]
      /\ up' = <<>> /\ down' = <<>>
  BY DEF Drop, TypeOK
<1>2. /\ ~mm'.up /\ mm'.cs # "waiting"
      /\ ~mm'.reconnecting => mm'.match = NoRoom
  BY <1>1 DEF Machine
<1>3. s \in Server /\ (s.st = "room" <=> srv.st = "room")
      /\ (s.st # "room" => s.room = NoRoom /\ s.st = "idle")
  BY <1>1 DEF Server, Idle, NoRoom
<1>4. PICK b \in BOOLEAN : b = (srv.st = "room")
  OBVIOUS
<1> HIDE DEF s
<1>5. srv'.st = s.st /\ srv'.room = s.room /\ srv'.held = b /\ ~srv'.cancelling
  BY <1>1, <1>3, <1>4 DEF Server
<1>6. Away' /\ Placed'
  BY <1>1, <1>2, <1>3, <1>4, <1>5 DEF Away, Placed
<1> QED BY <1>2, <1>6, AwayAgrees

LEMMA ReconnectAgrees == ASSUME TypeOK, TypeOK', Housed, Agreement, Reconnect PROVE Agreement'
<1>1. /\ mm \in Machine /\ srv \in Server /\ ~mm.up /\ up' = up /\ up = <<>>
      /\ srv.st # "queue" /\ mm.cs # "waiting" /\ (~srv.held => srv.st = "idle")
      /\ ~mm.reconnecting => mm.match = NoRoom
      /\ srv.st # "room" => srv.room = NoRoom
      /\ srv.st = "room" => srv.room \in Room
  BY DEF Reconnect, TypeOK, Agreement, Away, Placed, Housed, Server
<1>2. /\ mm'.up /\ mm'.reconnecting = mm.reconnecting /\ mm'.match = mm.match
      /\ mm'.joining = mm.joining /\ mm'.cs # "waiting"
  BY <1>1 DEF Reconnect, Machine
<1>3. srv'.st = srv.st /\ srv'.room = srv.room /\ ~srv'.held
  BY <1>1 DEF Reconnect, Server
<1>4. Away' /\ Placed'
  BY <1>1, <1>2, <1>3 DEF Away, Placed
<1>5. CASE ~srv.held
  <2> DEFINE x == SayConnected(FALSE)
  <2>1. down' = <<x>> /\ x.type = "connected" /\ x.resumed = FALSE
    BY <1>5, MessagesMade DEF Reconnect
  <2> HIDE DEF x
  <2>2. /\ DOMAIN down' = {1} /\ down'[1] = x /\ Last(down') = x
    BY <2>1 DEF Last
  <2>3. ~Told(down') /\ Renewed(down') /\ Kept(mm', down') = NoRoom /\ ~Sets(x)
    BY <1>1, <1>2, <2>1, <2>2 DEF Told, Renewed, Kept, Sets
  <2>4. Ordered' /\ Resumes'
    BY <2>1, <2>2 DEF Ordered, Resumes, Resolves
  <2>5. \A r : Foresees(mm', down', r) => r = NoRoom
    BY <2>2, <2>3 DEF Foresees
  <2>6. ~Waits(mm', down')
    BY <1>2, <2>3 DEF Waits
  <2>7. Asks'
    BY <2>5, Rooms DEF Asks
  <2>8. Matches' /\ Waiting'
    BY <1>1, <1>3, <1>5, <2>5, <2>6 DEF Matches, Waiting
  <2> QED BY <1>4, <2>4, <2>7, <2>8 DEF Agreement
<1>6. CASE srv.held
  <2> DEFINE b == srv.room \notin srv.bots
             x == SayConnected(TRUE)
             y == IF srv.st = "room" THEN SayRoom("reconnected", srv.room, b) ELSE Say("left")
  <2>1. down' = <<x, y>> /\ x.type = "connected" /\ x.resumed = TRUE
    BY <1>6, MessagesMade DEF Reconnect
  <2>b. b \in BOOLEAN
    OBVIOUS
  <2> HIDE DEF b
  <2>2. /\ y.type = IF srv.st = "room" THEN "reconnected" ELSE "left"
        /\ After(y) = srv.room
    BY <1>1, <2>b, MessagesMade DEF After
  <2> HIDE DEF x, y
  <2>3. /\ DOMAIN down' = {1, 2} /\ down'[1] = x /\ down'[2] = y /\ Last(down') = y
        /\ down' # <<>>
    BY <2>1 DEF Last
  <2>4. Sets(y) /\ ~Sets(x)
    BY <2>1, <2>2 DEF Sets
  <2>5. Told(down') /\ ~Waits(mm', down')
    BY <2>2, <2>3 DEF Told, Waits
  <2>6. Ordered' /\ Resumes'
    BY <2>1, <2>2, <2>3 DEF Ordered, Resumes, Resolves
  <2>7. ~Silent(down') /\ \A i \in DOMAIN down' : Rest(down', i) => i = 2
    BY <2>3, <2>4 DEF Silent, Rest
  <2>8. \A r : Foresees(mm', down', r) => r = srv.room
    BY <2>2, <2>3, <2>7 DEF Foresees
  <2>9. ~Wishes(mm', down')
    BY <2>2, <2>3, <2>7 DEF Wishes
  <2> QED BY <1>1, <1>3, <1>4, <2>5, <2>6, <2>8, <2>9 DEF Agreement, Asks, Matches, Waiting
<1> QED BY <1>5, <1>6

-----------------------------------------------------------------------------
(* The client's own steps.                                                  *)

\* A step of the client that the server hears of at most by what it asks for.
LEMMA LocalAgrees ==
    ASSUME TypeOK, Agreement, mm.up, mm'.up, srv' = srv, down' = down,
           ghost.lost \subseteq ghost'.lost,
           \A y : Asked(up, y) => Asked(up', y),
           mm'.reconnecting => mm.reconnecting,
           Kept(mm', down) \in {Kept(mm, down), NoRoom},
           Silent(down) => Kept(mm', down) = Kept(mm, down) \/ Excused',
           Wishes(mm', down) => Wishes(mm, down) \/ Asked(up', "join"),
           ~Told(down) => \/ Waits(mm', down) <=> Waits(mm, down)
                          \/ Asked(up', "join")
                          \/ ~Waits(mm', down) /\ (Asked(up', "cancel") \/ srv.st # "queue")
    PROVE  Agreement'
<1>1. Away' /\ Placed' /\ Ordered' /\ Resumes'
  BY DEF Agreement, Away, Placed, Ordered, Resumes
<1>2. Told(down) => (Waits(mm', down) <=> Waits(mm, down))
  BY DEF Waits
<1>3. \A r : Foresees(mm', down, r) =>
               Foresees(mm, down, r) \/ (Silent(down) /\ r = Kept(mm', down))
  BY DEF Foresees
<1>4. \A r : Silent(down) /\ r = Kept(mm, down) => Foresees(mm, down, r)
  BY DEF Foresees
<1>5. Excused => Excused'
  BY DEF Excused
<1>6. Matches'
  <2> SUFFICES ASSUME NEW r, Foresees(mm', down, r)
               PROVE  r = srv.room \/ (r = NoRoom /\ Excused')
    BY DEF Matches, Excused
  <2>1. CASE Foresees(mm, down, r)
    BY <1>5, <2>1 DEF Agreement, Matches
  <2>2. CASE Silent(down) /\ r = Kept(mm', down) /\ ~Foresees(mm, down, r)
    BY <1>4, <2>2
  <2> QED BY <1>3, <2>1, <2>2
<1>7. Asks'
  <2> SUFFICES ASSUME Wishes(mm', down), NEW r \in Room, Foresees(mm', down, r)
               PROVE  Asked(up', "join") \/ srv.room \in ghost'.lost
    BY DEF Asks
  <2>1. CASE Wishes(mm, down)
    <3>1. Foresees(mm, down, r)
      BY <1>3, <1>4, Rooms
    <3> QED BY <2>1, <3>1 DEF Agreement, Asks
  <2> QED BY <2>1
<1>8. Waiting'
  BY <1>2 DEF Agreement, Waiting
<1> QED BY <1>1, <1>6, <1>7, <1>8 DEF Agreement

\* A step that leaves alone what the server and the machine know of each other.
LEMMA FrameAgrees ==
    ASSUME TypeOK, Agreement, UNCHANGED <<srv, up, down>>, ghost.lost \subseteq ghost'.lost,
           mm'.up = mm.up, mm'.cs = mm.cs, mm'.match = mm.match, mm'.joining = mm.joining,
           mm'.reconnecting = mm.reconnecting
    PROVE  Agreement'
<1>1. Away' /\ Placed'
  BY DEF Agreement, Away, Placed
<1>2. CASE mm.up
  <2>1. /\ Kept(mm', down) = Kept(mm, down) /\ (Waits(mm', down) <=> Waits(mm, down))
        /\ Wishes(mm', down) => Wishes(mm, down)
    BY DEF Kept, Waits, Wishes
  <2> QED BY <1>2, <2>1, LocalAgrees
<1>3. CASE ~mm.up
  BY <1>1, <1>3, AwayAgrees
<1> QED BY <1>2, <1>3

\* A join, by a machine m that is the client's but for its pending join.
LEMMA JoinAgrees ==
    ASSUME TypeOK, Agreement, NEW m \in Machine, m.up = mm.up, m.match = mm.match,
           m.joining = mm.joining, m.reconnecting = mm.reconnecting,
           DoJoin(m, up), srv' = srv, down' = down, ghost'.lost = ghost.lost
    PROVE  Agreement'
<1>1. up \in Seq(Request) /\ m.up \in BOOLEAN
  BY DEF TypeOK, Request, Machine
<1>2. /\ mm'.up = mm.up /\ mm'.match = mm.match /\ mm'.reconnecting = mm.reconnecting
      /\ mm.up => mm'.cs = "waiting" /\ mm'.joining /\ up' = Append(up, "join")
      /\ ~mm.up => mm'.cs = "connecting" /\ mm'.joining = mm.joining /\ up' = up
  BY <1>1, DoJoinGives
<1>3. CASE mm.up
  <2>1. Asked(up', "join") /\ \A y : Asked(up, y) => Asked(up', y)
    BY <1>1, <1>2, <1>3, AskedSent DEF Request
  <2>2. Kept(mm', down) = Kept(mm, down)
    BY <1>2 DEF Kept
  <2> QED BY <1>2, <1>3, <2>1, <2>2, LocalAgrees
<1>4. CASE ~mm.up
  <2>1. Away' /\ Placed'
    BY <1>2, <1>4 DEF Agreement, Away, Placed
  <2> QED BY <1>2, <1>4, <2>1, AwayAgrees
<1> QED BY <1>3, <1>4

\* leaveRoom.
LEMMA LeaveAgrees ==
    ASSUME TypeOK, Agreement, mm' = LeaveRoom(mm), up' = up \o LeaveMessages(mm),
           srv' = srv, down' = down, ghost'.lost = ghost.lost
    PROVE  Agreement'
<1>1. mm \in Machine /\ up \in Seq(Request)
  BY DEF TypeOK, Request
<1>2. /\ mm'.up = mm.up /\ mm'.joining = mm.joining
      /\ \/ mm' = mm /\ LeaveMessages(mm) = <<>>
         \/ /\ mm.match # NoRoom /\ mm'.match = NoRoom /\ ~mm'.reconnecting
            /\ mm'.cs \notin {"waiting", "matched"}
            /\ LeaveMessages(mm) = IF mm.up THEN <<"leave">> ELSE <<>>
  BY <1>1, LeaveRoomGives
<1>3. up \o <<>> = up
  BY <1>1
<1>4. CASE mm' = mm /\ LeaveMessages(mm) = <<>>
  BY <1>3, <1>4, FrameAgrees
<1>5. CASE /\ mm.match # NoRoom /\ mm'.match = NoRoom /\ ~mm'.reconnecting
           /\ mm'.cs \notin {"waiting", "matched"}
           /\ LeaveMessages(mm) = IF mm.up THEN <<"leave">> ELSE <<>>
  <2>1. CASE ~mm.up
    <3>1. Away' /\ Placed'
      BY <1>2, <1>3, <1>5, <2>1 DEF Agreement, Away, Placed
    <3> QED BY <1>2, <2>1, <3>1, AwayAgrees
  <2>2. CASE mm.up
    <3>1. up' = Append(up, "leave")
      BY <1>1, <1>5, <2>2, SentLast DEF Request
    <3>2. Asked(up', "leave") /\ \A y : Asked(up, y) => Asked(up', y)
      BY <1>1, <3>1, AskedSent DEF Request
    <3>3. /\ Kept(mm', down) = NoRoom /\ Excused'
          /\ Wishes(mm', down) => Wishes(mm, down)
      BY <1>2, <1>5, <3>2 DEF Kept, Excused, Wishes
    <3>4. ~Told(down) => ~Waits(mm', down) /\ (~Waits(mm, down) \/ Asked(up', "join"))
      <4>1. ~Told(down) => ~Waits(mm', down)
        BY <1>5 DEF Waits
      <4>2. ASSUME ~Told(down), Waits(mm, down) PROVE Asked(up, "join")
        <5>1. mm.cs = "waiting" /\ Kept(mm, down) = mm.match
          BY <4>2 DEF Waits, Kept
        <5>2. Silent(down)
          BY <4>2, NothingTold DEF Agreement
        <5>3. Foresees(mm, down, mm.match)
          BY <5>1, <5>2 DEF Foresees
        <5>4. mm.match = srv.room
          BY <1>5, <2>2, <5>3 DEF Agreement, Matches
        <5>5. srv.st # "queue"
          BY <1>5, <5>4 DEF Agreement, Placed
        <5> QED BY <2>2, <4>2, <5>5 DEF Agreement, Waiting
      <4> QED BY <3>2, <4>1, <4>2
    <3> QED BY <1>2, <1>5, <2>2, <3>2, <3>3, <3>4, LocalAgrees
  <2> QED BY <2>1, <2>2
<1> QED BY <1>2, <1>4, <1>5

\* The search ends: by its timer, or because the user stops it.
LEMMA StopAgrees ==
    ASSUME TypeOK, Agreement, mm'.up = mm.up, mm'.cs = "connected", mm'.match = NoRoom,
           ~mm'.joining, mm'.reconnecting = mm.reconnecting,
           up' = IF mm.up THEN Append(up, "cancel") ELSE up, srv' = srv, down' = down,
           ghost'.lost = ghost.lost, mm.joining \/ mm.cs = "waiting"
    PROVE  Agreement'
<1>1. mm \in Machine /\ up \in Seq(Request)
  BY DEF TypeOK, Request
<1>2. CASE mm.up
  <2>1. Asked(up', "cancel") /\ \A y : Asked(up, y) => Asked(up', y)
    BY <1>1, <1>2, AskedSent DEF Request
  <2>2. /\ Kept(mm', down) = NoRoom
        /\ Wishes(mm', down) => Wishes(mm, down)
    BY DEF Kept, Wishes
  <2>3. ~Told(down) => ~Waits(mm', down)
    BY DEF Waits
  <2>4. Silent(down) => Kept(mm, down) = NoRoom \/ Excused'
    <3> SUFFICES ASSUME Silent(down), Kept(mm, down) # NoRoom PROVE Excused'
      OBVIOUS
    <3>1. Wishes(mm, down) /\ Foresees(mm, down, Kept(mm, down))
      BY DEF Wishes, Foresees
    <3>2. Kept(mm, down) \in Room
      BY <1>1 DEF Kept, Machine
    <3>3. Asked(up, "join") \/ srv.room \in ghost.lost
      BY <1>2, <3>1, <3>2 DEF Agreement, Asks
    <3> QED BY <2>1, <3>3 DEF Excused
  <2> QED BY <1>2, <2>1, <2>2, <2>3, <2>4, LocalAgrees
<1>3. CASE ~mm.up
  <2>1. Away' /\ Placed'
    BY <1>3 DEF Agreement, Away, Placed
  <2> QED BY <1>3, <2>1, AwayAgrees
<1> QED BY <1>2, <1>3

\* giveUpSession of a machine that waits for a resume.
LEMMA GivenUpAgrees ==
    ASSUME TypeOK, Agreement, mm.reconnecting, mm' = GivenUp(mm), UNCHANGED <<srv, up, down>>,
           ghost'.lost = ghost.lost
    PROVE  Agreement'
<1>1. /\ mm'.up = mm.up /\ mm'.match = NoRoom /\ ~mm'.reconnecting
      /\ ~mm'.joining /\ mm'.cs \in {"connected", "disconnected"}
  BY GivenUpGives DEF TypeOK
<1>2. CASE mm.up
  <2>1. /\ Kept(mm', down) = NoRoom
        /\ Wishes(mm', down) => Wishes(mm, down)
    BY <1>1 DEF Kept, Wishes
  <2>2. ASSUME Silent(down) PROVE Renewed(down)
    <3>1. PICK i \in DOMAIN down : Resolves(down[i])
      BY <1>2 DEF Agreement, Resumes
    <3>2. ~Sets(down[i])
      BY <2>2 DEF Silent
    <3> QED BY <3>1, <3>2 DEF Resolves, Renewed, Sets
  <2>3. Silent(down) => Kept(mm, down) = NoRoom
    BY <2>2 DEF Kept
  <2>4. ~Told(down) => ~Waits(mm, down) /\ ~Waits(mm', down)
    <3>1. ~Told(down) => Renewed(down)
      BY <2>2, NothingTold DEF Agreement
    <3> QED BY <1>1, <3>1 DEF Waits
  <2> QED BY <1>1, <1>2, <2>1, <2>3, <2>4, LocalAgrees
<1>3. CASE ~mm.up
  <2>1. Away' /\ Placed'
    BY <1>1, <1>3 DEF Agreement, Away, Placed
  <2> QED BY <1>1, <1>3, <2>1, AwayAgrees
<1> QED BY <1>2, <1>3

-----------------------------------------------------------------------------
(* The messages that the client reads.                                      *)

\* What is read leaves the foresight as it is.
LEMMA ReadAgrees ==
    ASSUME TypeOK, Agreement, down # <<>>, down' = Tail(down), srv' = srv, up' = up,
           ghost'.lost = ghost.lost, mm'.up = mm.up, NEW x, x = down[1],
           mm'.reconnecting => mm.reconnecting /\ ~Resolves(x),
           mm'.match = IF Sets(x) THEN After(x)
                       ELSE IF x.type = "connected" /\ mm.reconnecting /\ ~x.resumed THEN NoRoom
                       ELSE mm.match,
           mm'.cs = "waiting" <=>
               \/ x.type = "searching"
               \/ x.type = "connected" /\ mm.cs = "waiting" /\ ~(mm.reconnecting /\ ~x.resumed),
           mm'.joining => mm.joining /\ x.type \notin {"matched", "reconnected"}
    PROVE  Agreement'
<1> DEFINE d == Tail(down)
<1>1. /\ 1 \in DOMAIN down /\ d \in Seq(Message)
      /\ d # <<>> => Last(d) = Last(down)
      /\ d = <<>> => Last(down) = x
      /\ \A i \in DOMAIN d : i \in Nat /\ i >= 1 /\ i + 1 \in DOMAIN down /\ d[i] = down[i + 1]
      /\ \A i \in DOMAIN down : i \in Nat /\ i >= 1
                                /\ (i # 1 => i - 1 \in DOMAIN d /\ d[i - 1] = down[i])
  BY Received DEF TypeOK
<1>2. d # <<>> => \E i \in DOMAIN d : d[i] = Last(d)
  <2>1. Last(d) = d[Len(d)] /\ (d # <<>> => Len(d) \in DOMAIN d)
    BY <1>1 DEF Last
  <2> QED BY <2>1
<1>3. mm.up /\ mm'.up /\ ~srv.held /\ down' = d
  BY DEF Agreement, Away
<1> HIDE DEF d
<1>5. \A i \in DOMAIN d : i + 1 # 1 /\ d[i].type # "connected"
  <2> SUFFICES ASSUME NEW i \in DOMAIN d
               PROVE  i + 1 # 1 /\ d[i].type # "connected"
    OBVIOUS
  <2>1. i + 1 # 1
    BY <1>1
  <2> QED BY <1>1, <2>1 DEF Agreement, Ordered
<1>6. ~Renewed(d) /\ (Renewed(down) <=> x.type = "connected" /\ ~x.resumed)
  <2>1. ~Renewed(d)
    BY <1>5 DEF Renewed
  <2>2. Renewed(down) <=> x.type = "connected" /\ ~x.resumed
    BY <1>1 DEF Renewed, Agreement, Ordered
  <2> QED BY <2>1, <2>2
<1>7. Kept(mm', d) = mm'.match
  BY <1>6 DEF Kept
<1>8. ~Sets(x) => mm'.match = Kept(mm, down)
  BY <1>6 DEF Kept
<1>9. Waits(mm', d) <=> Waits(mm, down)
  <2>1. CASE d # <<>>
    <3>1. Told(d) /\ Told(down)
      BY <1>1, <1>2, <1>5, <2>1 DEF Told
    <3> QED BY <1>1, <2>1, <3>1 DEF Waits
  <2>2. CASE d = <<>>
    <3>1. ~Told(d) /\ (Told(down) <=> x.type # "connected") /\ Last(down) = x
      BY <1>1, <2>2 DEF Told
    <3>2. Waits(mm', d) <=> mm'.cs = "waiting"
      BY <1>6, <3>1 DEF Waits
    <3>3. CASE x.type = "connected"
      BY <1>6, <3>1, <3>2, <3>3 DEF Waits
    <3>4. CASE x.type # "connected"
      BY <3>1, <3>2, <3>4 DEF Waits
    <3> QED BY <3>3, <3>4
  <2> QED BY <2>1, <2>2
\* What is last in the rest is last in the whole.
<1>10. ASSUME NEW i \in DOMAIN d, Rest(d, i) PROVE Rest(down, i + 1)
  <2> SUFFICES ASSUME NEW j \in DOMAIN down, j > i + 1 PROVE ~Sets(down[j])
    BY DEF Rest
  <2>1. PICK k : k = j - 1
    OBVIOUS
  <2>2. i \in Nat /\ j \in Nat /\ j # 1 /\ k > i
    BY <1>1, <2>1
  <2>3. k \in DOMAIN d /\ d[k] = down[j]
    BY <1>1, <2>1, <2>2
  <2> QED BY <1>10, <2>2, <2>3 DEF Rest
<1>11. Silent(d) => Rest(down, 1)
  <2> SUFFICES ASSUME Silent(d), NEW j \in DOMAIN down, j > 1 PROVE ~Sets(down[j])
    BY DEF Rest
  <2>1. j # 1
    BY <1>1
  <2> QED BY <1>1, <2>1 DEF Silent
<1>12. Silent(d) /\ ~Sets(x) => Silent(down)
  <2> SUFFICES ASSUME Silent(d), ~Sets(x), NEW j \in DOMAIN down PROVE ~Sets(down[j])
    BY DEF Silent
  <2> QED BY <1>1 DEF Silent
<1>13. ASSUME NEW r, Foresees(mm', d, r) PROVE Foresees(mm, down, r)
  <2>1. CASE \E i \in DOMAIN d : Sets(d[i]) /\ Rest(d, i) /\ r = After(d[i])
    <3>1. PICK i \in DOMAIN d : Sets(d[i]) /\ Rest(d, i) /\ r = After(d[i])
      BY <2>1
    <3>2. i + 1 \in DOMAIN down /\ d[i] = down[i + 1] /\ Rest(down, i + 1)
      BY <1>1, <1>10, <3>1
    <3> QED BY <3>1, <3>2 DEF Foresees
  <2>2. CASE Silent(d) /\ r = Kept(mm', d)
    <3>1. CASE Sets(x)
      BY <1>1, <1>7, <1>11, <2>2, <3>1 DEF Foresees
    <3>2. CASE ~Sets(x)
      BY <1>7, <1>8, <1>12, <2>2, <3>2 DEF Foresees
    <3> QED BY <3>1, <3>2
  <2> QED BY <1>13, <2>1, <2>2 DEF Foresees
<1>14. ASSUME Wishes(mm', d), NEW r \in Room, Foresees(mm', d, r) PROVE Wishes(mm, down)
  <2>1. CASE \E i \in DOMAIN d : d[i].type = "searching" /\ Rest(d, i)
    <3>1. PICK i \in DOMAIN d : d[i].type = "searching" /\ Rest(d, i)
      BY <2>1
    <3>2. i + 1 \in DOMAIN down /\ d[i] = down[i + 1] /\ Rest(down, i + 1)
      BY <1>1, <1>10, <3>1
    <3> QED BY <3>1, <3>2 DEF Wishes
  <2>2. CASE (mm'.joining \/ mm'.cs = "waiting") /\ Silent(d)
    <3>1. r = mm'.match
      BY <1>7, <1>14, <2>2 DEF Foresees, Silent
    <3>2. ~Sets(x)
      <4> SUFFICES ASSUME Sets(x) PROVE FALSE
        OBVIOUS
      <4>1. After(x) \in Room
        BY <3>1
      <4>2. x.type \in {"matched", "reconnected"}
        BY <4>1, Rooms DEF After
      <4> QED BY <2>2, <4>2
    <3>3. Silent(down)
      BY <1>12, <2>2, <3>2
    <3>4. mm.joining \/ mm.cs = "waiting" \/ x.type = "searching"
      BY <2>2
    <3>5. x.type = "searching" => Wishes(mm, down)
      BY <1>1, <1>11, <2>2 DEF Wishes
    <3> QED BY <3>3, <3>4, <3>5 DEF Wishes
  <2> QED BY <1>14, <2>1, <2>2 DEF Wishes
<1>15. Away' /\ Placed' /\ Waiting'
  BY <1>3, <1>9 DEF Agreement, Away, Placed, Waiting
<1>16. Matches'
  BY <1>3, <1>13 DEF Agreement, Matches, Excused
<1>17. Asks'
  BY <1>3, <1>13, <1>14 DEF Agreement, Asks
<1>18. Ordered'
  BY <1>3, <1>5 DEF Ordered
<1>19. Resumes'
  <2> SUFFICES ASSUME mm'.reconnecting PROVE \E i \in DOMAIN d : Resolves(d[i])
    BY <1>3 DEF Resumes
  <2>1. PICK i \in DOMAIN down : Resolves(down[i])
    BY <1>3 DEF Agreement, Resumes
  <2>2. i # 1
    BY <2>1
  <2> QED BY <1>1, <2>1, <2>2
<1> QED BY <1>15, <1>16, <1>17, <1>18, <1>19 DEF Agreement

LEMMA ReceivesAgree ==
    ASSUME TypeOK, Agreement, Receives, ghost'.lost = ghost.lost
    PROVE  Agreement'
<1> DEFINE x == down[1]
<1>1. PICK t : /\ Receive(t)
               /\ \/ t = "connected" /\ ReceiveConnected
                  \/ t = "searching" /\ ReceiveSearching
                  \/ t = "matched" /\ ReceiveMatched
                  \/ t = "reconnected" /\ ReceiveReconnected
                  \/ t = "partner_left" /\ ReceivePartnerLeft
                  \/ t = "left" /\ ReceiveLeft
                  \/ t = "cancelled" /\ ReceiveCancelled
                  \/ t = "error" /\ ReceiveError
  BY DEF Receives, ReceiveConnected, ReceiveSearching, ReceiveMatched, ReceiveReconnected,
         ReceivePartnerLeft, ReceiveLeft, ReceiveCancelled, ReceiveError
<1>2. /\ down # <<>> /\ down' = Tail(down) /\ srv' = srv /\ up' = up
      /\ Head(down) = x /\ x.type = t /\ x \in Message /\ 1 \in DOMAIN down
  BY <1>1, ReceiveGives
<1>3. mm \in Machine
  BY DEF TypeOK
<1> HIDE DEF x
<1>4. CASE t = "connected"
  <2>1. mm' = IF mm.reconnecting /\ ~x.resumed THEN GivenUp(mm) ELSE mm
    BY <1>1, <1>2, <1>4 DEF ReceiveConnected
  <2>2. ~Sets(x)
    BY <1>2, <1>4 DEF Sets
  <2>3. CASE mm.reconnecting /\ ~x.resumed
    <3>1. /\ mm'.up = mm.up /\ mm'.match = NoRoom /\ ~mm'.reconnecting
          /\ ~mm'.joining /\ mm'.cs \in {"connected", "disconnected"}
      BY <1>3, <2>1, <2>3, GivenUpGives
    <3> QED BY <1>2, <1>4, <2>2, <2>3, <3>1, ReadAgrees DEF x
  <2>4. CASE ~(mm.reconnecting /\ ~x.resumed)
    <3>1. mm' = mm
      BY <2>1, <2>4
    <3>2. mm.reconnecting => ~Resolves(x)
      BY <1>2, <1>4, <2>4, <3>1 DEF Resolves
    <3> QED BY <1>2, <1>4, <2>2, <2>4, <3>1, <3>2, ReadAgrees DEF x
  <2> QED BY <2>3, <2>4
<1>5. CASE t # "connected"
  <2>1. /\ mm'.up = mm.up /\ (mm'.cs = "waiting" <=> t = "searching")
        /\ mm'.reconnecting => mm.reconnecting
        /\ t \in {"matched", "reconnected", "left", "partner_left"} => ~mm'.reconnecting
        /\ mm'.joining => mm.joining /\ t \notin {"matched", "reconnected"}
    BY <1>1, <1>3, <1>5 DEF Machine, ReceiveSearching, ReceiveMatched, ReceiveReconnected,
         ReceivePartnerLeft, ReceiveLeft, ReceiveCancelled, ReceiveError
  <2>2. mm'.match = IF Sets(x) THEN After(x) ELSE mm.match
    BY <1>1, <1>2, <1>3, <1>5 DEF Machine, After, Sets, ReceiveSearching, ReceiveMatched,
         ReceiveReconnected, ReceivePartnerLeft, ReceiveLeft, ReceiveCancelled, ReceiveError
  <2>3. mm'.reconnecting => ~Resolves(x)
    BY <1>2, <1>5, <2>1 DEF Resolves
  <2> QED BY <1>2, <1>5, <2>1, <2>2, <2>3, ReadAgrees DEF x
<1> QED BY <1>4, <1>5

\* The user and the coroutines cost no room.
LEMMA LostKept ==
    ASSUME TypeOK, [Next]_vars, ~(ServerReceives \/ CancelEnds)
    PROVE  ghost'.lost = ghost.lost
<1>1. mm \in Machine /\ ghost \in Ghost
  BY DEF TypeOK
<1>2. CASE ghost' = ghost
  BY <1>2
<1>3. CASE ReceiveMatched \/ ReceiveReconnected
  <2> DEFINE r == Head(down).room
             b == Head(down).rtc
  <2>1. r \in Room /\ b \in BOOLEAN
    <3>1. \E t \in {"matched", "reconnected"} : Receive(t)
      BY <1>3 DEF ReceiveMatched, ReceiveReconnected
    <3> QED BY <3>1, ReceiveGives, MessageFields
  <2>2. OnMatched(r, b) \/ OnReconnected(r, b)
    BY <1>3 DEF ReceiveMatched, ReceiveReconnected
  <2> HIDE DEF r, b
  <2>3. CASE SetUpCall(r)
    BY <1>1, <2>3 DEF SetUpCall, Ghost
  <2>4. CASE ghost' = Strays(ghost.stray \/ vc.rtc # NoRoom \/ matched # {})
    <3>1. PICK w : w = (ghost.stray \/ vc.rtc # NoRoom \/ matched # {})
      OBVIOUS
    <3>2. ghost' = Strays(w)
      BY <2>4, <3>1
    <3> QED BY <1>1, <3>2 DEF Strays, Ghost
  <2> QED BY <1>2, <2>1, <2>2, <2>3, <2>4, OnMatchedGives, OnReconnectedGives
<1>4. CASE Drop \/ Start \/ Stop \/ Leave \/ FindNext
  BY <1>1, <1>4 DEF Drop, Start, Stop, Leave, FindNext, Click, Ghost
<1>5. CASE EndFinishes \/ NextFinishes
  <2>1. PICK left \in SUBSET Room : LeaveRtc(left)
    BY <1>1, <1>5, LeaveRoomGives DEF EndFinishes, NextFinishes
  <2> QED BY <2>1, LeaveRtcGives
<1>6. CASE \E t \in matched : LeftRtc(t) \/ Retry(t)
  BY <1>6, ProceedGives
<1>7. CASE \E t \in matched : JoinRtcFails(t)
  BY <1>7, FailsGives
<1>8. CASE \/ UNCHANGED vars \/ Match \/ PartnerLeaves \/ GraceEnds \/ Reconnect \/ GraceTimer
           \/ SocketGivesUp \/ PendingJoin \/ SearchTimeout \/ DebounceEnds \/ MediaReady
           \/ PartnerLeft \/ (\E t \in matched : JoinRtc(t))
           \/ ReceiveConnected \/ ReceiveSearching \/ ReceivePartnerLeft \/ ReceiveLeft
           \/ ReceiveCancelled \/ ReceiveError
  BY <1>2, <1>8 DEF vars, Match, PartnerLeaves, GraceEnds, Reconnect, GraceTimer,
       SocketGivesUp, PendingJoin, SearchTimeout, DebounceEnds, MediaReady, PartnerLeft, JoinRtc,
       ReceiveConnected, ReceiveSearching, ReceivePartnerLeft, ReceiveLeft, ReceiveCancelled,
       ReceiveError
<1> QED BY <1>3, <1>4, <1>5, <1>6, <1>7, <1>8 DEF Next, Receives, Proceeds

LEMMA NextAgrees ==
    ASSUME TypeOK, TypeOK', Housed, [Next]_vars, Agreement
    PROVE  Agreement'
<1>1. mm \in Machine /\ ghost \in Ghost /\ up \in Seq(Request)
  BY DEF TypeOK, Request
<1>2. CASE ServerReceives \/ CancelEnds \/ Match \/ PartnerLeaves \/ GraceEnds
  BY <1>2, ServerAgrees
<1>3. SUFFICES ASSUME ~(ServerReceives \/ CancelEnds \/ Match \/ PartnerLeaves \/ GraceEnds),
                      ghost'.lost = ghost.lost
               PROVE  Agreement'
  BY <1>2, LostKept
<1>5. CASE Receives
  BY <1>3, <1>5, ReceivesAgree
<1>6. CASE Drop \/ Reconnect
  BY <1>6, DropAgrees, ReconnectAgrees
<1>7. CASE GraceTimer \/ SocketGivesUp
  <2>1. CASE mm.reconnecting
    <3>1. mm' = GivenUp(mm) /\ UNCHANGED <<srv, up, down>>
      BY <1>7, <2>1 DEF GraceTimer, SocketGivesUp
    <3> QED BY <1>3, <2>1, <3>1, GivenUpAgrees
  <2>2. CASE ~mm.reconnecting
    <3>1. mm' = [mm EXCEPT !.grace = FALSE] /\ UNCHANGED <<srv, up, down>>
      BY <1>7, <2>2 DEF GraceTimer, SocketGivesUp
    <3>2. /\ mm'.up = mm.up /\ mm'.cs = mm.cs /\ mm'.match = mm.match
          /\ mm'.joining = mm.joining /\ mm'.reconnecting = mm.reconnecting
      BY <1>1, <3>1 DEF Machine
    <3> QED BY <1>3, <3>1, <3>2, FrameAgrees
  <2> QED BY <2>1, <2>2
<1>8. CASE PendingJoin
  <2> DEFINE m == [mm EXCEPT !.pending = "no"]
  <2>1. CASE mm' = [mm EXCEPT !.pending = "due"] /\ UNCHANGED <<srv, up, down>>
    <3>1. /\ mm'.up = mm.up /\ mm'.cs = mm.cs /\ mm'.match = mm.match
          /\ mm'.joining = mm.joining /\ mm'.reconnecting = mm.reconnecting
      BY <1>1, <2>1 DEF Machine
    <3> QED BY <1>3, <2>1, <3>1, FrameAgrees
  <2>2. CASE DoJoin(m, up) /\ UNCHANGED <<srv, down>>
    <3>1. /\ m \in Machine /\ m.up = mm.up /\ m.match = mm.match
          /\ m.joining = mm.joining /\ m.reconnecting = mm.reconnecting
      BY <1>1 DEF Machine
    <3> HIDE DEF m
    <3> QED BY <1>3, <2>2, <3>1, JoinAgrees
  <2> QED BY <1>8, <2>1, <2>2 DEF PendingJoin
<1>9. CASE MediaReady \/ NextFinishes
  BY <1>1, <1>3, <1>9, JoinAgrees DEF MediaReady, NextFinishes
<1>10. CASE FindNext \/ EndFinishes
  BY <1>3, <1>10, LeaveAgrees DEF FindNext, EndFinishes
<1>11. CASE SearchTimeout
  <2>1. CASE mm.joining
    <3>1. /\ mm'.up = mm.up /\ mm'.cs = "connected" /\ mm'.match = NoRoom
          /\ ~mm'.joining /\ mm'.reconnecting = mm.reconnecting
          /\ up' = IF mm.up THEN Append(up, "cancel") ELSE up
          /\ srv' = srv /\ down' = down
      BY <1>1, <1>11, <2>1 DEF SearchTimeout, Machine
    <3> QED BY <1>3, <2>1, <3>1, StopAgrees
  <2>2. CASE ~mm.joining
    <3>1. /\ mm' = [mm EXCEPT !.timer = FALSE] /\ UNCHANGED <<srv, up, down>>
      BY <1>11, <2>2 DEF SearchTimeout
    <3>2. /\ mm'.up = mm.up /\ mm'.cs = mm.cs /\ mm'.match = mm.match
          /\ mm'.joining = mm.joining /\ mm'.reconnecting = mm.reconnecting
      BY <1>1, <3>1 DEF Machine
    <3> QED BY <1>3, <3>1, <3>2, FrameAgrees
  <2> QED BY <2>1, <2>2
<1>12. CASE Stop
  <2>1. /\ mm'.up = mm.up /\ mm'.cs = "connected" /\ mm'.match = NoRoom
        /\ ~mm'.joining /\ mm'.reconnecting = mm.reconnecting
        /\ up' = IF mm.up THEN Append(up, "cancel") ELSE up
        /\ srv' = srv /\ down' = down /\ mm.cs = "waiting"
    BY <1>1, <1>12 DEF Stop, Click, Machine
  <2> QED BY <1>3, <2>1, StopAgrees
<1>13. CASE \/ UNCHANGED vars \/ DebounceEnds \/ Start \/ Leave \/ PartnerLeft
            \/ \E t \in matched : LeftRtc(t) \/ JoinRtc(t) \/ Retry(t) \/ JoinRtcFails(t)
  <2>1. /\ mm' = mm \/ mm' = [mm EXCEPT !.debounce = FALSE]
        /\ UNCHANGED <<srv, up, down>>
    BY <1>13 DEF vars, DebounceEnds, Start, Leave, Click, PartnerLeft, LeftRtc, JoinRtc, Retry,
         Proceed, JoinRtcFails
  <2>2. /\ mm'.up = mm.up /\ mm'.cs = mm.cs /\ mm'.match = mm.match
        /\ mm'.joining = mm.joining /\ mm'.reconnecting = mm.reconnecting
    BY <1>1, <2>1 DEF Machine
  <2> QED BY <1>3, <2>1, <2>2, FrameAgrees
<1> QED BY <1>3, <1>5, <1>6, <1>7, <1>8, <1>9, <1>10, <1>11, <1>12, <1>13 DEF Next, Proceeds

LEMMA InitAgrees == Init => Agreement
<1> SUFFICES ASSUME Init PROVE Agreement
  OBVIOUS
<1>1. /\ srv.st = "idle" /\ srv.room = NoRoom /\ ~srv.held /\ up = <<>> /\ down = <<>>
      /\ mm.up /\ mm.cs = "connected" /\ mm.match = NoRoom /\ ~mm.joining
      /\ ~mm.reconnecting
  BY DEF Init
<1>2. Away /\ Placed /\ Ordered /\ Resumes
  BY <1>1 DEF Away, Placed, Ordered, Resumes
<1>3. /\ ~Waits(mm, down) /\ ~Wishes(mm, down)
      /\ \A r : Foresees(mm, down, r) => r = NoRoom
  BY <1>1 DEF Waits, Told, Wishes, Foresees, Kept
<1> QED BY <1>1, <1>2, <1>3 DEF Agreement, Asks, Matches, Waiting

\* Once nothing is under way, useMatchmaking keeps the room that the server has the user in,
\* and says it searches exactly when the server does: after any leaves, cancels, timeouts,
\* departures, drops and resumes that crossed each other.  Where it does not keep that room
\* it keeps none, and the room has met a refused join, or came while a cancel was handled.
THEOREM MachineAgrees == Spec => []MatchmakingAgrees
<1> DEFINE Inv == TypeOK /\ Housed /\ Agreement
<1>1. Init => Inv
  BY InitTyped, InitAgrees
<1>2. Inv /\ [Next]_vars => Inv'
  BY NextTyped, NextAgrees
<1>3. Inv => MatchmakingAgrees
  <2> SUFFICES ASSUME Inv, Quiet
               PROVE  /\ mm.match = srv.room
                         \/ (mm.match = NoRoom /\ srv.room \in ghost.lost)
                      /\ mm.cs = "waiting" <=> srv.st = "queue"
    BY DEF MatchmakingAgrees
  <2>1. mm.up /\ up = <<>> /\ down = <<>> /\ ~srv.cancelling
    BY DEF Quiet
  <2>2. ~Asked(up, "join") /\ ~Asked(up, "leave") /\ ~Asked(up, "cancel")
    BY <2>1 DEF Asked
  <2>3. Foresees(mm, down, mm.match) /\ (Waits(mm, down) <=> mm.cs = "waiting")
    BY <2>1 DEF Foresees, Silent, Waits, Told, Kept, Renewed
  <2> QED BY <2>1, <2>2, <2>3 DEF Agreement, Matches, Waiting, Excused
<1> QED BY <1>1, <1>2, <1>3, PTL DEF Spec
=============================================================================
