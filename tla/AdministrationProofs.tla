----------------------- MODULE AdministrationProofs -----------------------
(***************************************************************************)
(* Proofs about the two models of administration, for any value of their   *)
(* constants.                                                              *)
(*                                                                         *)
(* Moderation: type correctness, that monitoring never outlives the last   *)
(* connection, that a page in peace shows every message once, and that     *)
(* whoever was told to wait for an impersonated partner is told more.      *)
(*                                                                         *)
(* AdminFeed: type correctness, and that the dashboard's lists converge to *)
(* what the server knows.  The invariant is FeedGood: rooms are made once  *)
(* and stay deleted (Apart), and the last word on each user and each room  *)
(* is true unless the model names why it is not (UserGood, RoomGood).      *)
(***************************************************************************)
EXTENDS Moderation, AdminFeed, SequenceTheorems, TLAPS

ConnTypes ==
    conns \in [Conn -> [tab : Tab \cup {"none"}, st : {"none", "auth", "in", "out"},
                        up : BOOLEAN, net : BOOLEAN]]

ListTypes == table \in Seq(Conn)

CallTypes ==
    calls \subseteq [conn : Conn, op : {"history", "started", "enter", "note", "impersonate"},
                     data : Seq(Msg)]

Page == [conn : Conn \cup {NoConn}, authed : BOOLEAN, open : BOOLEAN, watching : BOOLEAN,
         mode : BOOLEAN, fresh : BOOLEAN, shown : Seq(Msg), racy : SUBSET Msg]

TabTypes == tabs \in [Tab -> Page]

MsgTypes == msgs \in [history : Seq(Msg), posting : SUBSET Msg]

RestTypes ==
    /\ session \in {"valid", "revoking", "revoked"}
    /\ monitored \in BOOLEAN /\ takeover \in BOOLEAN
    /\ room \in [open : BOOLEAN, other : {"chats", "waits", "left"},
                 entry : {"no", "find", "in"}, leave : {"no", "delete", "tell"},
                 cleanup : {"no", "find", "delete", "tell", "done", "failed"}]
    /\ acts \in 0..MaxActs

Typed == ConnTypes /\ ListTypes /\ CallTypes /\ TabTypes /\ MsgTypes /\ RestTypes

\* A connection that is open on the page's side is the connection of its tab, and the
\* server takes it for open, too; one that has begun has a tab.
NetHeld ==
    /\ \A k \in Conn : conns[k].st # "none" => conns[k].tab \in Tab
    /\ \A k \in Conn : conns[k].net => /\ conns[k].up /\ conns[k].st \in {"auth", "in"}
                                       /\ tabs[conns[k].tab].conn = k
    /\ \A t \in Tab : tabs[t].conn # NoConn => /\ conns[tabs[t].conn].tab = t
                                               /\ conns[tabs[t].conn].net

\* What a page takes for authenticated is, and watching takes it.
AuthedIsIn ==
    \A t \in Tab : /\ tabs[t].authed => tabs[t].conn # NoConn /\ conns[tabs[t].conn].st = "in"
                   /\ tabs[t].watching => tabs[t].authed

\* Handlers that await were called on an authenticated connection.
CalledIn == \A c \in calls : conns[c.conn].st = "in"

\* The table has every open authenticated connection, no connection twice, and none that
\* has not authenticated.
Listing ==
    /\ table \in Seq(Conn)
    /\ \A i, j \in DOMAIN table : table[i] = table[j] => i = j
    /\ \A i \in DOMAIN table : conns[table[i]].st = "in"
    /\ \A k \in Conn : conns[k].up /\ conns[k].st = "in" => \E i \in DOMAIN table : table[i] = k

\* A page whose history has come is connected, and the administrator is recorded.
FreshServed ==
    \A t \in Tab : tabs[t].fresh => /\ monitored /\ tabs[t].conn # NoConn
                                    /\ conns[tabs[t].conn].st = "in"

\* Messages are numbered as they are stored, a history that was read is the beginning of
\* the stored one, and pages show stored messages.
Stored ==
    /\ \A i \in DOMAIN msgs.history : msgs.history[i] = i
    /\ msgs.posting \subseteq DOMAIN msgs.history
    /\ \A c \in calls : /\ Len(c.data) <= Len(msgs.history)
                        /\ \A i \in DOMAIN c.data : c.data[i] = i
    /\ \A t \in Tab : \A i \in DOMAIN tabs[t].shown : tabs[t].shown[i] \in DOMAIN msgs.history
    /\ \A t \in Tab : tabs[t].racy \subseteq DOMAIN msgs.history

\* Outside the races a message is on a page as soon as it has been broadcast, not before,
\* and once.
ShownRight ==
    \A t \in Tab : tabs[t].fresh =>
        \A m \in DOMAIN msgs.history \ tabs[t].racy :
            /\ \A i, j \in Shown(t, m) : i = j
            /\ m \in msgs.posting <=> Shown(t, m) = {}

-----------------------------------------------------------------------------
(* Types.                                                                   *)

\* Steps of the cleanup, of the member who waits and of the administrator who enters.
RoomSteps == TakeoverFind \/ TakeoverConnection \/ PutOutCleanup \/ WaiterGoes

LEMMA RoomStepsOnly ==
  ASSUME RoomSteps
  PROVE  UNCHANGED <<conns, table, session, monitored, takeover, calls, tabs, msgs, acts>>
  <1>1. CASE TakeoverFind \/ TakeoverConnection
    BY <1>1 DEF TakeoverFind, TakeoverConnection, Only
  <1>2. CASE PutOutCleanup
    BY <1>2 DEF PutOutCleanup, CleanupFails, CleanupFind, CleanupDelete, CleanupTell, Only
  <1>3. CASE WaiterGoes
    BY <1>3 DEF WaiterGoes, WaiterLeaves, EndByWaiter, WaiterIsOut, Only
  <1>4. QED
    BY <1>1, <1>2, <1>3 DEF RoomSteps

LEMMA ConnTyped ==
  ASSUME Typed, NetHeld, Next
  PROVE  ConnTypes'
  <1> USE DEF Typed, ConnTypes, TabTypes, Page
  <1>1. ASSUME NEW t \in Tab, Connect(t)
        PROVE  ConnTypes'
    BY <1>1 DEF Connect
  <1>2. ASSUME NEW t \in Tab, Drop(t)
        PROVE  ConnTypes'
    <2>1. PICK k \in Conn : conns' = [conns EXCEPT ![k].net = FALSE]
      <3>1. tabs[t].conn \in Conn
        BY <1>2 DEF Drop
      <3>2. QED
        BY <1>2, <3>1 DEF Drop
    <2>2. QED
      BY <2>1
  <1>3. ASSUME NEW k \in Conn, Authenticated(k)
        PROVE  ConnTypes'
    BY <1>3 DEF Authenticated
  <1>4. ASSUME NEW k \in Conn, Refused(k) \/ Notice(k)
        PROVE  ConnTypes'
    <2>1. CASE Refused(k)
      <3>1. conns' = [conns EXCEPT ![k] = [@ EXCEPT !.st = "out", !.up = FALSE, !.net = FALSE]]
        BY <2>1 DEF Refused
      <3>2. QED
        BY <3>1
    <2>2. CASE Notice(k)
      <3>1. conns' = [conns EXCEPT ![k].up = FALSE]
        BY <2>2 DEF Notice
      <3>2. QED
        BY <3>1
    <2>3. QED
      BY <1>4, <2>1, <2>2
  <1>5. CASE Revoke
    BY <1>5 DEF Revoke
  <1>6. CASE UNCHANGED conns
    BY <1>6
  <1>7. ASSUME NEW t \in Tab, OpenRoom(t) \/ Watch(t) \/ Back(t) \/ ModeOn(t) \/ ModeOff(t)
                              \/ SendNote(t) \/ AskImpersonate(t)
        PROVE  UNCHANGED conns
    BY <1>7 DEF OpenRoom, Watch, Back, ModeOn, ModeOff, SendNote, AskImpersonate
  <1>8. ASSUME NEW c \in calls, ReadHistory(c) \/ MonitorStarted(c) \/ TakeoverEnter(c)
                                \/ AdminMessage(c) \/ TakeoverImpersonate(c)
        PROVE  UNCHANGED conns
    BY <1>8 DEF ReadHistory, MonitorStarted, TakeoverEnter, AdminMessage, Post,
                TakeoverImpersonate
  <1>9. CASE (\E m \in msgs.posting : Broadcast(m)) \/ DeleteSession \/ UserMessage
             \/ RoomSteps
    BY <1>9, RoomStepsOnly DEF Broadcast, DeleteSession, UserMessage, Post
  <1>10. QED
    BY <1>1, <1>2, <1>3, <1>4, <1>5, <1>6, <1>7, <1>8, <1>9 DEF Next, RoomSteps

LEMMA PageFields ==
  ASSUME NEW r \in Page
  PROVE  /\ \A k \in Conn \cup {NoConn} : [r EXCEPT !.conn = k] \in Page
         /\ [r EXCEPT !.open = TRUE] \in Page
         /\ [r EXCEPT !.open = FALSE, !.mode = FALSE] \in Page
         /\ [r EXCEPT !.watching = TRUE] \in Page
         /\ [r EXCEPT !.watching = FALSE, !.shown = <<>>] \in Page
         /\ \A b \in BOOLEAN : [r EXCEPT !.mode = b] \in Page /\ [r EXCEPT !.fresh = b] \in Page
         /\ \A s \in Seq(Msg) : [r EXCEPT !.shown = s] \in Page
  <1>1. <<>> \in Seq(Msg)
    OBVIOUS
  <1>2. \A k \in Conn \cup {NoConn} : [r EXCEPT !.conn = k] \in Page
    BY DEF Page
  <1>3. [r EXCEPT !.open = TRUE] \in Page /\ [r EXCEPT !.watching = TRUE] \in Page
    BY DEF Page
  <1>4. [r EXCEPT !.open = FALSE, !.mode = FALSE] \in Page
    BY DEF Page
  <1>5. [r EXCEPT !.watching = FALSE, !.shown = <<>>] \in Page
    BY <1>1 DEF Page
  <1>6. \A b \in BOOLEAN : [r EXCEPT !.mode = b] \in Page /\ [r EXCEPT !.fresh = b] \in Page
    BY DEF Page
  <1>7. \A s \in Seq(Msg) : [r EXCEPT !.shown = s] \in Page
    BY DEF Page
  <1>8. QED
    BY <1>2, <1>3, <1>4, <1>5, <1>6, <1>7

LEMMA UnpluggedTyped ==
  ASSUME NEW r \in Page
  PROVE  /\ Unplugged(r) \in Page
         /\ Unplugged(r).conn = NoConn /\ Unplugged(r).authed = FALSE
         /\ Unplugged(r).watching = FALSE /\ Unplugged(r).fresh = FALSE
         /\ Unplugged(r).shown = r.shown /\ Unplugged(r).racy = r.racy
  BY DEF Unplugged, Page

LEMMA UnwatchedTyped ==
  ASSUME NEW f \in [Tab -> Page]
  PROVE  /\ Unwatched(f) \in [Tab -> Page]
         /\ \A t \in Tab : /\ Unwatched(f)[t].conn = f[t].conn
                           /\ Unwatched(f)[t].authed = f[t].authed
                           /\ Unwatched(f)[t].watching = f[t].watching
                           /\ Unwatched(f)[t].fresh = FALSE
                           /\ Unwatched(f)[t].shown = f[t].shown
                           /\ Unwatched(f)[t].racy = f[t].racy
  BY DEF Unwatched, Page

LEMMA RacyTyped ==
  ASSUME Typed, NEW data \in Seq(Msg)
  PROVE  Racy(data) \in SUBSET Msg
  BY DEF Typed, MsgTypes, Racy, ToSet

LEMMA RevokedTyped ==
  ASSUME TabTypes, NEW gone
  PROVE  /\ RevokedTabs(gone) \in [Tab -> Page]
         /\ \A t \in Tab : /\ RevokedTabs(gone)[t].shown = tabs[t].shown
                           /\ RevokedTabs(gone)[t].racy = tabs[t].racy
                           /\ RevokedTabs(gone)[t].fresh = FALSE
         /\ \A t \in Tab : tabs[t].conn \in gone => /\ RevokedTabs(gone)[t].conn = NoConn
                                                    /\ RevokedTabs(gone)[t].authed = FALSE
                                                    /\ RevokedTabs(gone)[t].watching = FALSE
         /\ \A t \in Tab : tabs[t].conn \notin gone =>
               /\ RevokedTabs(gone)[t].conn = tabs[t].conn
               /\ RevokedTabs(gone)[t].authed = tabs[t].authed
               /\ RevokedTabs(gone)[t].watching = tabs[t].watching
  <1> DEFINE f == [t \in Tab |-> IF tabs[t].conn \in gone THEN Unplugged(tabs[t]) ELSE tabs[t]]
  <1>1. f \in [Tab -> Page] /\ RevokedTabs(gone) = Unwatched(f)
    BY UnpluggedTyped DEF TabTypes, RevokedTabs
  <1>2. \A t \in Tab : /\ tabs[t] \in Page
                       /\ tabs[t].conn \in gone => f[t] = Unplugged(tabs[t])
                       /\ tabs[t].conn \notin gone => f[t] = tabs[t]
    BY DEF TabTypes
  <1> HIDE DEF f
  <1>3. \A t \in Tab : f[t].shown = tabs[t].shown /\ f[t].racy = tabs[t].racy
    BY <1>2, UnpluggedTyped
  <1>4. ASSUME NEW t \in Tab, tabs[t].conn \in gone
        PROVE  f[t].conn = NoConn /\ f[t].authed = FALSE /\ f[t].watching = FALSE
    <2>1. f[t] = Unplugged(tabs[t]) /\ tabs[t] \in Page
      BY <1>2, <1>4
    <2>2. QED
      BY <2>1, UnpluggedTyped
  <1>5. \A t \in Tab : /\ RevokedTabs(gone)[t].conn = f[t].conn
                       /\ RevokedTabs(gone)[t].authed = f[t].authed
                       /\ RevokedTabs(gone)[t].watching = f[t].watching
                       /\ RevokedTabs(gone)[t].fresh = FALSE
                       /\ RevokedTabs(gone)[t].shown = f[t].shown
                       /\ RevokedTabs(gone)[t].racy = f[t].racy
    <2>1. \A t \in Tab : /\ Unwatched(f)[t].conn = f[t].conn
                         /\ Unwatched(f)[t].authed = f[t].authed
                         /\ Unwatched(f)[t].watching = f[t].watching
                         /\ Unwatched(f)[t].fresh = FALSE
                         /\ Unwatched(f)[t].shown = f[t].shown
                         /\ Unwatched(f)[t].racy = f[t].racy
      BY <1>1, UnwatchedTyped
    <2>2. QED
      BY <2>1, <1>1
  <1>6. RevokedTabs(gone) \in [Tab -> Page]
    BY <1>1, UnwatchedTyped
  <1>7. QED
    BY <1>2, <1>3, <1>4, <1>5, <1>6

LEMMA TabTyped ==
  ASSUME Typed, NetHeld, Next
  PROVE  TabTypes'
  <1> USE DEF Typed, TabTypes
  <1>1. ASSUME NEW t \in Tab, Connect(t)
        PROVE  TabTypes'
    <2>1. PICK k \in Conn : tabs' = [tabs EXCEPT ![t].conn = k]
      BY <1>1 DEF Connect
    <2>2. [tabs[t] EXCEPT !.conn = k] \in Page
      BY PageFields
    <2>3. QED
      BY <2>1, <2>2
  <1>2. ASSUME NEW t \in Tab, Drop(t)
        PROVE  TabTypes'
    BY <1>2, UnpluggedTyped DEF Drop
  <1>3. ASSUME NEW k \in Conn, Authenticated(k)
        PROVE  TabTypes'
    BY <1>3 DEF Authenticated, Page
  <1>4. ASSUME NEW k \in Conn, Refused(k) \/ Notice(k)
        PROVE  TabTypes'
    <2>1. CASE Refused(k)
      BY <2>1, UnpluggedTyped, UnwatchedTyped DEF Refused
    <2>2. CASE Notice(k)
      BY <2>2, UnwatchedTyped DEF Notice
    <2>3. QED
      BY <1>4, <2>1, <2>2
  <1>5. CASE Revoke
    BY <1>5, RevokedTyped DEF Revoke
  <1>6. ASSUME NEW t \in Tab, OpenRoom(t) \/ Watch(t) \/ ModeOn(t) \/ ModeOff(t) \/ SendNote(t)
        PROVE  TabTypes'
    <2>1. /\ [tabs[t] EXCEPT !.open = TRUE] \in Page
          /\ [tabs[t] EXCEPT !.watching = TRUE] \in Page
          /\ [tabs[t] EXCEPT !.mode = TRUE] \in Page /\ [tabs[t] EXCEPT !.mode = FALSE] \in Page
      BY PageFields
    <2>2. QED
      BY <1>6, <2>1 DEF OpenRoom, Watch, ModeOn, ModeOff, SendNote
  <1>7. ASSUME NEW t \in Tab, Back(t)
        PROVE  TabTypes'
    <2> DEFINE left == [tabs EXCEPT ![t] = [@ EXCEPT !.open = FALSE, !.mode = FALSE]]
               r    == [left[t] EXCEPT !.watching = FALSE, !.shown = <<>>]
    <2>1. [tabs[t] EXCEPT !.open = FALSE, !.mode = FALSE] \in Page
      BY PageFields
    <2>2. left \in [Tab -> Page] /\ left[t] \in Page
      BY <2>1
    <2>3. r \in Page
      BY <2>2, PageFields
    <2>4. [left EXCEPT ![t] = r] \in [Tab -> Page]
      BY <2>2, <2>3
    <2>5. QED
      BY <1>7, <2>2, <2>4, UnwatchedTyped DEF Back
  <1>8. ASSUME NEW c \in calls, MonitorStarted(c)
        PROVE  TabTypes'
    <2> DEFINE t == conns[c.conn].tab
               data == c.data
               racy == Racy(data)
    <2>1. data \in Seq(Msg) /\ monitored \in BOOLEAN
      BY DEF CallTypes, RestTypes
    <2>2. racy \in SUBSET Msg
      BY <2>1, RacyTyped
    <2>3. tabs' = tabs \/ tabs' = [tabs EXCEPT ![t] = [@ EXCEPT !.shown = data, !.racy = racy,
                                                                !.fresh = monitored]]
      BY <1>8 DEF MonitorStarted
    <2> HIDE DEF t, data, racy
    <2>4. ASSUME t \in Tab
          PROVE  [tabs[t] EXCEPT !.shown = data, !.racy = racy, !.fresh = monitored] \in Page
      <3>1. tabs[t] \in Page
        BY <2>4
      <3> HIDE DEF Typed, TabTypes
      <3>2. QED
        BY <3>1, <2>1, <2>2 DEF Page
    <2>5. QED
      BY <2>3, <2>4
  <1>9. ASSUME NEW m \in msgs.posting, Broadcast(m)
        PROVE  TabTypes'
    <2>1. m \in Msg
      BY DEF MsgTypes
    <2>2. \A t \in Tab : /\ [tabs[t] EXCEPT !.shown = Append(@, m)] \in Page
                         /\ [tabs[t] EXCEPT !.fresh = FALSE] \in Page
      <3>1. ASSUME NEW t \in Tab
            PROVE  tabs[t] \in Page /\ Append(tabs[t].shown, m) \in Seq(Msg)
        BY <2>1 DEF Page
      <3>2. QED
        BY <3>1, PageFields
    <2>3. QED
      BY <1>9, <2>2 DEF Broadcast
  <1>10. ASSUME NEW c \in calls, ReadHistory(c) \/ TakeoverEnter(c) \/ AdminMessage(c)
                                 \/ TakeoverImpersonate(c)
         PROVE  TabTypes'
    BY <1>10 DEF ReadHistory, TakeoverEnter, AdminMessage, Post, TakeoverImpersonate
  <1>11. CASE (\E t \in Tab : AskImpersonate(t)) \/ DeleteSession \/ UserMessage
              \/ RoomSteps
    BY <1>11, RoomStepsOnly DEF AskImpersonate, DeleteSession, UserMessage, Post
  <1>12. QED
    BY <1>1, <1>2, <1>3, <1>4, <1>5, <1>6, <1>7, <1>8, <1>9, <1>10, <1>11 DEF Next, RoomSteps

\* A member of a sequence is removed; the others stay, in their order.
LEMMA RemoveAtShape ==
  ASSUME NEW S, NEW s \in Seq(S), NEW i \in DOMAIN s,
         \A j, l \in DOMAIN s : s[j] = s[l] => j = l
  PROVE  /\ RemoveAt(s, i) \in Seq(S)
         /\ \A j \in DOMAIN RemoveAt(s, i) : \E l \in DOMAIN s \ {i} : RemoveAt(s, i)[j] = s[l]
         /\ \A l \in DOMAIN s \ {i} : \E j \in DOMAIN RemoveAt(s, i) : RemoveAt(s, i)[j] = s[l]
         /\ \A j, l \in DOMAIN RemoveAt(s, i) : RemoveAt(s, i)[j] = RemoveAt(s, i)[l] => j = l
  <1> DEFINE r == RemoveAt(s, i)
             a == SubSeq(s, 1, i - 1)
             b == SubSeq(s, i + 1, Len(s))
             n == Len(s)
  <1>1. n \in Nat /\ DOMAIN s = 1..n /\ i \in 1..n
    OBVIOUS
  <1>2. a \in Seq(S) /\ Len(a) = i - 1 /\ \A j \in 1..(i - 1) : a[j] = s[j]
    BY <1>1
  <1>3. b \in Seq(S) /\ Len(b) = n - i /\ \A j \in 1..(n - i) : b[j] = s[i + j]
    <2>1. /\ b \in Seq(S) /\ Len(b) = Len(s) - i
          /\ \A j \in 1..(Len(s) - i) : b[j] = s[i + 1 + j - 1]
      BY <1>1
    <2>2. \A j \in 1..(Len(s) - i) : i + 1 + j - 1 = i + j
      BY <1>1
    <2>3. QED
      BY <2>1, <2>2
  <1>4. r = a \o b
    BY DEF RemoveAt
  <1>5. r \in Seq(S) /\ Len(r) = n - 1 /\ DOMAIN r = 1..(n - 1)
    BY <1>1, <1>2, <1>3, <1>4
  <1>6. \A j \in 1..(n - 1) : r[j] = IF j <= Len(a) THEN a[j] ELSE b[j - Len(a)]
    <2>1. Len(a) + Len(b) = n - 1
      BY <1>1, <1>2, <1>3
    <2> HIDE DEF a, b, r, n
    <2>2. QED
      BY <2>1, <1>2, <1>3, <1>4, ConcatProperties
  <1> HIDE DEF a, b, r, n
  <1>7. ASSUME NEW j \in 1..(n - 1), j < i
        PROVE  r[j] = s[j] /\ j \in 1..n
    BY <1>1, <1>2, <1>6, <1>7
  <1>8. ASSUME NEW j \in 1..(n - 1), ~(j < i)
        PROVE  r[j] = s[j + 1] /\ j + 1 \in 1..n
    <2>1. j - (i - 1) \in 1..(n - i) /\ i + (j - (i - 1)) = j + 1 /\ ~(j <= i - 1)
      BY <1>1, <1>8
    <2>2. r[j] = b[j - (i - 1)]
      BY <2>1, <1>2, <1>6
    <2>3. b[j - (i - 1)] = s[i + (j - (i - 1))]
      BY <2>1, <1>3
    <2>4. j + 1 \in 1..n
      BY <1>1
    <2>5. QED
      BY <2>1, <2>2, <2>3, <2>4
  <1>9. ASSUME NEW j \in DOMAIN r
        PROVE  \E l \in DOMAIN s \ {i} : r[j] = s[l]
    <2>1. j \in 1..(n - 1)
      BY <1>5
    <2>2. CASE j < i
      BY <2>1, <2>2, <1>1, <1>7
    <2>3. CASE ~(j < i)
      <3>1. j + 1 \in DOMAIN s \ {i}
        BY <2>1, <2>3, <1>1
      <3>2. QED
        BY <2>1, <2>3, <3>1, <1>8
    <2>4. QED
      BY <2>2, <2>3
  <1>10. ASSUME NEW l \in DOMAIN s \ {i}
         PROVE  \E j \in DOMAIN r : r[j] = s[l]
    <2>1. CASE l < i
      <3>1. l \in 1..(n - 1)
        BY <2>1, <1>1
      <3>2. QED
        BY <2>1, <3>1, <1>5, <1>7
    <2>2. CASE ~(l < i)
      <3>1. l - 1 \in 1..(n - 1) /\ ~(l - 1 < i) /\ l - 1 + 1 = l
        BY <2>2, <1>1
      <3>2. QED
        BY <3>1, <1>5, <1>8
    <2>3. QED
      BY <2>1, <2>2
  <1>11. ASSUME NEW j \in DOMAIN r, NEW l \in DOMAIN r, r[j] = r[l]
         PROVE  j = l
    <2>1. j \in 1..(n - 1) /\ l \in 1..(n - 1)
      BY <1>5
    <2>2. CASE j < i /\ l < i
      BY <2>1, <2>2, <1>1, <1>7, <1>11
    <2>3. CASE ~(j < i) /\ ~(l < i)
      <3>1. j + 1 = l + 1
        BY <2>1, <2>3, <1>1, <1>8, <1>11
      <3>2. QED
        BY <2>1, <3>1
    <2>4. CASE j < i /\ ~(l < i)
      <3>1. j = l + 1
        BY <2>1, <2>4, <1>1, <1>7, <1>8, <1>11
      <3>2. QED
        BY <2>1, <2>4, <3>1, <1>1
    <2>5. CASE ~(j < i) /\ l < i
      <3>1. j + 1 = l
        BY <2>1, <2>5, <1>1, <1>7, <1>8, <1>11
      <3>2. QED
        BY <2>1, <2>5, <3>1, <1>1
    <2>6. QED
      BY <2>2, <2>3, <2>4, <2>5
  <1>12. QED
    BY <1>5, <1>9, <1>10, <1>11 DEF r

LEMMA ListTyped ==
  ASSUME Typed, Listing, Next
  PROVE  ListTypes'
  <1> USE DEF Typed, ListTypes
  <1>1. ASSUME NEW k \in Conn, Authenticated(k)
        PROVE  ListTypes'
    BY <1>1 DEF Authenticated
  <1>2. ASSUME NEW k \in Conn, Notice(k)
        PROVE  ListTypes'
    BY <1>2, RemoveAtShape DEF Notice, Listing
  <1>3. CASE Revoke
    <2>1. table' = <<>>
      BY <1>3 DEF Revoke
    <2>2. QED
      BY <2>1
  <1>4. ASSUME NEW k \in Conn, Refused(k)
        PROVE  UNCHANGED table
    BY <1>4 DEF Refused
  <1>5. ASSUME NEW t \in Tab, Connect(t) \/ Drop(t) \/ OpenRoom(t) \/ Watch(t) \/ Back(t)
                              \/ ModeOn(t) \/ ModeOff(t) \/ SendNote(t) \/ AskImpersonate(t)
        PROVE  UNCHANGED table
    BY <1>5 DEF Connect, Drop, OpenRoom, Watch, Back, ModeOn, ModeOff, SendNote, AskImpersonate
  <1>6. ASSUME NEW c \in calls, ReadHistory(c) \/ MonitorStarted(c) \/ TakeoverEnter(c)
                                \/ AdminMessage(c) \/ TakeoverImpersonate(c)
        PROVE  UNCHANGED table
    BY <1>6 DEF ReadHistory, MonitorStarted, TakeoverEnter, AdminMessage, Post,
                TakeoverImpersonate
  <1>7. CASE (\E m \in msgs.posting : Broadcast(m)) \/ DeleteSession \/ UserMessage
             \/ RoomSteps
    BY <1>7, RoomStepsOnly DEF Broadcast, DeleteSession, UserMessage, Post
  <1>8. QED
    BY <1>1, <1>2, <1>3, <1>4, <1>5, <1>6, <1>7 DEF Next, RoomSteps

\* The beginning of a history.
LEMMA FirstOfShape ==
  ASSUME NEW h \in Seq(Msg)
  PROVE  /\ FirstOf(h) \in Seq(Msg) /\ Len(FirstOf(h)) <= Len(h)
         /\ \A i \in DOMAIN FirstOf(h) : i \in DOMAIN h /\ FirstOf(h)[i] = h[i]
  <1> DEFINE n == Min({Limit, Len(h)})
  <1>1. Limit \in Nat /\ Len(h) \in Nat
    BY ModerationAssumption
  <1>2. \E x \in {Limit, Len(h)} : \A y \in {Limit, Len(h)} : x <= y
    BY <1>1
  <1>3. n \in {Limit, Len(h)} /\ n <= Len(h)
    BY <1>2 DEF Min
  <1>4. n \in Nat
    BY <1>1, <1>3
  <1> HIDE DEF n
  <1>5. /\ SubSeq(h, 1, n) \in Seq(Msg) /\ Len(SubSeq(h, 1, n)) = n
        /\ DOMAIN SubSeq(h, 1, n) = 1..n
        /\ \A i \in 1..n : SubSeq(h, 1, n)[i] = h[i]
    BY <1>1, <1>3, <1>4
  <1>6. FirstOf(h) = SubSeq(h, 1, n)
    BY DEF FirstOf, n
  <1>7. 1..n \subseteq DOMAIN h
    BY <1>1, <1>3, <1>4
  <1>8. QED
    BY <1>3, <1>5, <1>6, <1>7

LEMMA CallTyped ==
  ASSUME Typed, NetHeld, AuthedIsIn, Next
  PROVE  CallTypes'
  <1> USE DEF Typed, CallTypes
  <1>1. ASSUME NEW t \in Tab, Watch(t) \/ ModeOn(t) \/ SendNote(t) \/ AskImpersonate(t)
        PROVE  CallTypes'
    <2>1. tabs[t].conn \in Conn
      <3>1. tabs[t].conn # NoConn
        BY <1>1 DEF Watch, ModeOn, SendNote, AskImpersonate, Ready, AuthedIsIn
      <3>2. QED
        BY <3>1 DEF TabTypes, Page
    <2>2. <<>> \in Seq(Msg)
      OBVIOUS
    <2>3. \A o \in {"history", "started", "enter", "note", "impersonate"} :
            Call(t, o) \in [conn : Conn, op : {"history", "started", "enter", "note",
                                               "impersonate"}, data : Seq(Msg)]
      BY <2>1, <2>2 DEF Call
    <2>4. QED
      BY <1>1, <2>3 DEF Watch, ModeOn, SendNote, AskImpersonate
  <1>2. ASSUME NEW c \in calls, ReadHistory(c)
        PROVE  CallTypes'
    <2>1. FirstOf(msgs.history) \in Seq(Msg)
      BY FirstOfShape DEF MsgTypes
    <2>2. [c EXCEPT !.op = "started", !.data = FirstOf(msgs.history)]
            \in [conn : Conn, op : {"history", "started", "enter", "note", "impersonate"},
                 data : Seq(Msg)]
      BY <2>1
    <2>3. QED
      BY <1>2, <2>2 DEF ReadHistory
  <1>3. ASSUME NEW c \in calls, MonitorStarted(c) \/ TakeoverEnter(c) \/ AdminMessage(c)
                                \/ TakeoverImpersonate(c)
        PROVE  CallTypes'
    BY <1>3 DEF MonitorStarted, TakeoverEnter, AdminMessage, TakeoverImpersonate
  <1>4. ASSUME NEW t \in Tab, Connect(t) \/ Drop(t) \/ OpenRoom(t) \/ Back(t) \/ ModeOff(t)
        PROVE  UNCHANGED calls
    BY <1>4 DEF Connect, Drop, OpenRoom, Back, ModeOff
  <1>5. ASSUME NEW k \in Conn, Authenticated(k) \/ Refused(k) \/ Notice(k)
        PROVE  UNCHANGED calls
    BY <1>5 DEF Authenticated, Refused, Notice
  <1>6. CASE (\E m \in msgs.posting : Broadcast(m)) \/ Revoke \/ DeleteSession \/ UserMessage
             \/ RoomSteps
    BY <1>6, RoomStepsOnly DEF Broadcast, Revoke, DeleteSession, UserMessage, Post
  <1>7. QED
    BY <1>1, <1>2, <1>3, <1>4, <1>5, <1>6 DEF Next, RoomSteps

\* What Post and Broadcast do to the messages.
LEMMA PostTyped ==
  ASSUME MsgTypes, NEW others, Post(others)
  PROVE  /\ MsgTypes' /\ UNCHANGED others
         /\ DOMAIN msgs'.history = 1..(Len(msgs.history) + 1)
         /\ DOMAIN msgs.history = 1..Len(msgs.history)
         /\ Len(msgs.history) \in Nat /\ Len(msgs'.history) = Len(msgs.history) + 1
         /\ msgs'.history[Len(msgs.history) + 1] = Len(msgs.history) + 1
         /\ \A i \in DOMAIN msgs.history : msgs'.history[i] = msgs.history[i]
         /\ msgs'.posting = msgs.posting \cup {Len(msgs.history) + 1}
  <1> DEFINE h == msgs.history
             m == Len(h) + 1
  <1>1. h \in Seq(Msg) /\ msgs.posting \in SUBSET Msg
    BY DEF MsgTypes
  <1>2. /\ msgs' = [history |-> Append(h, m), posting |-> msgs.posting \cup {m}]
        /\ Len(h) < MaxMsgs /\ UNCHANGED others
    BY DEF Post
  <1>3. Len(h) \in Nat /\ m \in Msg
    BY <1>1, <1>2, ModerationAssumption DEF Msg
  <1>4. msgs'.history = Append(h, m) /\ msgs'.posting = msgs.posting \cup {m}
    BY <1>2
  <1>5. /\ Append(h, m) \in Seq(Msg) /\ Len(Append(h, m)) = Len(h) + 1
        /\ DOMAIN Append(h, m) = 1..(Len(h) + 1) /\ DOMAIN h = 1..Len(h)
        /\ Append(h, m)[Len(h) + 1] = m
        /\ \A i \in 1..Len(h) : Append(h, m)[i] = h[i]
    BY <1>1, <1>3
  <1> HIDE DEF h, m
  <1>6. MsgTypes'
    BY <1>1, <1>2, <1>3, <1>5 DEF MsgTypes
  <1>7. QED
    BY <1>2, <1>3, <1>4, <1>5, <1>6 DEF h, m

LEMMA MsgTyped ==
  ASSUME Typed, Next
  PROVE  MsgTypes'
  <1> USE DEF Typed
  <1>1. CASE UserMessage \/ \E c \in calls : AdminMessage(c) /\ takeover /\ room.open
    BY <1>1, PostTyped DEF UserMessage, AdminMessage
  <1>2. ASSUME NEW m \in msgs.posting, Broadcast(m)
        PROVE  MsgTypes'
    BY <1>2 DEF Broadcast, MsgTypes
  <1>3. CASE UNCHANGED msgs
    BY <1>3 DEF MsgTypes
  <1>4. ASSUME NEW c \in calls, ReadHistory(c) \/ MonitorStarted(c) \/ TakeoverEnter(c)
                                \/ TakeoverImpersonate(c)
                                \/ (AdminMessage(c) /\ ~(takeover /\ room.open))
        PROVE  UNCHANGED msgs
    BY <1>4 DEF ReadHistory, MonitorStarted, TakeoverEnter, AdminMessage, TakeoverImpersonate
  <1>5. ASSUME NEW t \in Tab, Connect(t) \/ Drop(t) \/ OpenRoom(t) \/ Watch(t) \/ Back(t)
                              \/ ModeOn(t) \/ ModeOff(t) \/ SendNote(t) \/ AskImpersonate(t)
        PROVE  UNCHANGED msgs
    BY <1>5 DEF Connect, Drop, OpenRoom, Watch, Back, ModeOn, ModeOff, SendNote, AskImpersonate
  <1>6. ASSUME NEW k \in Conn, Authenticated(k) \/ Refused(k) \/ Notice(k)
        PROVE  UNCHANGED msgs
    BY <1>6 DEF Authenticated, Refused, Notice
  <1>7. CASE Revoke \/ DeleteSession \/ RoomSteps
    BY <1>7, RoomStepsOnly DEF Revoke, DeleteSession, MsgTypes
  <1>8. QED
    BY <1>1, <1>2, <1>3, <1>4, <1>5, <1>6, <1>7 DEF Next, RoomSteps

LEMMA RestTyped ==
  ASSUME Typed, Next
  PROVE  RestTypes'
  <1> USE DEF Typed, RestTypes
  <1>1. CASE RoomSteps
    <2>1. UNCHANGED <<session, monitored, takeover, acts>>
      BY <1>1, RoomStepsOnly
    <2>2. room' \in [open : BOOLEAN, other : {"chats", "waits", "left"},
                     entry : {"no", "find", "in"}, leave : {"no", "delete", "tell"},
                     cleanup : {"no", "find", "delete", "tell", "done", "failed"}]
      BY <1>1 DEF RoomSteps, Only, TakeoverFind, TakeoverConnection, PutOutCleanup, CleanupFails,
                  CleanupFind, CleanupDelete, CleanupTell, WaiterGoes, WaiterLeaves, EndByWaiter,
                  WaiterIsOut
    <2>3. QED
      BY <2>1, <2>2
  <1>2. CASE ~RoomSteps
    <2>1. acts' = acts \/ (acts < MaxActs /\ acts' \in {acts + 1, MaxActs})
      BY <1>2 DEF Next, Connect, Drop, OpenRoom, Watch, Back, ModeOn, ModeOff, SendNote, Act,
                  AskImpersonate, Authenticated, Refused, Notice, ReadHistory, MonitorStarted,
                  TakeoverEnter, AdminMessage, Post, TakeoverImpersonate, Broadcast, Revoke,
                  DeleteSession, UserMessage, RoomSteps
    <2>2. acts' \in 0..MaxActs
      BY <2>1, ModerationAssumption
    <2>3. session' \in {"valid", "revoking", "revoked"}
      BY <1>2 DEF Next, Connect, Drop, OpenRoom, Watch, Back, ModeOn, ModeOff, SendNote,
                  AskImpersonate, Authenticated, Refused, Notice, ReadHistory, MonitorStarted,
                  TakeoverEnter, AdminMessage, Post, TakeoverImpersonate, Broadcast, Revoke,
                  DeleteSession, UserMessage, RoomSteps
    <2>4. monitored' \in BOOLEAN /\ takeover' \in BOOLEAN
      BY <1>2 DEF Next, Connect, Drop, OpenRoom, Watch, Back, ModeOn, ModeOff, SendNote,
                  AskImpersonate, Authenticated, Refused, Notice, CleanupMonitoredRooms,
                  ReadHistory, MonitorStarted, TakeoverEnter, AdminMessage, Post,
                  TakeoverImpersonate, Broadcast, Revoke, DeleteSession, UserMessage, RoomSteps
    <2>5. \/ UNCHANGED room
          \/ room' = [room EXCEPT !.cleanup = "find", !.other = "waits"]
      BY <1>2 DEF Next, Connect, Drop, OpenRoom, Watch, Back, ModeOn, ModeOff, SendNote,
                  AskImpersonate, Authenticated, Refused, Notice, ReadHistory, MonitorStarted,
                  TakeoverEnter, AdminMessage, Post, TakeoverImpersonate, Broadcast, Revoke,
                  DeleteSession, UserMessage, RoomSteps
    <2>6. QED
      BY <2>2, <2>3, <2>4, <2>5
  <1>3. QED
    BY <1>1, <1>2

LEMMA NextTyped ==
  ASSUME Typed, NetHeld, AuthedIsIn, Listing, [Next]_vars
  PROVE  Typed'
  <1>1. CASE Next
    BY <1>1, ConnTyped, ListTyped, CallTyped, TabTyped, MsgTyped, RestTyped DEF Typed
  <1>2. CASE UNCHANGED vars
    BY <1>2 DEF vars, Typed, ConnTypes, ListTypes, CallTypes, TabTypes, MsgTypes, RestTypes
  <1>3. QED
    BY <1>1, <1>2

-----------------------------------------------------------------------------
(* Both ends of a connection, the table and the handlers agree.             *)

\* What leaving the page and a broadcast do to the pages.
LEMMA BackShape ==
  ASSUME Typed, NEW t \in Tab, Back(t)
  PROVE  /\ \A u \in Tab : /\ tabs'[u].conn = tabs[u].conn /\ tabs'[u].authed = tabs[u].authed
                           /\ tabs'[u].watching => tabs[u].watching
                           /\ tabs'[u].racy = tabs[u].racy
                           /\ tabs'[u].shown = tabs[u].shown \/ tabs'[u].shown = <<>>
         /\ \/ \A u \in Tab : ~tabs'[u].fresh
            \/ /\ UNCHANGED monitored
               /\ \A u \in Tab : /\ tabs'[u].fresh = tabs[u].fresh
                                 /\ tabs'[u].shown = tabs[u].shown
  <1> DEFINE left == [tabs EXCEPT ![t] = [@ EXCEPT !.open = FALSE, !.mode = FALSE]]
             gone == [left EXCEPT ![t] = [@ EXCEPT !.watching = FALSE, !.shown = <<>>]]
  <1>1. tabs \in [Tab -> Page]
    BY DEF Typed, TabTypes
  <1>2. /\ left \in [Tab -> Page]
        /\ \A u \in Tab : /\ left[u].conn = tabs[u].conn /\ left[u].authed = tabs[u].authed
                          /\ left[u].watching = tabs[u].watching
                          /\ left[u].racy = tabs[u].racy /\ left[u].shown = tabs[u].shown
                          /\ left[u].fresh = tabs[u].fresh
    <2>1. [tabs[t] EXCEPT !.open = FALSE, !.mode = FALSE] \in Page
      BY <1>1, PageFields
    <2>2. left \in [Tab -> Page]
      BY <1>1, <2>1
    <2>3. QED
      BY <1>1, <2>2 DEF Page
  <1>3. CASE ~tabs[t].watching
    <2>1. tabs' = left /\ UNCHANGED monitored
      BY <1>3 DEF Back, Typed, RestTypes
    <2>2. QED
      BY <2>1, <1>2
  <1>4. CASE tabs[t].watching
    <2>1. tabs' = Unwatched(gone)
      BY <1>4 DEF Back
    <2> HIDE DEF left
    <2>2. [left[t] EXCEPT !.watching = FALSE, !.shown = <<>>] \in Page
      BY <1>2, PageFields
    <2>3. gone \in [Tab -> Page]
      BY <1>2, <2>2
    <2>4. \A u \in Tab : /\ gone[u].conn = left[u].conn /\ gone[u].authed = left[u].authed
                         /\ gone[u].watching => left[u].watching
                         /\ gone[u].racy = left[u].racy
                         /\ gone[u].shown = left[u].shown \/ gone[u].shown = <<>>
      BY <1>2 DEF Page
    <2> HIDE DEF gone
    <2>5. \A u \in Tab : /\ tabs'[u].conn = gone[u].conn /\ tabs'[u].authed = gone[u].authed
                         /\ tabs'[u].watching = gone[u].watching
                         /\ tabs'[u].racy = gone[u].racy /\ tabs'[u].shown = gone[u].shown
                         /\ ~tabs'[u].fresh
      BY <2>1, <2>3, UnwatchedTyped
    <2>6. \A u \in Tab : /\ tabs'[u].conn = tabs[u].conn /\ tabs'[u].authed = tabs[u].authed
                         /\ tabs'[u].watching => tabs[u].watching
                         /\ tabs'[u].racy = tabs[u].racy
                         /\ tabs'[u].shown = tabs[u].shown \/ tabs'[u].shown = <<>>
      BY <2>4, <2>5, <1>2
    <2>7. QED
      BY <2>5, <2>6
  <1>5. QED
    BY <1>3, <1>4

LEMMA BroadcastShape ==
  ASSUME Typed, NEW m, Broadcast(m)
  PROVE  /\ \A t \in Tab : /\ tabs'[t].conn = tabs[t].conn /\ tabs'[t].authed = tabs[t].authed
                           /\ tabs'[t].watching = tabs[t].watching
                           /\ tabs'[t].racy = tabs[t].racy
                           /\ tabs'[t].fresh => tabs[t].fresh
                           /\ \/ tabs'[t].shown = tabs[t].shown
                              \/ tabs'[t].shown = Append(tabs[t].shown, m)
         /\ monitored /\ table # <<>> =>
              \A t \in Tab : tabs'[t].fresh => tabs'[t].shown = Append(tabs[t].shown, m)
  <1>1. \A t \in Tab : tabs[t] \in Page
    BY DEF Typed, TabTypes
  <1>2. CASE ~monitored \/ table = <<>>
    <2>1. tabs' = tabs
      BY <1>2 DEF Broadcast
    <2>2. QED
      BY <1>2, <2>1
  <1>3. CASE monitored /\ table # <<>>
    <2> SUFFICES ASSUME NEW t \in Tab
                 PROVE  /\ tabs'[t].conn = tabs[t].conn /\ tabs'[t].authed = tabs[t].authed
                        /\ tabs'[t].watching = tabs[t].watching
                        /\ tabs'[t].racy = tabs[t].racy
                        /\ tabs'[t].fresh => tabs[t].fresh
                        /\ \/ tabs'[t].shown = tabs[t].shown
                           \/ tabs'[t].shown = Append(tabs[t].shown, m)
                        /\ tabs'[t].fresh => tabs'[t].shown = Append(tabs[t].shown, m)
      OBVIOUS
    <2>1. \/ tabs'[t] = [tabs[t] EXCEPT !.shown = Append(tabs[t].shown, m)]
          \/ tabs'[t] = [tabs[t] EXCEPT !.fresh = FALSE]
      BY <1>3 DEF Broadcast
    <2>2. QED
      BY <2>1, <1>1 DEF Page
  <1>4. QED
    BY <1>2, <1>3

Linked == NetHeld /\ AuthedIsIn /\ CalledIn /\ Listing

\* Steps that leave connections and the table alone, and what pages hold of them.
LEMMA LinkedKept ==
  ASSUME Typed, Linked, UNCHANGED <<conns, table>>,
         \A t \in Tab : /\ tabs'[t].conn = tabs[t].conn
                        /\ tabs'[t].authed = tabs[t].authed
                        /\ tabs'[t].watching => tabs[t].watching \/ tabs[t].authed,
         \A c \in calls' : c \in calls \/ conns[c.conn].st = "in"
  PROVE  Linked'
  <1>1. NetHeld'
    <2>1. \A k \in Conn : conns[k].net => conns[k].tab \in Tab
      BY DEF Linked, NetHeld
    <2>2. QED
      BY <2>1 DEF Linked, NetHeld
  <1>2. AuthedIsIn'
    BY DEF Linked, AuthedIsIn
  <1>3. CalledIn'
    BY DEF Linked, CalledIn
  <1>4. Listing'
    BY DEF Linked, Listing
  <1>5. QED
    BY <1>1, <1>2, <1>3, <1>4 DEF Linked

LEMMA ConnectLinked ==
  ASSUME Typed, Linked, NEW t \in Tab, Connect(t)
  PROVE  Linked'
  <1>1. PICK k \in Conn :
          /\ conns[k].st = "none" /\ tabs[t].conn = NoConn
          /\ conns' = [conns EXCEPT ![k] = [tab |-> t, st |-> "auth", up |-> TRUE, net |-> TRUE]]
          /\ tabs' = [tabs EXCEPT ![t].conn = k]
          /\ UNCHANGED <<table, calls>>
    BY DEF Connect
  <1>2. /\ conns'[k].tab = t /\ conns'[k].st = "auth" /\ conns'[k].up /\ conns'[k].net
        /\ \A j \in Conn \ {k} : conns'[j] = conns[j]
    BY <1>1 DEF Typed, ConnTypes
  <1>3. /\ tabs'[t].conn = k /\ tabs'[t].authed = tabs[t].authed
        /\ tabs'[t].watching = tabs[t].watching
        /\ \A u \in Tab \ {t} : tabs'[u] = tabs[u]
    BY <1>1 DEF Typed, TabTypes, Page
  <1>4. ~conns[k].net /\ k # NoConn /\ \A u \in Tab : tabs[u].conn # k
    BY <1>1 DEF Linked, NetHeld, Conn, NoConn
  <1>5. \A j \in Conn : conns[j].net => conns[j].tab # t
    BY <1>1 DEF Linked, NetHeld, Conn, NoConn
  <1>6. NetHeld'
    <2>1. \A j \in Conn : conns'[j].st # "none" => conns'[j].tab \in Tab
      BY <1>2 DEF Linked, NetHeld
    <2>2. ASSUME NEW j \in Conn, conns'[j].net
          PROVE  /\ conns'[j].up /\ conns'[j].st \in {"auth", "in"}
                 /\ tabs'[conns'[j].tab].conn = j
      <3>1. CASE j = k
        BY <3>1, <1>2, <1>3
      <3>2. CASE j # k
        <4>1. conns'[j] = conns[j] /\ conns[j].net /\ conns[j].tab \in Tab \ {t}
          BY <2>2, <3>2, <1>2, <1>5 DEF Linked, NetHeld
        <4>2. QED
          BY <4>1, <1>3 DEF Linked, NetHeld
      <3>3. QED
        BY <3>1, <3>2
    <2>3. ASSUME NEW u \in Tab, tabs'[u].conn # NoConn
          PROVE  conns'[tabs'[u].conn].tab = u /\ conns'[tabs'[u].conn].net
      <3>1. CASE u = t
        BY <3>1, <1>2, <1>3
      <3>2. CASE u # t
        <4>1. tabs'[u] = tabs[u] /\ tabs[u].conn \in Conn \ {k}
          BY <2>3, <3>2, <1>3, <1>4 DEF Typed, TabTypes, Page
        <4>2. QED
          BY <4>1, <2>3, <1>2 DEF Linked, NetHeld
      <3>3. QED
        BY <3>1, <3>2
    <2>4. QED
      BY <2>1, <2>2, <2>3 DEF NetHeld
  <1>7. AuthedIsIn'
    <2>1. ~tabs[t].authed /\ ~tabs[t].watching
      BY <1>1 DEF Linked, AuthedIsIn
    <2>2. \A u \in Tab : tabs[u].conn # NoConn => tabs[u].conn \in Conn \ {k}
      BY <1>4 DEF Typed, TabTypes, Page
    <2>3. QED
      BY <2>1, <2>2, <1>2, <1>3 DEF Linked, AuthedIsIn
  <1>8. CalledIn'
    BY <1>1, <1>2 DEF Linked, CalledIn, Typed, CallTypes
  <1>9. Listing'
    <2>1. \A i \in DOMAIN table : table[i] \in Conn \ {k}
      BY <1>1 DEF Linked, Listing
    <2>2. QED
      BY <2>1, <1>1, <1>2 DEF Linked, Listing
  <1>10. QED
    BY <1>6, <1>7, <1>8, <1>9 DEF Linked

LEMMA AuthenticatedLinked ==
  ASSUME Typed, Linked, NEW k \in Conn, Authenticated(k)
  PROVE  Linked'
  <1> DEFINE t == conns[k].tab
  <1>1. /\ conns'[k].tab = conns[k].tab /\ conns'[k].st = "in" /\ conns'[k].up = conns[k].up
        /\ conns'[k].net = conns[k].net
        /\ \A j \in Conn \ {k} : conns'[j] = conns[j]
    BY DEF Authenticated, Typed, ConnTypes
  <1>2. /\ t \in Tab /\ conns[k].st = "auth" /\ table' = Append(table, k) /\ UNCHANGED calls
        /\ conns[k].net => tabs[t].conn = k /\ k # NoConn
    BY DEF Authenticated, Linked, NetHeld, Conn, NoConn
  <1>3. /\ \A u \in Tab : tabs'[u].conn = tabs[u].conn /\ tabs'[u].watching = tabs[u].watching
        /\ tabs[t].authed => tabs'[t].authed
        /\ tabs'[t].authed => tabs[t].authed \/ conns[k].net
        /\ \A u \in Tab \ {t} : tabs'[u].authed = tabs[u].authed
    <2>1. CASE conns[k].net
      <3>1. tabs' = [tabs EXCEPT ![t].authed = TRUE]
        BY <2>1 DEF Authenticated
      <3>2. QED
        BY <2>1, <3>1, <1>2 DEF Typed, TabTypes, Page
    <2>2. CASE ~conns[k].net
      BY <2>2 DEF Authenticated
    <2>3. QED
      BY <2>1, <2>2
  <1> HIDE DEF t
  <1>4. \A j \in Conn : /\ conns'[j].tab = conns[j].tab
                        /\ conns'[j].up = conns[j].up /\ conns'[j].net = conns[j].net
                        /\ conns'[j].st = IF j = k THEN "in" ELSE conns[j].st
    BY <1>1
  <1>5. NetHeld'
    <2>1. \A u \in Tab : tabs[u].conn # NoConn => tabs[u].conn \in Conn
      BY DEF Typed, TabTypes, Page
    <2>2. \A j \in Conn : conns[j].net => conns[j].tab \in Tab
      BY DEF Linked, NetHeld
    <2>3. QED
      BY <2>1, <2>2, <1>2, <1>3, <1>4 DEF Linked, NetHeld, t
  <1>6. AuthedIsIn'
    <2>1. ASSUME NEW u \in Tab, tabs'[u].authed
          PROVE  tabs'[u].conn # NoConn /\ conns'[tabs'[u].conn].st = "in"
      <3>1. CASE tabs[u].authed
        <4>1. tabs[u].conn \in Conn /\ tabs[u].conn # NoConn /\ conns[tabs[u].conn].st = "in"
          BY <3>1 DEF Linked, AuthedIsIn, Typed, TabTypes, Page
        <4>2. QED
          BY <4>1, <1>3, <1>4
      <3>2. CASE ~tabs[u].authed
        <4>1. u = t /\ conns[k].net
          BY <2>1, <3>2, <1>3
        <4>2. QED
          BY <4>1, <1>2, <1>3, <1>4
      <3>3. QED
        BY <3>1, <3>2
    <2>2. ASSUME NEW u \in Tab, tabs'[u].watching
          PROVE  tabs'[u].authed
      <3>1. tabs[u].authed
        BY <2>2, <1>3 DEF Linked, AuthedIsIn
      <3>2. QED
        BY <3>1, <1>3
    <2>3. QED
      BY <2>1, <2>2 DEF AuthedIsIn
  <1>7. CalledIn'
    BY <1>2, <1>4 DEF Linked, CalledIn, Typed, CallTypes
  <1>8. Listing'
    <2>1. /\ Len(table) \in Nat /\ DOMAIN table = 1..Len(table)
          /\ table' \in Seq(Conn) /\ DOMAIN table' = 1..(Len(table) + 1)
          /\ table'[Len(table) + 1] = k
          /\ \A i \in 1..Len(table) : table'[i] = table[i]
      BY <1>2 DEF Linked, Listing
    <2>2. \A i \in 1..Len(table) : table[i] \in Conn /\ table[i] # k /\ conns[table[i]].st = "in"
      BY <1>2, <2>1 DEF Linked, Listing
    <2>3. ASSUME NEW i \in DOMAIN table', NEW j \in DOMAIN table', table'[i] = table'[j]
          PROVE  i = j
      BY <2>1, <2>2, <2>3 DEF Linked, Listing
    <2>4. ASSUME NEW i \in DOMAIN table'
          PROVE  conns'[table'[i]].st = "in"
      BY <2>1, <2>2, <1>4
    <2>5. ASSUME NEW j \in Conn, conns'[j].up, conns'[j].st = "in"
          PROVE  \E i \in DOMAIN table' : table'[i] = j
      <3>1. CASE j = k
        <4>1. Len(table) + 1 \in DOMAIN table'
          BY <2>1
        <4>2. QED
          BY <3>1, <4>1, <2>1
      <3>2. CASE j # k
        <4>1. PICK i \in DOMAIN table : table[i] = j
          BY <2>5, <3>2, <1>4 DEF Linked, Listing
        <4>2. i \in DOMAIN table' /\ table'[i] = j
          BY <4>1, <2>1
        <4>3. QED
          BY <4>2
      <3>3. QED
        BY <3>1, <3>2
    <2>6. QED
      BY <2>1, <2>3, <2>4, <2>5 DEF Listing
  <1>9. QED
    BY <1>5, <1>6, <1>7, <1>8 DEF Linked

\* Connections end, and the pages that hold them let go of them.
LEMMA ClosingLinked ==
  ASSUME Typed, Linked, NEW G \in SUBSET Conn, UNCHANGED calls,
         \A k \in Conn \ G : conns'[k] = conns[k],
         \A k \in G : /\ conns'[k].tab = conns[k].tab /\ ~conns'[k].net
                      /\ conns'[k].st = conns[k].st \/ conns[k].st = "auth",
         \A t \in Tab : IF tabs[t].conn \in G
                        THEN tabs'[t].conn = NoConn /\ ~tabs'[t].authed /\ ~tabs'[t].watching
                        ELSE /\ tabs'[t].conn = tabs[t].conn
                             /\ tabs'[t].authed = tabs[t].authed
                             /\ tabs'[t].watching = tabs[t].watching
  PROVE  NetHeld' /\ AuthedIsIn' /\ CalledIn'
  <1>1. \A t \in Tab : tabs[t].conn # NoConn => tabs[t].conn \in Conn
    BY DEF Typed, TabTypes, Page
  <1>2. NetHeld'
    <2>1. ASSUME NEW k \in Conn, conns'[k].st # "none"
          PROVE  conns'[k].tab \in Tab
      BY <2>1 DEF Linked, NetHeld
    <2>2. ASSUME NEW k \in Conn, conns'[k].net
          PROVE  /\ conns'[k].up /\ conns'[k].st \in {"auth", "in"}
                 /\ tabs'[conns'[k].tab].conn = k
      <3>1. k \notin G /\ conns'[k] = conns[k]
        BY <2>2
      <3>2. /\ conns[k].up /\ conns[k].st \in {"auth", "in"} /\ conns[k].tab \in Tab
            /\ tabs[conns[k].tab].conn = k
        BY <2>2, <3>1 DEF Linked, NetHeld
      <3>3. QED
        BY <3>1, <3>2
    <2>3. ASSUME NEW t \in Tab, tabs'[t].conn # NoConn
          PROVE  conns'[tabs'[t].conn].tab = t /\ conns'[tabs'[t].conn].net
      <3>1. tabs[t].conn \notin G /\ tabs'[t].conn = tabs[t].conn /\ tabs[t].conn \in Conn
        BY <2>3, <1>1
      <3>2. QED
        BY <2>3, <3>1 DEF Linked, NetHeld
    <2>4. QED
      BY <2>1, <2>2, <2>3 DEF NetHeld
  <1>3. AuthedIsIn'
    <2>1. ASSUME NEW t \in Tab, tabs[t].conn \notin G
          PROVE  /\ tabs'[t].authed => /\ tabs'[t].conn # NoConn
                                       /\ conns'[tabs'[t].conn].st = "in"
                 /\ tabs'[t].watching => tabs'[t].authed
      BY <2>1, <1>1 DEF Linked, AuthedIsIn
    <2>2. QED
      BY <2>1 DEF AuthedIsIn
  <1>4. CalledIn'
    <2>1. \A c \in calls : c.conn \in Conn /\ conns[c.conn].st = "in"
      BY DEF Linked, CalledIn, Typed, CallTypes
    <2>2. \A k \in Conn : conns[k].st = "in" => conns'[k].st = "in"
      OBVIOUS
    <2>3. QED
      BY <2>1, <2>2 DEF CalledIn
  <1>5. QED
    BY <1>2, <1>3, <1>4

LEMMA DropLinked ==
  ASSUME Typed, Linked, NEW t \in Tab, Drop(t)
  PROVE  Linked'
  <1> DEFINE k == tabs[t].conn
  <1>1. k \in Conn /\ k # NoConn
    BY DEF Drop, Typed, TabTypes, Page
  <1>2. conns' = [conns EXCEPT ![k].net = FALSE] /\ UNCHANGED <<table, calls>>
    BY DEF Drop
  <1>3. tabs' = [tabs EXCEPT ![t] = Unplugged(tabs[t])]
    BY DEF Drop
  <1>4. \A u \in Tab : tabs[u].conn = k <=> u = t
    BY <1>1 DEF Linked, NetHeld
  <1>5. tabs[t] \in Page
    BY DEF Typed, TabTypes
  <1>6. \A u \in Tab : IF u = t
                       THEN tabs'[u].conn = NoConn /\ ~tabs'[u].authed /\ ~tabs'[u].watching
                       ELSE tabs'[u] = tabs[u]
    BY <1>3, <1>5, UnpluggedTyped DEF Typed, TabTypes
  <1> HIDE DEF k
  <1>7. /\ \A j \in Conn \ {k} : conns'[j] = conns[j]
        /\ conns'[k].tab = conns[k].tab /\ ~conns'[k].net
        /\ conns'[k].st = conns[k].st /\ conns'[k].up = conns[k].up
    BY <1>1, <1>2 DEF Typed, ConnTypes
  <1>8. NetHeld' /\ AuthedIsIn' /\ CalledIn'
    <2>1. {k} \in SUBSET Conn
      BY <1>1
    <2>2. \A u \in Tab : IF tabs[u].conn \in {k}
                         THEN tabs'[u].conn = NoConn /\ ~tabs'[u].authed /\ ~tabs'[u].watching
                         ELSE tabs'[u] = tabs[u]
      BY <1>4, <1>6
    <2>3. QED
      BY <2>1, <2>2, <1>2, <1>7, ClosingLinked
  <1>9. Listing'
    <2>1. \A j \in Conn : conns'[j].st = conns[j].st /\ conns'[j].up = conns[j].up
      BY <1>7
    <2>2. QED
      BY <2>1, <1>2 DEF Linked, Listing
  <1>10. QED
    BY <1>8, <1>9 DEF Linked

LEMMA RefusedLinked ==
  ASSUME Typed, Linked, NEW k \in Conn, Refused(k)
  PROVE  Linked'
  <1> DEFINE t == conns[k].tab
             f == IF conns[k].net THEN [tabs EXCEPT ![t] = Unplugged(@)] ELSE tabs
  <1>1. /\ conns' = [conns EXCEPT ![k] = [@ EXCEPT !.st = "out", !.up = FALSE, !.net = FALSE]]
        /\ tabs' = Unwatched(f) /\ UNCHANGED <<table, calls>> /\ conns[k].st = "auth"
    BY DEF Refused
  <1>2. t \in Tab /\ tabs \in [Tab -> Page] /\ k # NoConn
    BY <1>1 DEF Linked, NetHeld, Typed, TabTypes, Conn, NoConn
  <1>3. f \in [Tab -> Page]
    BY <1>2, UnpluggedTyped
  <1>4. \A u \in Tab : tabs[u].conn = k <=> u = t /\ conns[k].net
    BY <1>2 DEF Linked, NetHeld
  <1>5. \A u \in Tab : IF tabs[u].conn \in {k} THEN f[u] = Unplugged(tabs[u]) ELSE f[u] = tabs[u]
    BY <1>2, <1>4
  <1> HIDE DEF f
  <1>6. \A u \in Tab : IF tabs[u].conn \in {k}
                       THEN tabs'[u].conn = NoConn /\ ~tabs'[u].authed /\ ~tabs'[u].watching
                       ELSE /\ tabs'[u].conn = tabs[u].conn
                            /\ tabs'[u].authed = tabs[u].authed
                            /\ tabs'[u].watching = tabs[u].watching
    <2> SUFFICES ASSUME NEW u \in Tab
                 PROVE  IF tabs[u].conn \in {k}
                        THEN tabs'[u].conn = NoConn /\ ~tabs'[u].authed /\ ~tabs'[u].watching
                        ELSE /\ tabs'[u].conn = tabs[u].conn
                             /\ tabs'[u].authed = tabs[u].authed
                             /\ tabs'[u].watching = tabs[u].watching
      OBVIOUS
    <2>1. /\ tabs'[u].conn = f[u].conn /\ tabs'[u].authed = f[u].authed
          /\ tabs'[u].watching = f[u].watching
      BY <1>1, <1>3, UnwatchedTyped
    <2>2. CASE tabs[u].conn = k
      <3>1. f[u] = Unplugged(tabs[u]) /\ tabs[u] \in Page
        BY <2>2, <1>2, <1>5
      <3>2. f[u].conn = NoConn /\ f[u].authed = FALSE /\ f[u].watching = FALSE
        BY <3>1, UnpluggedTyped
      <3>3. QED
        BY <2>1, <2>2, <3>2
    <2>3. CASE tabs[u].conn # k
      BY <2>1, <2>3, <1>5
    <2>4. QED
      BY <2>2, <2>3
  <1>7. /\ \A j \in Conn \ {k} : conns'[j] = conns[j]
        /\ conns'[k].tab = conns[k].tab /\ ~conns'[k].net /\ ~conns'[k].up
        /\ conns'[k].st = "out"
    BY <1>1 DEF Typed, ConnTypes
  <1>8. NetHeld' /\ AuthedIsIn' /\ CalledIn'
    <2>1. {k} \in SUBSET Conn
      OBVIOUS
    <2>2. QED
      BY <2>1, <1>1, <1>6, <1>7, ClosingLinked
  <1>9. Listing'
    <2>1. \A i \in DOMAIN table : table[i] \in Conn \ {k}
      BY <1>1 DEF Linked, Listing
    <2>2. QED
      BY <2>1, <1>1, <1>7 DEF Linked, Listing
  <1>10. QED
    BY <1>8, <1>9 DEF Linked

LEMMA NoticeLinked ==
  ASSUME Typed, Linked, NEW k \in Conn, Notice(k)
  PROVE  Linked'
  <1>1. /\ conns' = [conns EXCEPT ![k].up = FALSE] /\ UNCHANGED calls
        /\ tabs' = Unwatched(tabs) /\ conns[k].up /\ ~conns[k].net
    BY DEF Notice
  <1>2. /\ \A j \in Conn \ {k} : conns'[j] = conns[j]
        /\ conns'[k].tab = conns[k].tab /\ ~conns'[k].net /\ ~conns'[k].up
        /\ conns'[k].st = conns[k].st
    BY <1>1 DEF Typed, ConnTypes
  <1>3. k # NoConn /\ \A u \in Tab : tabs[u].conn # k
    BY <1>1 DEF Linked, NetHeld, Conn, NoConn
  <1>4. \A u \in Tab : /\ tabs'[u].conn = tabs[u].conn
                       /\ tabs'[u].authed = tabs[u].authed
                       /\ tabs'[u].watching = tabs[u].watching
    BY <1>1, UnwatchedTyped DEF Typed, TabTypes
  <1>5. NetHeld' /\ AuthedIsIn' /\ CalledIn'
    <2>1. {k} \in SUBSET Conn
      OBVIOUS
    <2>2. QED
      BY <2>1, <1>1, <1>2, <1>3, <1>4, ClosingLinked
  <1>6. \A j \in Conn : conns'[j].st = conns[j].st
    BY <1>2
  <1>7. Listing'
    <2>1. CASE k \notin ToSet(table) /\ UNCHANGED table
      <3>1. \A i \in DOMAIN table : table[i] # k
        BY <2>1 DEF ToSet
      <3>2. QED
        BY <2>1, <3>1, <1>2, <1>6 DEF Linked, Listing
    <2>2. CASE \E i \in DOMAIN table : table[i] = k /\ table' = RemoveAt(table, i)
      <3>1. PICK i \in DOMAIN table : table[i] = k /\ table' = RemoveAt(table, i)
        BY <2>2
      <3>2. /\ table' \in Seq(Conn)
            /\ \A j \in DOMAIN table' : \E l \in DOMAIN table \ {i} : table'[j] = table[l]
            /\ \A l \in DOMAIN table \ {i} : \E j \in DOMAIN table' : table'[j] = table[l]
            /\ \A j, l \in DOMAIN table' : table'[j] = table'[l] => j = l
        BY <3>1, RemoveAtShape DEF Linked, Listing
      <3>3. \A j \in DOMAIN table' : conns'[table'[j]].st = "in"
        BY <3>2, <1>6 DEF Linked, Listing
      <3>4. ASSUME NEW j \in Conn, conns'[j].up, conns'[j].st = "in"
            PROVE  \E l \in DOMAIN table' : table'[l] = j
        <4>1. j # k /\ conns[j].up /\ conns[j].st = "in"
          BY <3>4, <1>2
        <4>2. PICK l \in DOMAIN table : table[l] = j
          BY <4>1 DEF Linked, Listing
        <4>3. l # i
          BY <4>1, <4>2, <3>1
        <4>4. QED
          BY <4>2, <4>3, <3>2
      <3>5. QED
        BY <3>2, <3>3, <3>4 DEF Listing
    <2>3. QED
      BY <2>1, <2>2 DEF Notice
  <1>8. QED
    BY <1>5, <1>7 DEF Linked

LEMMA RevokeLinked ==
  ASSUME Typed, Linked, Revoke
  PROVE  Linked'
  <1> DEFINE G == ToSet(table)
  <1>1. G \in SUBSET Conn /\ \A k \in Conn : k \in G <=> \E i \in DOMAIN table : table[i] = k
    BY DEF Linked, Listing, ToSet
  <1>2. /\ conns' = [k \in Conn |-> IF k \in G THEN [conns[k] EXCEPT !.up = FALSE, !.net = FALSE]
                                    ELSE conns[k]]
        /\ table' = <<>> /\ tabs' = RevokedTabs(G) /\ UNCHANGED calls
    BY DEF Revoke
  <1> HIDE DEF G
  <1>3. /\ \A k \in Conn \ G : conns'[k] = conns[k]
        /\ \A k \in G : /\ conns'[k].tab = conns[k].tab /\ ~conns'[k].net /\ ~conns'[k].up
                        /\ conns'[k].st = conns[k].st
    <2>1. ASSUME NEW k \in G
          PROVE  /\ conns'[k].tab = conns[k].tab /\ ~conns'[k].net /\ ~conns'[k].up
                 /\ conns'[k].st = conns[k].st
      <3>1. k \in Conn /\ conns'[k] = [conns[k] EXCEPT !.up = FALSE, !.net = FALSE]
        BY <1>1, <1>2
      <3>2. QED
        BY <3>1 DEF Typed, ConnTypes
    <2>2. \A k \in Conn \ G : conns'[k] = conns[k]
      BY <1>2
    <2>3. QED
      BY <2>1, <2>2
  <1>4. \A t \in Tab : IF tabs[t].conn \in G
                       THEN tabs'[t].conn = NoConn /\ ~tabs'[t].authed /\ ~tabs'[t].watching
                       ELSE /\ tabs'[t].conn = tabs[t].conn
                            /\ tabs'[t].authed = tabs[t].authed
                            /\ tabs'[t].watching = tabs[t].watching
    <2> SUFFICES ASSUME NEW t \in Tab
                 PROVE  IF tabs[t].conn \in G
                        THEN tabs'[t].conn = NoConn /\ ~tabs'[t].authed /\ ~tabs'[t].watching
                        ELSE /\ tabs'[t].conn = tabs[t].conn
                             /\ tabs'[t].authed = tabs[t].authed
                             /\ tabs'[t].watching = tabs[t].watching
      OBVIOUS
    <2>1. IF tabs[t].conn \in G
          THEN /\ tabs'[t].conn = NoConn /\ tabs'[t].authed = FALSE
               /\ tabs'[t].watching = FALSE
          ELSE /\ tabs'[t].conn = tabs[t].conn /\ tabs'[t].authed = tabs[t].authed
               /\ tabs'[t].watching = tabs[t].watching
      BY <1>2, RevokedTyped DEF Typed
    <2>2. QED
      BY <2>1
  <1>5. NetHeld' /\ AuthedIsIn' /\ CalledIn'
    BY <1>1, <1>2, <1>3, <1>4, ClosingLinked
  <1>6. Listing'
    <2>1. table' \in Seq(Conn) /\ DOMAIN table' = {}
      <3>1. <<>> \in Seq(Conn) /\ DOMAIN <<>> = {}
        OBVIOUS
      <3>2. QED
        BY <3>1, <1>2
    <2>2. \A k \in Conn : ~(conns'[k].up /\ conns'[k].st = "in")
      BY <1>1, <1>3 DEF Linked, Listing
    <2>3. QED
      BY <2>1, <2>2 DEF Listing
  <1>7. QED
    BY <1>5, <1>6 DEF Linked

LEMMA NextLinked ==
  ASSUME Typed, Linked, [Next]_vars
  PROVE  Linked'
  <1>1. ASSUME NEW t \in Tab, Watch(t) \/ ModeOn(t) \/ SendNote(t) \/ AskImpersonate(t)
        PROVE  Linked'
    <2>1. conns[tabs[t].conn].st = "in" /\ tabs[t].authed
      BY <1>1 DEF Watch, ModeOn, SendNote, AskImpersonate, Ready, Linked, AuthedIsIn
    <2>2. \A o : Call(t, o).conn = tabs[t].conn
      BY DEF Call
    <2>3. \A c \in calls' : c \in calls \/ conns[c.conn].st = "in"
      BY <1>1, <2>1, <2>2 DEF Watch, ModeOn, SendNote, AskImpersonate
    <2>4. \A u \in Tab : /\ tabs'[u].conn = tabs[u].conn /\ tabs'[u].authed = tabs[u].authed
                         /\ tabs'[u].watching => tabs[u].watching \/ tabs[u].authed
      <3>1. CASE Watch(t)
        BY <3>1, <2>1 DEF Watch, Typed, TabTypes, Page
      <3>2. CASE ModeOn(t) \/ SendNote(t) \/ AskImpersonate(t)
        <4>1. UNCHANGED tabs \/ tabs' = [tabs EXCEPT ![t].mode = TRUE]
          BY <3>2 DEF ModeOn, SendNote, AskImpersonate
        <4>2. CASE UNCHANGED tabs
          BY <4>2
        <4>3. CASE tabs' = [tabs EXCEPT ![t].mode = TRUE]
          BY <4>3 DEF Typed, TabTypes, Page
        <4>4. QED
          BY <4>1, <4>2, <4>3
      <3>3. QED
        BY <1>1, <3>1, <3>2
    <2>5. UNCHANGED <<conns, table>>
      BY <1>1 DEF Watch, ModeOn, SendNote, AskImpersonate
    <2>6. QED
      BY <2>3, <2>4, <2>5, LinkedKept
  <1>2. ASSUME NEW t \in Tab, OpenRoom(t) \/ ModeOff(t)
        PROVE  Linked'
    <2>1. \A u \in Tab : /\ tabs'[u].conn = tabs[u].conn /\ tabs'[u].authed = tabs[u].authed
                         /\ tabs'[u].watching = tabs[u].watching
      BY <1>2 DEF OpenRoom, ModeOff, Typed, TabTypes, Page
    <2>2. UNCHANGED <<conns, table, calls>>
      BY <1>2 DEF OpenRoom, ModeOff
    <2>3. QED
      BY <2>1, <2>2, LinkedKept
  <1>3. ASSUME NEW t \in Tab, Back(t)
        PROVE  Linked'
    <2>1. \A u \in Tab : /\ tabs'[u].conn = tabs[u].conn /\ tabs'[u].authed = tabs[u].authed
                         /\ tabs'[u].watching => tabs[u].watching
      BY <1>3, BackShape
    <2>2. UNCHANGED <<conns, table, calls>>
      BY <1>3 DEF Back
    <2>3. QED
      BY <2>1, <2>2, LinkedKept
  <1>4. ASSUME NEW c \in calls, ReadHistory(c)
        PROVE  Linked'
    <2>1. c.conn \in Conn /\ conns[c.conn].st = "in"
      BY DEF Linked, CalledIn, Typed, CallTypes
    <2>2. [c EXCEPT !.op = "started", !.data = FirstOf(msgs.history)].conn = c.conn
      BY DEF Typed, CallTypes
    <2>3. \A d \in calls' : d \in calls \/ conns[d.conn].st = "in"
      BY <1>4, <2>1, <2>2 DEF ReadHistory
    <2>4. UNCHANGED <<conns, table, tabs>>
      BY <1>4 DEF ReadHistory
    <2>5. QED
      BY <2>3, <2>4, LinkedKept
  <1>5. ASSUME NEW c \in calls, MonitorStarted(c)
        PROVE  Linked'
    <2>1. \A u \in Tab : /\ tabs'[u].conn = tabs[u].conn /\ tabs'[u].authed = tabs[u].authed
                         /\ tabs'[u].watching = tabs[u].watching
      BY <1>5 DEF MonitorStarted, Typed, TabTypes, Page
    <2>2. UNCHANGED <<conns, table>> /\ calls' \subseteq calls
      BY <1>5 DEF MonitorStarted
    <2>3. QED
      BY <2>1, <2>2, LinkedKept
  <1>6. ASSUME NEW c \in calls, TakeoverEnter(c) \/ AdminMessage(c) \/ TakeoverImpersonate(c)
        PROVE  Linked'
    <2>1. UNCHANGED <<conns, table, tabs>> /\ calls' \subseteq calls
      BY <1>6 DEF TakeoverEnter, AdminMessage, Post, TakeoverImpersonate
    <2>2. QED
      BY <2>1, LinkedKept
  <1>7. ASSUME NEW m \in msgs.posting, Broadcast(m)
        PROVE  Linked'
    <2>1. \A u \in Tab : /\ tabs'[u].conn = tabs[u].conn /\ tabs'[u].authed = tabs[u].authed
                         /\ tabs'[u].watching = tabs[u].watching
      BY <1>7, BroadcastShape
    <2>2. UNCHANGED <<conns, table, calls>>
      BY <1>7 DEF Broadcast
    <2>3. QED
      BY <2>1, <2>2, LinkedKept
  <1>8. CASE DeleteSession \/ UserMessage \/ RoomSteps
             \/ UNCHANGED vars
    <2>1. UNCHANGED <<conns, table, tabs, calls>>
      BY <1>8, RoomStepsOnly DEF DeleteSession, UserMessage, Post, vars
    <2>2. QED
      BY <2>1, LinkedKept
  <1>9. QED
    BY <1>1, <1>2, <1>3, <1>4, <1>5, <1>6, <1>7, <1>8, ConnectLinked, AuthenticatedLinked,
       RefusedLinked, DropLinked, NoticeLinked, RevokeLinked DEF Next, RoomSteps

-----------------------------------------------------------------------------
(* Who is served, and by what.                                              *)

\* Steps that show nothing: a page that stays fresh keeps its connection, what it shows and
\* what it may show twice or not at all; and the administrator stays recorded.
Calm ==
    \A t \in Tab : /\ tabs'[t].racy = tabs[t].racy
                   /\ tabs'[t].shown = tabs[t].shown \/ tabs'[t].shown = <<>>
                   /\ tabs'[t].fresh => /\ tabs[t].fresh /\ tabs'[t].conn = tabs[t].conn
                                        /\ tabs'[t].shown = tabs[t].shown /\ monitored'

LEMMA ConnectionsCalm ==
  ASSUME Typed, Linked, FreshServed, NEW k \in Conn, Authenticated(k) \/ Refused(k) \/ Notice(k)
  PROVE  Calm
  <1>1. tabs \in [Tab -> Page]
    BY DEF Typed, TabTypes
  <1>2. CASE Authenticated(k)
    <2>1. \A t \in Tab : /\ tabs'[t].conn = tabs[t].conn /\ tabs'[t].shown = tabs[t].shown
                         /\ tabs'[t].racy = tabs[t].racy /\ tabs'[t].fresh = tabs[t].fresh
      BY <1>1, <1>2 DEF Authenticated, Page
    <2>2. UNCHANGED monitored
      BY <1>2 DEF Authenticated
    <2>3. QED
      BY <2>1, <2>2 DEF Calm, FreshServed
  <1>3. CASE Refused(k)
    <2> DEFINE t == conns[k].tab
               f == IF conns[k].net THEN [tabs EXCEPT ![t] = Unplugged(@)] ELSE tabs
    <2>1. f \in [Tab -> Page]
      BY <1>1, UnpluggedTyped
    <2>2. \A u \in Tab : f[u].racy = tabs[u].racy /\ f[u].shown = tabs[u].shown
      BY <1>1, UnpluggedTyped
    <2>3. tabs' = Unwatched(f)
      BY <1>3 DEF Refused
    <2> HIDE DEF f
    <2>4. \A u \in Tab : /\ tabs'[u].racy = f[u].racy /\ tabs'[u].shown = f[u].shown
                         /\ ~tabs'[u].fresh
      BY <2>1, <2>3, UnwatchedTyped
    <2>5. QED
      BY <2>2, <2>4 DEF Calm
  <1>4. CASE Notice(k)
    <2>1. tabs' = Unwatched(tabs)
      BY <1>4 DEF Notice
    <2>2. QED
      BY <2>1, <1>1, UnwatchedTyped DEF Calm
  <1>5. QED
    BY <1>2, <1>3, <1>4

LEMMA RevokeCalm ==
  ASSUME Typed, Revoke
  PROVE  Calm
  <1> DEFINE gone == ToSet(table)
  <1>1. tabs' = RevokedTabs(gone)
    BY DEF Revoke
  <1> HIDE DEF gone
  <1>2. \A t \in Tab : /\ RevokedTabs(gone)[t].shown = tabs[t].shown
                       /\ RevokedTabs(gone)[t].racy = tabs[t].racy
                       /\ RevokedTabs(gone)[t].fresh = FALSE
    BY RevokedTyped DEF Typed
  <1>3. QED
    BY <1>1, <1>2 DEF Calm

LEMMA TabsCalm ==
  ASSUME Typed, Linked, FreshServed, NEW t \in Tab,
         Connect(t) \/ Drop(t) \/ OpenRoom(t) \/ Watch(t) \/ Back(t) \/ ModeOn(t) \/ ModeOff(t)
         \/ SendNote(t) \/ AskImpersonate(t)
  PROVE  Calm
  <1>1. tabs \in [Tab -> Page]
    BY DEF Typed, TabTypes
  <1>2. CASE Connect(t)
    <2>1. ~tabs[t].fresh /\ UNCHANGED monitored
      BY <1>2 DEF Connect, FreshServed
    <2>2. \A u \in Tab : /\ tabs'[u].shown = tabs[u].shown /\ tabs'[u].racy = tabs[u].racy
                         /\ tabs'[u].fresh = tabs[u].fresh
                         /\ u # t => tabs'[u].conn = tabs[u].conn
      BY <1>1, <1>2 DEF Connect, Page
    <2>3. QED
      BY <2>1, <2>2 DEF Calm, FreshServed
  <1>3. CASE Drop(t)
    <2>1. /\ tabs'[t] = Unplugged(tabs[t]) /\ \A u \in Tab \ {t} : tabs'[u] = tabs[u]
          /\ UNCHANGED monitored
      BY <1>1, <1>3 DEF Drop
    <2>2. ~tabs'[t].fresh /\ tabs'[t].shown = tabs[t].shown /\ tabs'[t].racy = tabs[t].racy
      BY <2>1, <1>1, UnpluggedTyped
    <2>3. QED
      BY <2>1, <2>2 DEF Calm, FreshServed
  <1>4. CASE OpenRoom(t) \/ Watch(t) \/ ModeOn(t) \/ ModeOff(t) \/ SendNote(t) \/ AskImpersonate(t)
    <2>1. monitored => monitored'
      BY <1>4 DEF OpenRoom, Watch, ModeOn, ModeOff, SendNote, AskImpersonate
    <2>2. \/ UNCHANGED tabs
          \/ tabs' = [tabs EXCEPT ![t].open = TRUE]
          \/ tabs' = [tabs EXCEPT ![t].watching = TRUE]
          \/ \E b \in BOOLEAN : tabs' = [tabs EXCEPT ![t].mode = b]
      BY <1>4 DEF OpenRoom, Watch, ModeOn, ModeOff, SendNote, AskImpersonate
    <2>3. \A u \in Tab : /\ tabs'[u].shown = tabs[u].shown /\ tabs'[u].racy = tabs[u].racy
                         /\ tabs'[u].fresh = tabs[u].fresh /\ tabs'[u].conn = tabs[u].conn
      <3>1. CASE UNCHANGED tabs
        BY <3>1
      <3>2. CASE tabs' = [tabs EXCEPT ![t].open = TRUE]
        BY <1>1, <3>2 DEF Page
      <3>3. CASE tabs' = [tabs EXCEPT ![t].watching = TRUE]
        BY <1>1, <3>3 DEF Page
      <3>4. ASSUME NEW b \in BOOLEAN, tabs' = [tabs EXCEPT ![t].mode = b]
            PROVE  \A u \in Tab : /\ tabs'[u].shown = tabs[u].shown
                                  /\ tabs'[u].racy = tabs[u].racy
                                  /\ tabs'[u].fresh = tabs[u].fresh
                                  /\ tabs'[u].conn = tabs[u].conn
        BY <1>1, <3>4 DEF Page
      <3>5. QED
        BY <2>2, <3>1, <3>2, <3>3, <3>4
    <2>4. QED
      BY <2>1, <2>3 DEF Calm, FreshServed
  <1>5. CASE Back(t)
    <2>1. UNCHANGED monitored => \A u \in Tab : tabs[u].fresh => monitored'
      BY DEF FreshServed
    <2>2. QED
      BY <1>5, <2>1, BackShape DEF Calm
  <1>6. QED
    BY <1>2, <1>3, <1>4, <1>5

LEMMA CalmServed ==
  ASSUME Typed, FreshServed, Calm,
         \A k \in Conn : conns[k].st = "in" => conns'[k].st = "in"
  PROVE  FreshServed'
  <1>1. \A t \in Tab : tabs[t].conn # NoConn => tabs[t].conn \in Conn
    BY DEF Typed, TabTypes, Page
  <1>2. QED
    BY <1>1 DEF Calm, FreshServed

\* What has authenticated stays so.
LEMMA StaysIn ==
  ASSUME Typed, Linked, Next
  PROVE  \A k \in Conn : conns[k].st = "in" => conns'[k].st = "in"
  <1> SUFFICES ASSUME NEW k \in Conn, conns[k].st = "in"
               PROVE  conns'[k].st = "in"
    OBVIOUS
  <1> USE DEF Typed, ConnTypes
  <1>1. ASSUME NEW t \in Tab, Connect(t) \/ Drop(t)
        PROVE  conns'[k].st = "in"
    <2>1. CASE Connect(t)
      BY <2>1 DEF Connect
    <2>2. CASE Drop(t)
      BY <2>2 DEF Drop
    <2>3. QED
      BY <1>1, <2>1, <2>2
  <1>2. ASSUME NEW j \in Conn, Authenticated(j) \/ Refused(j) \/ Notice(j)
        PROVE  conns'[k].st = "in"
    BY <1>2 DEF Authenticated, Refused, Notice
  <1>3. CASE Revoke
    BY <1>3 DEF Revoke
  <1>4. CASE UNCHANGED conns
    BY <1>4
  <1>5. ASSUME NEW t \in Tab, OpenRoom(t) \/ Watch(t) \/ Back(t) \/ ModeOn(t) \/ ModeOff(t)
                              \/ SendNote(t) \/ AskImpersonate(t)
        PROVE  UNCHANGED conns
    BY <1>5 DEF OpenRoom, Watch, Back, ModeOn, ModeOff, SendNote, AskImpersonate
  <1>6. ASSUME NEW c \in calls, ReadHistory(c) \/ MonitorStarted(c) \/ TakeoverEnter(c)
                                \/ AdminMessage(c) \/ TakeoverImpersonate(c)
        PROVE  UNCHANGED conns
    BY <1>6 DEF ReadHistory, MonitorStarted, TakeoverEnter, AdminMessage, Post,
                TakeoverImpersonate
  <1>7. CASE (\E m \in msgs.posting : Broadcast(m)) \/ DeleteSession \/ UserMessage
             \/ RoomSteps
    BY <1>4, <1>7, RoomStepsOnly DEF Broadcast, DeleteSession, UserMessage, Post
  <1>8. QED
    BY <1>1, <1>2, <1>3, <1>4, <1>5, <1>6, <1>7 DEF Next, RoomSteps

\* Steps that show something: what they do besides.
LEMMA ShowingShape ==
  ASSUME Typed, Linked, NEW c \in calls, MonitorStarted(c)
  PROVE  /\ UNCHANGED <<monitored, takeover, conns, msgs>> /\ calls' \subseteq calls
         /\ c.conn \in Conn /\ conns[c.conn].st = "in" /\ c.data \in Seq(Msg)
         /\ \A t \in Tab : \/ tabs'[t] = tabs[t]
                           \/ /\ tabs'[t].shown = c.data /\ tabs'[t].racy = Racy(c.data)
                              /\ tabs'[t].fresh = monitored
                              /\ tabs'[t].conn = c.conn /\ c.conn # NoConn
  <1>1. /\ c.conn \in Conn /\ conns[c.conn].st = "in" /\ c.data \in Seq(Msg)
        /\ c.conn # NoConn
    BY DEF Typed, CallTypes, Linked, CalledIn, Conn, NoConn
  <1>2. UNCHANGED <<monitored, takeover, conns, msgs>> /\ calls' \subseteq calls
    BY DEF MonitorStarted
  <1>3. CASE ~conns[c.conn].net
    BY <1>1, <1>2, <1>3 DEF MonitorStarted
  <1>4. CASE conns[c.conn].net
    <2> DEFINE t == conns[c.conn].tab
               r == [tabs[t] EXCEPT !.shown = c.data, !.racy = Racy(c.data), !.fresh = monitored]
    <2>1. t \in Tab /\ tabs[t].conn = c.conn
      BY <1>1, <1>4 DEF Linked, NetHeld
    <2>2. tabs' = [tabs EXCEPT ![t] = r]
      BY <1>4 DEF MonitorStarted
    <2>3. /\ r.shown = c.data /\ r.racy = Racy(c.data) /\ r.fresh = monitored
          /\ r.conn = tabs[t].conn
      BY <2>1 DEF Typed, TabTypes, Page
    <2> HIDE DEF t, r
    <2>4. tabs'[t] = r /\ \A u \in Tab \ {t} : tabs'[u] = tabs[u]
      BY <2>1, <2>2 DEF Typed, TabTypes
    <2>5. QED
      BY <1>1, <1>2, <2>1, <2>3, <2>4
  <1>5. QED
    BY <1>3, <1>4

\* Everything else leaves pages and connections alone.
LEMMA QuietShape ==
  ASSUME \/ \E c \in calls : ReadHistory(c) \/ TakeoverEnter(c) \/ AdminMessage(c)
                             \/ TakeoverImpersonate(c)
         \/ DeleteSession \/ UserMessage \/ RoomSteps
         \/ UNCHANGED vars
  PROVE  /\ UNCHANGED <<tabs, conns, monitored>>
         /\ takeover' => takeover \/ monitored
  <1>1. ASSUME NEW c \in calls, ReadHistory(c) \/ TakeoverEnter(c)
        PROVE  UNCHANGED <<tabs, conns, monitored>> /\ (takeover' => takeover \/ monitored)
    <2>1. UNCHANGED <<tabs, conns, monitored>>
      BY <1>1 DEF ReadHistory, TakeoverEnter
    <2>2. takeover' => takeover \/ monitored
      BY <1>1 DEF ReadHistory, TakeoverEnter
    <2>3. QED
      BY <2>1, <2>2
  <1>2. ASSUME NEW c \in calls, AdminMessage(c) \/ TakeoverImpersonate(c)
        PROVE  UNCHANGED <<tabs, conns, monitored, takeover>>
    BY <1>2 DEF AdminMessage, Post, TakeoverImpersonate
  <1>3. CASE DeleteSession \/ UserMessage \/ RoomSteps
             \/ UNCHANGED vars
    BY <1>3, RoomStepsOnly DEF DeleteSession, UserMessage, Post, vars
  <1>4. QED
    BY <1>1, <1>2, <1>3

LEMMA NextServed ==
  ASSUME Typed, Linked, FreshServed, [Next]_vars
  PROVE  FreshServed'
  <1>1. UNCHANGED vars \/ \A k \in Conn : conns[k].st = "in" => conns'[k].st = "in"
    BY StaysIn
  <1>2. \A t \in Tab : tabs[t].conn # NoConn => tabs[t].conn \in Conn
    BY DEF Typed, TabTypes, Page
  <1>3. CASE UNCHANGED <<tabs, conns, monitored>>
    BY <1>3 DEF FreshServed
  <1>4. CASE Calm /\ ~UNCHANGED vars
    BY <1>1, <1>4, CalmServed
  <1>5. ASSUME NEW c \in calls, MonitorStarted(c)
        PROVE  FreshServed'
    BY <1>5, <1>2, ShowingShape DEF FreshServed
  <1>6. ASSUME NEW m \in msgs.posting, Broadcast(m)
        PROVE  FreshServed'
    <2>1. UNCHANGED <<conns, monitored>>
      BY <1>6 DEF Broadcast
    <2>2. \A t \in Tab : tabs'[t].conn = tabs[t].conn /\ (tabs'[t].fresh => tabs[t].fresh)
      BY <1>6, BroadcastShape
    <2>3. QED
      BY <2>1, <2>2, <1>2 DEF FreshServed
  <1>7. CASE UNCHANGED vars
    BY <1>7, <1>3 DEF vars
  <1>8. QED
    BY <1>3, <1>4, <1>5, <1>6, <1>7, TabsCalm, ConnectionsCalm, RevokeCalm, QuietShape
    DEF Next, RoomSteps

\* Steps that record nobody anew and end no open authenticated connection.
LEMMA WatcherKept ==
  ASSUME WatcherHasSocket, monitored' \/ takeover' => monitored \/ takeover,
         \A k \in Conn : conns[k].up /\ conns[k].st = "in" => conns'[k].up /\ conns'[k].st = "in"
  PROVE  WatcherHasSocket'
  BY DEF WatcherHasSocket

LEMMA NextWatcher ==
  ASSUME Typed, Linked, WatcherHasSocket, [Next]_vars
  PROVE  WatcherHasSocket'
  <1>1. ASSUME NEW t \in Tab, Connect(t)
        PROVE  WatcherHasSocket'
    <2>1. UNCHANGED <<monitored, takeover>>
      BY <1>1 DEF Connect
    <2>2. PICK k \in Conn : conns[k].st = "none" /\ \A j \in Conn \ {k} : conns'[j] = conns[j]
      BY <1>1 DEF Connect, Typed, ConnTypes
    <2>3. QED
      BY <2>1, <2>2, WatcherKept
  <1>2. ASSUME NEW t \in Tab, Drop(t)
        PROVE  WatcherHasSocket'
    <2>1. UNCHANGED <<monitored, takeover>>
      BY <1>2 DEF Drop
    <2>2. PICK k : conns' = [conns EXCEPT ![k].net = FALSE]
      BY <1>2 DEF Drop
    <2>3. \A j \in Conn : conns'[j].up = conns[j].up /\ conns'[j].st = conns[j].st
      BY <2>2 DEF Typed, ConnTypes
    <2>4. QED
      BY <2>1, <2>3, WatcherKept
  <1>3. ASSUME NEW k \in Conn, Authenticated(k)
        PROVE  WatcherHasSocket'
    <2>1. UNCHANGED <<monitored, takeover>> /\ conns' = [conns EXCEPT ![k].st = "in"]
      BY <1>3 DEF Authenticated
    <2>2. \A j \in Conn : conns'[j].up = conns[j].up /\ (conns[j].st = "in" => conns'[j].st = "in")
      BY <2>1 DEF Typed, ConnTypes
    <2>3. QED
      BY <2>1, <2>2, WatcherKept
  <1>4. ASSUME NEW k \in Conn, Refused(k)
        PROVE  WatcherHasSocket'
    <2>1. (~monitored' /\ ~takeover') \/ UNCHANGED <<monitored, takeover>>
      BY <1>4 DEF Refused, CleanupMonitoredRooms
    <2>2. conns[k].st = "auth" /\ \A j \in Conn \ {k} : conns'[j] = conns[j]
      BY <1>4 DEF Refused, Typed, ConnTypes
    <2>3. QED
      BY <2>1, <2>2, WatcherKept DEF WatcherHasSocket
  <1>5. ASSUME NEW k \in Conn, Notice(k)
        PROVE  WatcherHasSocket'
    BY <1>5 DEF Notice, CleanupMonitoredRooms, WatcherHasSocket
  <1>6. CASE Revoke
    <2>1. CASE \E k \in ToSet(table) : conns[k].up
      BY <1>6, <2>1 DEF Revoke, CleanupMonitoredRooms, WatcherHasSocket
    <2>2. CASE ~\E k \in ToSet(table) : conns[k].up
      <3>1. \A k \in Conn : ~(conns[k].up /\ conns[k].st = "in")
        BY <2>2 DEF Linked, Listing, ToSet
      <3>2. UNCHANGED <<monitored, takeover>>
        BY <1>6, <2>2 DEF Revoke
      <3>3. QED
        BY <3>1, <3>2 DEF WatcherHasSocket
    <2>3. QED
      BY <2>1, <2>2
  <1>7. ASSUME NEW t \in Tab, Watch(t)
        PROVE  WatcherHasSocket'
    <2>1. tabs[t].conn # NoConn /\ conns[tabs[t].conn].st = "in" /\ UNCHANGED conns
      BY <1>7 DEF Watch, Ready, Linked, AuthedIsIn
    <2>2. tabs[t].conn \in Conn /\ conns[tabs[t].conn].up
      BY <2>1 DEF Linked, NetHeld, Typed, TabTypes, Page
    <2>3. QED
      BY <2>1, <2>2 DEF WatcherHasSocket
  <1>8. ASSUME NEW t \in Tab, OpenRoom(t) \/ Back(t) \/ ModeOn(t) \/ ModeOff(t) \/ SendNote(t)
                              \/ AskImpersonate(t)
        PROVE  WatcherHasSocket'
    <2>1. UNCHANGED conns
      BY <1>8 DEF OpenRoom, Back, ModeOn, ModeOff, SendNote, AskImpersonate
    <2>2. (takeover' => takeover) /\ (monitored' => monitored)
      <3>1. CASE Back(t)
        BY <3>1 DEF Back
      <3>2. CASE ~Back(t)
        BY <1>8, <3>2 DEF OpenRoom, ModeOn, ModeOff, SendNote, AskImpersonate
      <3>3. QED
        BY <3>1, <3>2
    <2>3. QED
      BY <2>1, <2>2, WatcherKept
  <1>9. CASE UNCHANGED <<conns, monitored>> /\ (takeover' => takeover \/ monitored)
    BY <1>9, WatcherKept
  <1>10. ASSUME NEW c \in calls, MonitorStarted(c)
         PROVE  WatcherHasSocket'
    BY <1>9, <1>10 DEF MonitorStarted
  <1>11. ASSUME NEW m \in msgs.posting, Broadcast(m)
         PROVE  WatcherHasSocket'
    BY <1>9, <1>11 DEF Broadcast
  <1>12. QED
    BY <1>1, <1>2, <1>3, <1>4, <1>5, <1>6, <1>7, <1>8, <1>9, <1>10, <1>11, QuietShape
    DEF Next, RoomSteps

-----------------------------------------------------------------------------
(* The messages.                                                            *)

\* Steps that only show less and start handlers that have read nothing yet.
LEMMA CalmStored ==
  ASSUME Typed, Stored, ShownRight, Calm, UNCHANGED msgs,
         \A c \in calls' : c \in calls \/ c.data = <<>>
  PROVE  Stored' /\ ShownRight'
  <1>1. Stored'
    <2>1. DOMAIN <<>> = {} /\ Len(<<>>) = 0
      OBVIOUS
    <2>2. \A t \in Tab : \A i \in DOMAIN tabs'[t].shown : tabs'[t].shown[i] \in DOMAIN msgs.history
      <3> SUFFICES ASSUME NEW t \in Tab
                   PROVE  \A i \in DOMAIN tabs'[t].shown : tabs'[t].shown[i] \in DOMAIN msgs.history
        OBVIOUS
      <3>1. tabs'[t].shown = tabs[t].shown \/ tabs'[t].shown = <<>>
        BY DEF Calm
      <3>2. QED
        BY <2>1, <3>1 DEF Stored
    <2>3. \A t \in Tab : tabs'[t].racy \subseteq DOMAIN msgs.history
      BY DEF Calm, Stored
    <2>4. ASSUME NEW c \in calls'
          PROVE  Len(c.data) <= Len(msgs.history) /\ \A i \in DOMAIN c.data : c.data[i] = i
      BY <2>1, <2>4 DEF Stored, Typed, MsgTypes
    <2>5. QED
      BY <2>2, <2>3, <2>4 DEF Stored
  <1>2. ShownRight'
    BY DEF Calm, ShownRight, Shown
  <1>3. QED
    BY <1>1, <1>2

\* monitor_started.
LEMMA StartedStored ==
  ASSUME Typed, Linked, Stored, ShownRight, NEW c \in calls, MonitorStarted(c)
  PROVE  Stored' /\ ShownRight'
  <1> DEFINE h == msgs.history
  <1>1. /\ UNCHANGED msgs /\ calls' \subseteq calls
        /\ \A t \in Tab : \/ tabs'[t] = tabs[t]
                          \/ tabs'[t].shown = c.data /\ tabs'[t].racy = Racy(c.data)
    BY ShowingShape
  <1>2. /\ h \in Seq(Msg) /\ DOMAIN h = 1..Len(h) /\ Len(h) \in Nat
        /\ c.data \in Seq(Msg) /\ DOMAIN c.data = 1..Len(c.data) /\ Len(c.data) \in Nat
    BY DEF Typed, MsgTypes, CallTypes
  <1>3. /\ \A i \in DOMAIN h : h[i] = i
        /\ \A i \in DOMAIN c.data : c.data[i] = i
        /\ DOMAIN c.data \subseteq DOMAIN h
        /\ msgs.posting \subseteq DOMAIN h
    BY <1>2 DEF Stored
  <1>4. ToSet(h) = DOMAIN h /\ ToSet(c.data) = DOMAIN c.data
    BY <1>3 DEF ToSet
  <1>5. /\ Racy(c.data) \subseteq DOMAIN h
        /\ \A m \in DOMAIN h \ Racy(c.data) : m \in msgs.posting <=> m \notin DOMAIN c.data
    BY <1>3, <1>4 DEF Racy
  <1> HIDE DEF h
  <1>6. Stored'
    <2>1. \A t \in Tab : \A i \in DOMAIN tabs'[t].shown : tabs'[t].shown[i] \in DOMAIN h
      BY <1>1, <1>3 DEF Stored, h
    <2>2. \A t \in Tab : tabs'[t].racy \subseteq DOMAIN h
      BY <1>1, <1>5 DEF Stored, h
    <2>3. QED
      BY <2>1, <2>2, <1>1 DEF Stored, h
  <1>7. ASSUME NEW t \in Tab, tabs'[t].fresh, NEW m \in DOMAIN h \ tabs'[t].racy
        PROVE  /\ \A i, j \in Shown(t, m)' : i = j
               /\ m \in msgs.posting <=> Shown(t, m)' = {}
    <2>1. CASE tabs'[t] = tabs[t]
      BY <2>1, <1>7 DEF ShownRight, Shown, h
    <2>2. CASE tabs'[t].shown = c.data /\ tabs'[t].racy = Racy(c.data)
      <3>1. Shown(t, m)' = {i \in DOMAIN c.data : i = m}
        BY <2>2, <1>3 DEF Shown
      <3>2. QED
        BY <3>1, <2>2, <1>5, <1>7
    <2>3. QED
      BY <2>1, <2>2, <1>1
  <1>8. ShownRight'
    BY <1>7, <1>1 DEF ShownRight, h
  <1>9. QED
    BY <1>6, <1>8

LEMMA PostStored ==
  ASSUME Typed, Stored, ShownRight, NEW others, Post(others), UNCHANGED tabs, calls' \subseteq calls
  PROVE  Stored' /\ ShownRight'
  <1> DEFINE h == msgs.history
             n == Len(h) + 1
  <1>1. /\ DOMAIN msgs'.history = 1..n /\ DOMAIN h = 1..Len(h)
        /\ Len(h) \in Nat /\ Len(msgs'.history) = n /\ msgs'.history[n] = n
        /\ \A i \in DOMAIN h : msgs'.history[i] = h[i]
        /\ msgs'.posting = msgs.posting \cup {n}
    BY PostTyped DEF Typed
  <1>2. DOMAIN msgs'.history = DOMAIN h \cup {n} /\ n \notin DOMAIN h
    BY <1>1
  <1>3. \A c \in calls : Len(c.data) \in Nat
    BY DEF Typed, CallTypes
  <1>4. Stored'
    <2>1. \A i \in DOMAIN msgs'.history : msgs'.history[i] = i
      BY <1>1, <1>2 DEF Stored
    <2>2. \A c \in calls' : /\ Len(c.data) <= Len(msgs'.history)
                            /\ \A i \in DOMAIN c.data : c.data[i] = i
      BY <1>1, <1>3 DEF Stored
    <2>3. QED
      BY <2>1, <2>2, <1>1, <1>2 DEF Stored
  <1> HIDE DEF n
  <1>5. ASSUME NEW t \in Tab, tabs'[t].fresh, NEW m \in DOMAIN msgs'.history \ tabs'[t].racy
        PROVE  /\ \A i, j \in Shown(t, m)' : i = j
               /\ m \in msgs'.posting <=> Shown(t, m)' = {}
    <2>1. Shown(t, m)' = Shown(t, m)
      BY DEF Shown
    <2>2. CASE m = n
      <3>1. Shown(t, m) = {}
        BY <2>2, <1>2 DEF Stored, Shown, h
      <3>2. QED
        BY <2>1, <2>2, <3>1, <1>1
    <2>3. CASE m # n
      BY <2>1, <2>3, <1>1, <1>2, <1>5 DEF ShownRight, h
    <2>4. QED
      BY <2>2, <2>3
  <1>6. QED
    BY <1>4, <1>5 DEF ShownRight

LEMMA BroadcastStored ==
  ASSUME Typed, Linked, FreshServed, Stored, ShownRight, NEW m \in msgs.posting, Broadcast(m)
  PROVE  Stored' /\ ShownRight'
  <1> DEFINE h == msgs.history
  <1>1. msgs'.history = h /\ msgs'.posting = msgs.posting \ {m} /\ UNCHANGED calls
    BY DEF Broadcast, Typed, MsgTypes
  <1>2. m \in DOMAIN h /\ m \in Msg
    BY DEF Stored, Typed, MsgTypes
  <1>3. ASSUME NEW t \in Tab
        PROVE  /\ tabs[t].shown \in Seq(Msg) /\ DOMAIN tabs[t].shown = 1..Len(tabs[t].shown)
               /\ Len(tabs[t].shown) \in Nat
    BY DEF Typed, TabTypes, Page
  <1>4. ASSUME NEW t \in Tab, tabs'[t].shown = Append(tabs[t].shown, m)
        PROVE  \E n \in Nat : /\ n \notin DOMAIN tabs[t].shown
                              /\ DOMAIN tabs'[t].shown = DOMAIN tabs[t].shown \cup {n}
                              /\ tabs'[t].shown[n] = m
                              /\ \A i \in DOMAIN tabs[t].shown :
                                    tabs'[t].shown[i] = tabs[t].shown[i]
    <2> DEFINE s == tabs[t].shown
    <2>1. s \in Seq(Msg) /\ Len(s) \in Nat /\ DOMAIN s = 1..Len(s)
      BY <1>3
    <2> HIDE DEF s
    <2>2. /\ DOMAIN Append(s, m) = 1..(Len(s) + 1) /\ Append(s, m)[Len(s) + 1] = m
          /\ \A i \in 1..Len(s) : Append(s, m)[i] = s[i]
      BY <2>1, <1>2
    <2>3. Len(s) + 1 \notin DOMAIN s /\ 1..(Len(s) + 1) = DOMAIN s \cup {Len(s) + 1}
      BY <2>1
    <2>4. Len(s) + 1 \in Nat
      BY <2>1
    <2>5. QED
      BY <2>1, <2>2, <2>3, <2>4, <1>4 DEF s
  <1>5. Stored'
    <2>1. \A t \in Tab : tabs'[t].racy = tabs[t].racy
      BY BroadcastShape
    <2>2. ASSUME NEW t \in Tab
          PROVE  \A i \in DOMAIN tabs'[t].shown : tabs'[t].shown[i] \in DOMAIN h
      <3>1. CASE tabs'[t].shown = tabs[t].shown
        BY <3>1 DEF Stored
      <3>2. CASE tabs'[t].shown = Append(tabs[t].shown, m)
        BY <3>2, <1>2, <1>4 DEF Stored
      <3>3. QED
        BY <3>1, <3>2, BroadcastShape
    <2>3. QED
      BY <2>1, <2>2, <1>1 DEF Stored
  <1>6. ASSUME NEW t \in Tab, tabs'[t].fresh, NEW k \in DOMAIN h \ tabs'[t].racy
        PROVE  /\ \A i, j \in Shown(t, k)' : i = j
               /\ k \in msgs'.posting <=> Shown(t, k)' = {}
    <2>1. tabs[t].fresh /\ tabs'[t].racy = tabs[t].racy
      BY <1>6, BroadcastShape
    <2>2. monitored /\ table # <<>>
      <3>1. monitored /\ tabs[t].conn \in Conn /\ tabs[t].conn # NoConn
            /\ conns[tabs[t].conn].st = "in"
        BY <2>1 DEF FreshServed, Typed, TabTypes, Page
      <3>2. \E i \in DOMAIN table : table[i] = tabs[t].conn
        BY <3>1 DEF Linked, NetHeld, Listing
      <3>3. DOMAIN <<>> = {}
        OBVIOUS
      <3>4. QED
        BY <3>1, <3>2, <3>3
    <2>3. tabs'[t].shown = Append(tabs[t].shown, m)
      BY <1>6, <2>2, BroadcastShape
    <2>4. PICK n \in Nat : /\ n \notin DOMAIN tabs[t].shown
                           /\ DOMAIN tabs'[t].shown = DOMAIN tabs[t].shown \cup {n}
                           /\ tabs'[t].shown[n] = m
                           /\ \A i \in DOMAIN tabs[t].shown : tabs'[t].shown[i] = tabs[t].shown[i]
      BY <2>3, <1>4
    <2>5. Shown(t, k)' = Shown(t, k) \cup (IF k = m THEN {n} ELSE {})
      BY <2>4 DEF Shown
    <2>6. /\ \A i, j \in Shown(t, k) : i = j
          /\ k \in msgs.posting <=> Shown(t, k) = {}
      BY <1>6, <2>1 DEF ShownRight
    <2>7. CASE k = m
      BY <2>5, <2>6, <2>7, <1>1
    <2>8. CASE k # m
      BY <2>5, <2>6, <2>8, <1>1
    <2>9. QED
      BY <2>7, <2>8
  <1>7. ShownRight'
    BY <1>6, <1>1 DEF ShownRight
  <1>8. QED
    BY <1>5, <1>7

LEMMA NextStored ==
  ASSUME Typed, Linked, FreshServed, Stored, ShownRight, [Next]_vars
  PROVE  Stored' /\ ShownRight'
  <1>1. ASSUME NEW t \in Tab, Connect(t) \/ Drop(t) \/ OpenRoom(t) \/ Watch(t) \/ Back(t)
                              \/ ModeOn(t) \/ ModeOff(t) \/ SendNote(t) \/ AskImpersonate(t)
        PROVE  Stored' /\ ShownRight'
    <2>1. UNCHANGED msgs
      BY <1>1 DEF Connect, Drop, OpenRoom, Watch, Back, ModeOn, ModeOff, SendNote, AskImpersonate
    <2>2. \A c \in calls' : c \in calls \/ c.data = <<>>
      BY <1>1 DEF Connect, Drop, OpenRoom, Watch, Back, ModeOn, ModeOff, SendNote,
                  AskImpersonate, Call
    <2>3. QED
      BY <1>1, <2>1, <2>2, TabsCalm, CalmStored
  <1>2. ASSUME NEW k \in Conn, Authenticated(k) \/ Refused(k) \/ Notice(k)
        PROVE  Stored' /\ ShownRight'
    <2>1. UNCHANGED <<msgs, calls>>
      BY <1>2 DEF Authenticated, Refused, Notice
    <2>2. QED
      BY <1>2, <2>1, ConnectionsCalm, CalmStored
  <1>3. CASE Revoke
    <2>1. UNCHANGED <<msgs, calls>>
      BY <1>3 DEF Revoke
    <2>2. QED
      BY <1>3, <2>1, RevokeCalm, CalmStored
  <1>4. CASE UNCHANGED <<msgs, tabs>> /\ calls' \subseteq calls
    BY <1>4 DEF Stored, ShownRight, Shown
  <1>5. ASSUME NEW c \in calls, ReadHistory(c)
        PROVE  Stored' /\ ShownRight'
    <2> DEFINE d == [c EXCEPT !.op = "started", !.data = FirstOf(msgs.history)]
    <2>1. UNCHANGED <<msgs, tabs>> /\ calls' = (calls \ {c}) \cup {d}
      BY <1>5 DEF ReadHistory
    <2>2. d.data = FirstOf(msgs.history)
      BY DEF Typed, CallTypes
    <2>3. /\ Len(FirstOf(msgs.history)) <= Len(msgs.history)
          /\ \A i \in DOMAIN FirstOf(msgs.history) :
                i \in DOMAIN msgs.history /\ FirstOf(msgs.history)[i] = msgs.history[i]
      BY FirstOfShape DEF Typed, MsgTypes
    <2>4. Len(d.data) <= Len(msgs.history) /\ \A i \in DOMAIN d.data : d.data[i] = i
      BY <2>2, <2>3 DEF Stored
    <2> HIDE DEF d
    <2>5. QED
      BY <2>1, <2>4 DEF Stored, ShownRight, Shown
  <1>6. ASSUME NEW c \in calls, TakeoverEnter(c) \/ TakeoverImpersonate(c)
        PROVE  Stored' /\ ShownRight'
    BY <1>4, <1>6 DEF TakeoverEnter, TakeoverImpersonate
  <1>7. CASE DeleteSession \/ RoomSteps \/ UNCHANGED vars
    BY <1>4, <1>7, RoomStepsOnly DEF DeleteSession, vars
  <1>8. ASSUME NEW c \in calls, AdminMessage(c)
        PROVE  Stored' /\ ShownRight'
    <2>1. CASE takeover /\ room.open
      <3>1. /\ Post(<<conns, table, session, monitored, takeover, tabs, room, acts>>)
            /\ calls' \subseteq calls
        BY <1>8, <2>1 DEF AdminMessage
      <3>2. UNCHANGED tabs
        BY <3>1 DEF Post
      <3>3. QED
        BY <3>1, <3>2, PostStored
    <2>2. CASE ~(takeover /\ room.open)
      BY <1>4, <1>8, <2>2 DEF AdminMessage
    <2>3. QED
      BY <2>1, <2>2
  <1>9. CASE UserMessage
    <2>1. Post(<<conns, table, session, monitored, takeover, calls, tabs, room, acts>>)
      BY <1>9 DEF UserMessage
    <2>2. UNCHANGED tabs /\ UNCHANGED calls
      BY <2>1 DEF Post
    <2>3. QED
      BY <2>1, <2>2, PostStored
  <1>10. QED
    BY <1>1, <1>2, <1>3, <1>5, <1>6, <1>7, <1>8, <1>9, StartedStored,
       BroadcastStored
    DEF Next, RoomSteps

-----------------------------------------------------------------------------
(* The room of an impersonated member.                                      *)

\* Whoever ends the room while the other member waits has still to tell him, or has failed;
\* and a cleanup that found the room ended already leaves it to him to have ended it.
RoomKnown ==
    /\ room.other = "waits" => room.cleanup # "done" \/ room.leave # "no"
    /\ room.other = "waits" /\ ~room.open =>
          room.cleanup \in {"tell", "failed"} \/ room.leave = "tell"
    /\ room.other = "waits" /\ room.cleanup = "done" => ~room.open
    /\ room.cleanup = "tell" => ~room.open

LEMMA NextRoom ==
  ASSUME Typed, RoomKnown, [Next]_vars
  PROVE  RoomKnown'
  <1>1. \/ UNCHANGED room
        \/ room.open /\ room' = [room EXCEPT !.cleanup = "find", !.other = "waits"]
        \/ RoomSteps
    BY DEF Next, Connect, Drop, OpenRoom, Watch, Back, ModeOn, ModeOff, SendNote,
           AskImpersonate, Authenticated, Refused, Notice, ReadHistory, MonitorStarted,
           TakeoverEnter, AdminMessage, Post, TakeoverImpersonate, Broadcast, Revoke,
           DeleteSession, UserMessage, RoomSteps, vars
  <1> USE DEF RoomKnown, Typed, RestTypes, Only
  <1>2. CASE UNCHANGED room
    BY <1>2
  <1>3. CASE room.open /\ room' = [room EXCEPT !.cleanup = "find", !.other = "waits"]
    BY <1>3
  <1>4. CASE TakeoverFind \/ TakeoverConnection
    BY <1>4 DEF TakeoverFind, TakeoverConnection
  <1>5. CASE CleanupFails \/ CleanupFind
    BY <1>5 DEF CleanupFails, CleanupFind
  <1>6. CASE CleanupDelete
    BY <1>6 DEF CleanupDelete
  <1>7. CASE CleanupTell \/ WaiterLeaves
    BY <1>7 DEF CleanupTell, WaiterLeaves
  <1>8. CASE EndByWaiter \/ WaiterIsOut
    BY <1>8 DEF EndByWaiter, WaiterIsOut
  <1>9. QED
    BY <1>1, <1>2, <1>3, <1>4, <1>5, <1>6, <1>7, <1>8 DEF RoomSteps, PutOutCleanup, WaiterGoes

-----------------------------------------------------------------------------
(* The theorems.                                                            *)

Watched ==
    /\ Typed /\ Linked /\ FreshServed /\ WatcherHasSocket
    /\ Stored /\ ShownRight /\ RoomKnown

LEMMA InitWatched == Init => Watched
  <1> SUFFICES ASSUME Init PROVE Watched
    OBVIOUS
  <1>1. <<>> \in Seq(Msg) /\ <<>> \in Seq(Conn) /\ DOMAIN <<>> = {}
    OBVIOUS
  <1>2. NewTab \in Page
    BY <1>1 DEF NewTab, Page
  <1>3. tabs = [t \in Tab |-> NewTab]
    BY DEF Init
  <1>4. \A t \in Tab : /\ tabs[t] \in Page /\ tabs[t].conn = NoConn /\ ~tabs[t].authed
                       /\ ~tabs[t].watching /\ ~tabs[t].fresh
                       /\ tabs[t].shown = <<>> /\ tabs[t].racy = {}
    BY <1>2, <1>3 DEF NewTab
  <1>5. Typed
    <2>1. ConnTypes
      BY DEF Init, ConnTypes
    <2>2. TabTypes
      BY <1>2, <1>3 DEF TabTypes
    <2>3. MsgTypes /\ CallTypes /\ ListTypes
      BY <1>1 DEF Init, MsgTypes, CallTypes, ListTypes
    <2>4. RestTypes
      <3>1. 0 \in 0..MaxActs
        BY ModerationAssumption
      <3>2. QED
        BY <3>1 DEF Init, RestTypes
    <2>5. QED
      BY <2>1, <2>2, <2>3, <2>4 DEF Typed
  <1>6. Linked
    BY <1>1, <1>4 DEF Init, Linked, NetHeld, AuthedIsIn, CalledIn, Listing
  <1>7. FreshServed /\ ShownRight
    BY <1>4 DEF FreshServed, ShownRight
  <1>8. Stored
    BY <1>1, <1>4 DEF Init, Stored
  <1>9. WatcherHasSocket /\ RoomKnown
    BY DEF Init, WatcherHasSocket, RoomKnown
  <1>10. QED
    BY <1>5, <1>6, <1>7, <1>8, <1>9 DEF Watched

LEMMA NextWatched == Watched /\ [Next]_vars => Watched'
  BY NextTyped, NextLinked, NextServed, NextWatcher, NextStored, NextRoom DEF Watched, Linked

\* Type correctness: a page holds a connection of its own that both ends have open, the
\* table lists a connection once and only when it has authenticated, and what pages and
\* handlers hold is what it is taken for.
THEOREM TypeCorrect == Spec => []TypeOK
  <1>1. Watched => TypeOK
    <2> SUFFICES ASSUME Watched PROVE TypeOK
      OBVIOUS
    <2> USE DEF Watched, Typed, Linked
    <2>1. IsInjective(table) /\ \A k \in ToSet(table) : k \in Conn /\ conns[k].st = "in"
      BY DEF Listing, IsInjective, ToSet
    <2>2. \A c \in calls : /\ c.conn \in Conn
                           /\ c.op \in {"history", "started", "enter", "note", "impersonate"}
      BY DEF CallTypes
    <2>3. /\ \A t \in Tab : tabs[t].conn # NoConn => /\ conns[tabs[t].conn].tab = t
                                                     /\ conns[tabs[t].conn].net
          /\ \A t \in Tab : tabs[t].authed \/ tabs[t].watching => tabs[t].conn # NoConn
      BY DEF NetHeld, AuthedIsIn
    <2>4. ToSet(msgs.history) \subseteq Msg /\ msgs.posting \subseteq ToSet(msgs.history)
      BY DEF Stored, MsgTypes, ToSet
    <2>5. QED
      BY <2>1, <2>2, <2>3, <2>4 DEF TypeOK, ConnTypes, TabTypes, Page, RestTypes
  <1>2. QED
    BY <1>1, InitWatched, NextWatched, PTL DEF Spec

\* Nobody is recorded as watching a private chat, or as its moderator, without a connection
\* that the server takes for open (cleanupMonitoredRooms of admin.handler.ts), however
\* connections break, time out, are refused or are revoked.
THEOREM WatcherConnected == Spec => []WatcherHasSocket
  <1>1. Watched => WatcherHasSocket
    BY DEF Watched
  <1>2. QED
    BY <1>1, InitWatched, NextWatched, PTL DEF Spec

\* A page in peace shows every broadcast message once, but for the two races of
\* handleMonitorRoom between reading the history and sending it.
THEOREM MessagesOnce == Spec => []MessagesShownOnce
  <1>1. Watched => MessagesShownOnce
    BY DEF Watched, Stored, ShownRight, MessagesShownOnce, ToSet
  <1>2. QED
    BY <1>1, InitWatched, NextWatched, PTL DEF Spec

\* Whoever is told to wait for an impersonated partner is told more by somebody: the cleanup
\* of the one who was put out is not over, or one of its calls failed, or his own leave is
\* under way (takeover, room and connection handlers).  The cleanup that found nothing
\* found it so because of his leave.
THEOREM WaitersAreTold == Spec => []WaiterIsTold
  <1>1. Watched => WaiterIsTold
    BY DEF Watched, RoomKnown, WaiterIsTold
  <1>2. QED
    BY <1>1, InitWatched, NextWatched, PTL DEF Spec

-----------------------------------------------------------------------------
(* The dashboard's feed: the values it is made of.                          *)

Entry == [user : User, as : Shows]
Feed == [users : [User -> Shows \cup {Absent}], rooms : SUBSET Room, queued : Seq(Entry),
         created : Seq(Room), badUsers : SUBSET User, badRooms : SUBSET Room]

\* A queue that has an update of a user has a last one.
LastKnown(f) == \A u \in User : QueuedFor(f, u) => \E k \in DOMAIN f.queued : IsLast(f, u, k)

\* What the handlers may rely on of the dashboard and the batches.
Fed(f) ==
    /\ f \in Feed /\ LastKnown(f)
    /\ Len(f.queued) < MaxBatch /\ Len(f.created) < MaxBatch
    /\ \A k \in DOMAIN f.queued : f.queued[k].as.st \in {"idle", "queue"}

\* The rooms that are shown once the batches are out.
RoomsOf(f) == f.rooms \cup ToSet(f.created)

-----------------------------------------------------------------------------
(* What is said of a user, or of a room, and of nobody else.                *)

LEMMA LastIs ==
    ASSUME NEW f, NEW u \in User, NEW k, f \in Feed, IsLast(f, u, k)
    PROVE  LastWord(f, u) = f.queued[k].as
<1>1. f.queued \in Seq(Entry)
  BY DEF Feed
<1>2. DOMAIN f.queued \subseteq Nat
  BY <1>1
<1>3. QueuedFor(f, u)
  BY DEF QueuedFor, IsLast
<1>4. ASSUME NEW j \in DOMAIN f.queued, IsLast(f, u, j)
      PROVE  j = k
  <2>1. k \in DOMAIN f.queued /\ ~(j > k) /\ ~(k > j)
    BY <1>4 DEF IsLast
  <2> QED
    BY <2>1, <1>2, SMT
<1>5. k \in DOMAIN f.queued
  BY DEF IsLast
<1>6. (CHOOSE j \in DOMAIN f.queued : IsLast(f, u, j)) = k
  BY <1>4, <1>5
<1> QED
  BY <1>3, <1>6 DEF LastWord

LEMMA LastQueued ==
    ASSUME NEW f, NEW u \in User, Fed(f), QueuedFor(f, u)
    PROVE  \E k \in DOMAIN f.queued : IsLast(f, u, k) /\ LastWord(f, u) = f.queued[k].as
BY LastIs DEF Fed, LastKnown

LEMMA NotQueued ==
    ASSUME NEW f, NEW u \in User, ~QueuedFor(f, u)
    PROVE  LastWord(f, u) = f.users[u]
BY DEF LastWord

LEMMA WordTyped ==
    ASSUME NEW f, NEW u \in User, Fed(f)
    PROVE  LastWord(f, u) \in Shows \cup {Absent}
<1>1. CASE QueuedFor(f, u)
  <2>1. PICK k \in DOMAIN f.queued : LastWord(f, u) = f.queued[k].as
    BY <1>1, LastQueued
  <2>2. f.queued[k] \in Entry
    BY <2>1 DEF Fed, Feed
  <2> QED
    BY <2>1, <2>2 DEF Entry
<1>2. CASE ~QueuedFor(f, u)
  BY <1>2, NotQueued DEF Fed, Feed
<1> QED
  BY <1>1, <1>2

\* Two feeds with the same queue and users say the same.
LEMMA SameWord ==
    ASSUME NEW f, NEW g, g.queued = f.queued
    PROVE  /\ LastKnown(f) => LastKnown(g)
           /\ \A u \in User : QueuedFor(g, u) <=> QueuedFor(f, u)
           /\ \A u \in User : QueuedFor(g, u) => LastWord(g, u) = LastWord(f, u)
           /\ \A u \in User : g.users[u] = f.users[u] => LastWord(g, u) = LastWord(f, u)
BY DEF LastKnown, QueuedFor, IsLast, LastWord

LEMMA AppendedWord ==
    ASSUME NEW f \in Feed, NEW g \in Feed, NEW e \in Entry, LastKnown(f),
           g.users = f.users, g.queued = Append(f.queued, e)
    PROVE  /\ LastKnown(g) /\ LastWord(g, e.user) = e.as
           /\ \A v \in User \ {e.user} : LastWord(g, v) = LastWord(f, v)
<1> DEFINE u == e.user
           as == e.as
           n == Len(f.queued)
<1>1. f.queued \in Seq(Entry) /\ g.queued \in Seq(Entry)
  BY DEF Feed
<1>2. e \in Entry /\ u \in User
  BY DEF Entry
<1>3. /\ n \in Nat /\ DOMAIN f.queued = 1..n /\ DOMAIN g.queued = 1..(n + 1)
      /\ g.queued[n + 1] = e
      /\ \A k \in 1..n : g.queued[k] = f.queued[k]
  <2>1. g.queued = Append(f.queued, e)
    OBVIOUS
  <2>2. ASSUME NEW q \in Seq(Entry), NEW x \in Entry
        PROVE  /\ Len(q) \in Nat /\ DOMAIN q = 1..Len(q)
               /\ DOMAIN Append(q, x) = 1..(Len(q) + 1)
               /\ Append(q, x)[Len(q) + 1] = x
               /\ \A k \in 1..Len(q) : Append(q, x)[k] = q[k]
    <3> HIDE DEF n
    <3> QED
      OBVIOUS
  <2> DEFINE q == f.queued
             a == Append(q, e)
  <2>3. q \in Seq(Entry) /\ n = Len(q) /\ g.queued = a
    BY <1>1, <2>1
  <2>4. /\ Len(q) \in Nat /\ DOMAIN q = 1..Len(q) /\ DOMAIN a = 1..(Len(q) + 1)
        /\ a[Len(q) + 1] = e /\ \A k \in 1..Len(q) : a[k] = q[k]
    <3> HIDE DEF q
    <3> QED
      BY <1>2, <2>2, <2>3
  <2> HIDE DEF a
  <2> QED
    BY <2>3, <2>4
<1> HIDE DEF n
<1>4. IsLast(g, u, n + 1)
  BY <1>3, SMT DEF IsLast
<1>5. ASSUME NEW v \in User \ {u}
      PROVE  /\ QueuedFor(g, v) => \E k \in DOMAIN g.queued : IsLast(g, v, k)
             /\ LastWord(g, v) = LastWord(f, v)
  <2>1. QueuedFor(g, v) <=> QueuedFor(f, v)
    BY <1>3, SMT DEF QueuedFor
  <2>2. CASE QueuedFor(f, v)
    <3>1. PICK k \in DOMAIN f.queued : IsLast(f, v, k)
      BY <2>2 DEF LastKnown
    <3>2. LastWord(f, v) = f.queued[k].as
      BY <3>1, LastIs
    <3>3. IsLast(g, v, k)
      BY <3>1, <1>3, SMT DEF IsLast
    <3>4. LastWord(g, v) = g.queued[k].as
      BY <3>3, LastIs
    <3> QED
      BY <3>1, <3>2, <3>3, <3>4, <1>3 DEF IsLast
  <2>3. CASE ~QueuedFor(f, v)
    BY <2>1, <2>3, NotQueued
  <2> QED
    BY <2>2, <2>3
<1>6. LastWord(g, u) = as
  <2>1. LastWord(g, u) = g.queued[n + 1].as
    BY <1>2, <1>4, LastIs
  <2> QED
    BY <2>1, <1>3
<1>7. \E k \in DOMAIN g.queued : IsLast(g, u, k)
  BY <1>4 DEF IsLast
<1> QED
  BY <1>5, <1>6, <1>7 DEF LastKnown

LEMMA FlushedShape ==
    ASSUME NEW f, f \in Feed, LastKnown(f),
           \A u \in User : LastWord(f, u) \in Shows \cup {Absent}
    PROVE  /\ Fed(Flushed(f)) /\ Flushed(f).created = <<>>
           /\ \A u \in User : /\ LastWord(Flushed(f), u) = LastWord(f, u)
                              /\ Flushed(f).users[u] = LastWord(f, u)
           /\ RoomsOf(Flushed(f)) = RoomsOf(f) /\ Flushed(f).rooms = RoomsOf(f)
           /\ Flushed(f).badUsers = f.badUsers /\ Flushed(f).badRooms = f.badRooms
<1> DEFINE g == Flushed(f)
<1>1. /\ g.queued = <<>> /\ g.created = <<>> /\ g.rooms = f.rooms \cup ToSet(f.created)
      /\ g.users = [u \in User |-> LastWord(f, u)]
      /\ g.badUsers = f.badUsers /\ g.badRooms = f.badRooms
  BY DEF Flushed, Feed
<1>2. ToSet(f.created) \subseteq Room /\ f.rooms \subseteq Room
  BY DEF ToSet, Feed
<1>3. g.users \in [User -> Shows \cup {Absent}] /\ g.rooms \subseteq Room
  BY <1>1, <1>2
<1>4. <<>> \in Seq(Entry) /\ <<>> \in Seq(Room) /\ Len(<<>>) = 0 /\ DOMAIN <<>> = {}
  OBVIOUS
<1>5. g \in Feed
  <2>1. [u \in User |-> LastWord(f, u)] \in [User -> Shows \cup {Absent}]
    BY <1>1, <1>3
  <2>2. f.rooms \cup ToSet(f.created) \in SUBSET Room
    BY <1>2
  <2> QED
    BY <2>1, <2>2, <1>4 DEF Flushed, Feed
<1>6. \A u \in User : ~QueuedFor(g, u)
  BY <1>1, <1>4 DEF QueuedFor
<1>7. ToSet(g.created) = {}
  BY <1>1, <1>4 DEF ToSet
<1> HIDE DEF g
<1>8. Fed(g)
  BY <1>1, <1>4, <1>5, <1>6, FeedAssumption DEF Fed, LastKnown
<1>9. \A u \in User : LastWord(g, u) = LastWord(f, u)
  BY <1>1, <1>6, NotQueued
<1> QED
  BY <1>1, <1>7, <1>8, <1>9 DEF g, RoomsOf

\* Nothing changes what f says but what is named.
SameWords(f, g, users) ==
    \A u \in users : LastWord(g, u) = LastWord(f, u) /\ (u \in g.badUsers <=> u \in f.badUsers)
SameRooms(f, g, set) ==
    \A r \in set : /\ r \in RoomsOf(g) <=> r \in RoomsOf(f)
                   /\ r \in g.badRooms <=> r \in f.badRooms

LEMMA QueuedShape ==
    ASSUME NEW f, f \in Feed, LastKnown(f),
           \A u \in User : LastWord(f, u) \in Shows \cup {Absent},
           \A k \in DOMAIN f.queued : f.queued[k].as.st \in {"idle", "queue"}
    PROVE  Fed(Queued(f)) /\ SameWords(f, Queued(f), User) /\ SameRooms(f, Queued(f), Room)
<1>1. Len(f.queued) \in Nat /\ Len(f.created) \in Nat
  BY DEF Feed
<1>2. CASE Full(f)
  BY <1>2, FlushedShape DEF Queued, SameWords, SameRooms
<1>3. CASE ~Full(f)
  <2>1. Queued(f) = f
    BY <1>3 DEF Queued
  <2>2. Len(f.queued) < MaxBatch /\ Len(f.created) < MaxBatch
    BY <1>1, <1>3, FeedAssumption DEF Full
  <2> QED
    BY <2>1, <2>2 DEF Fed, SameWords, SameRooms
<1> QED
  BY <1>2, <1>3

LEMMA TellShape ==
    ASSUME NEW f, NEW u \in User, NEW as \in Shows, NEW now, Fed(f), as.st \in {"idle", "queue"}
    PROVE  LET g == Tell(f, u, as, now)
           IN /\ Fed(g) /\ SameWords(f, g, User \ {u}) /\ SameRooms(f, g, Room)
              /\ LastWord(g, u) = as
              /\ u \notin g.badUsers => ~Untrue(as, now)
<1> DEFINE e == [user |-> u, as |-> as]
           bad == Mark(f.badUsers, u, Untrue(as, now))
           h == [f EXCEPT !.queued = Append(@, e), !.badUsers = bad]
<1>1. Tell(f, u, as, now) = Queued(h)
  BY DEF Tell, Fed, Feed
<1>2. e \in Entry /\ e.as = as
  BY DEF Entry
<1>3. bad \subseteq User /\ (u \notin bad => ~Untrue(as, now))
      /\ \A v \in User \ {u} : v \in bad <=> v \in f.badUsers
  BY DEF Mark, Fed, Feed
<1>4. f \in Feed
  BY DEF Fed
<1>5. Append(f.queued, e) \in Seq(Entry)
  <2> HIDE DEF e
  <2> QED
    BY <1>2, <1>4 DEF Feed
<1>6. /\ h.users = f.users /\ h.rooms = f.rooms /\ h.created = f.created
      /\ h.badRooms = f.badRooms /\ h.badUsers = bad /\ h.queued = Append(f.queued, e)
  <2> HIDE DEF e, bad
  <2> QED
    BY <1>4 DEF Feed
<1>7. h \in Feed
  <2> HIDE DEF e, bad
  <2> QED
    BY <1>3, <1>4, <1>5 DEF Feed
<1>8. \A k \in DOMAIN h.queued : h.queued[k].as.st \in {"idle", "queue"}
  <2>1. f.queued \in Seq(Entry)
    BY <1>4 DEF Feed
  <2>2. \A k \in DOMAIN f.queued : f.queued[k].as.st \in {"idle", "queue"}
    BY DEF Fed
  <2> HIDE DEF e, h
  <2>3. \A k \in DOMAIN Append(f.queued, e) :
           Append(f.queued, e)[k] = IF k = Len(f.queued) + 1 THEN e ELSE f.queued[k]
    BY <2>1, <1>2
  <2>4. DOMAIN Append(f.queued, e) = DOMAIN f.queued \cup {Len(f.queued) + 1}
    BY <2>1, <1>2
  <2> QED
    BY <2>2, <2>3, <2>4, <1>2, <1>6
<1>9. /\ LastKnown(h) /\ LastWord(h, u) = as
      /\ \A v \in User \ {u} : LastWord(h, v) = LastWord(f, v)
  <2>1. LastKnown(f)
    BY DEF Fed
  <2>2. h.users = f.users /\ h.queued = Append(f.queued, e) /\ e.user = u /\ e.as = as
    BY <1>6
  <2> HIDE DEF h, e, bad
  <2> QED
    BY <1>2, <1>4, <1>7, <2>1, <2>2, AppendedWord
<1> HIDE DEF h, e, bad
<1>10. \A v \in User : LastWord(h, v) \in Shows \cup {Absent}
  BY <1>9, WordTyped
<1>11. Fed(Queued(h)) /\ SameWords(h, Queued(h), User) /\ SameRooms(h, Queued(h), Room)
  BY <1>7, <1>8, <1>9, <1>10, QueuedShape
<1> QED
  BY <1>1, <1>3, <1>6, <1>9, <1>11 DEF SameWords, SameRooms, RoomsOf

LEMMA TellNowShape ==
    ASSUME NEW f, NEW users \in SUBSET User, NEW as \in Shows \cup {Absent}, NEW now, Fed(f)
    PROVE  LET g == TellNow(f, users, as, now)
           IN /\ Fed(g) /\ SameWords(f, g, User \ users) /\ SameRooms(f, g, Room)
              /\ \A u \in users : u \notin g.badUsers => LastWord(g, u) = as
              /\ \A u \in users : u \notin g.badUsers => ~Untrue(as, now[u])
<1> DEFINE g == TellNow(f, users, as, now)
           shown == [u \in User |-> IF u \in users THEN as ELSE f.users[u]]
           bad == (f.badUsers \ users)
                  \cup {u \in users : Untrue(as, now[u]) \/ QueuedFor(f, u)}
<1>1. f \in Feed /\ shown \in [User -> Shows \cup {Absent}] /\ bad \in SUBSET User
  BY DEF Fed, Feed
<1>2. /\ g \in Feed /\ g.users = shown /\ g.badUsers = bad /\ g.queued = f.queued
      /\ g.created = f.created /\ g.rooms = f.rooms /\ g.badRooms = f.badRooms
  <2>1. g = [f EXCEPT !.users = shown, !.badUsers = bad]
    BY <1>1 DEF TellNow, Feed
  <2> HIDE DEF g, shown, bad
  <2> QED
    BY <1>1, <2>1 DEF Feed
<1>3. \A u \in User \ users : g.users[u] = f.users[u]
  BY <1>2
<1>4. \A u \in users \ g.badUsers : /\ g.users[u] = as /\ ~Untrue(as, now[u])
                                    /\ ~QueuedFor(f, u)
  BY <1>2
<1>5. \A u \in User \ users : u \in g.badUsers <=> u \in f.badUsers
  BY <1>2
<1> HIDE DEF g
<1>6. Fed(g)
  BY <1>2, SameWord DEF Fed
<1>7. SameWords(f, g, User \ users)
  BY <1>2, <1>3, <1>5, SameWord DEF SameWords
<1>8. ASSUME NEW u \in users \ g.badUsers
      PROVE  LastWord(g, u) = as
  <2>1. u \in User /\ ~QueuedFor(f, u) /\ g.users[u] = as
    BY <1>4
  <2>2. ~QueuedFor(g, u)
    BY <1>2, <2>1, SameWord
  <2> QED
    BY <2>1, <2>2, NotQueued
<1>9. SameRooms(f, g, Room)
  BY <1>2 DEF SameRooms, RoomsOf
<1> QED
  BY <1>4, <1>6, <1>7, <1>8, <1>9 DEF g

LEMMA TellCreatedShape ==
    ASSUME NEW f, NEW r \in Room, NEW now, Fed(f)
    PROVE  LET g == TellCreated(f, r, now)
           IN /\ Fed(g) /\ SameWords(f, g, User) /\ SameRooms(f, g, Room \ {r})
              /\ r \in RoomsOf(g) /\ (r \notin g.badRooms => r \in now)
<1> DEFINE bad == Mark(f.badRooms, r, r \notin now)
           h == [f EXCEPT !.created = Append(@, r), !.badRooms = bad]
<1>1. TellCreated(f, r, now) = Queued(h)
  BY DEF TellCreated, Fed, Feed
<1>2. f \in Feed /\ bad \in SUBSET Room /\ f.created \in Seq(Room)
  BY DEF Mark, Fed, Feed
<1>3. /\ Append(f.created, r) \in Seq(Room)
      /\ ToSet(Append(f.created, r)) = ToSet(f.created) \cup {r}
  <2>1. DOMAIN Append(f.created, r) = DOMAIN f.created \cup {Len(f.created) + 1}
    BY <1>2
  <2>2. \A k \in DOMAIN f.created : Append(f.created, r)[k] = f.created[k]
    BY <1>2
  <2>3. Append(f.created, r)[Len(f.created) + 1] = r
    BY <1>2
  <2> QED
    BY <1>2, <2>1, <2>2, <2>3 DEF ToSet
<1>4. /\ h \in Feed /\ h.users = f.users /\ h.queued = f.queued /\ h.rooms = f.rooms
      /\ h.badUsers = f.badUsers /\ h.badRooms = bad /\ h.created = Append(f.created, r)
  <2> HIDE DEF bad
  <2> QED
    BY <1>2, <1>3 DEF Feed
<1>5. /\ r \notin bad => r \in now
      /\ \A q \in Room \ {r} : q \in bad <=> q \in f.badRooms
  BY <1>2 DEF Mark
<1> HIDE DEF h, bad
<1>6. LastKnown(h) /\ SameWords(f, h, User)
  BY <1>4, SameWord DEF Fed, SameWords
<1>7. SameRooms(f, h, Room \ {r}) /\ r \in RoomsOf(h)
  BY <1>3, <1>4, <1>5 DEF SameRooms, RoomsOf
<1>8. \A u \in User : LastWord(h, u) \in Shows \cup {Absent}
  BY <1>6, WordTyped DEF SameWords
<1>9. Fed(Queued(h)) /\ SameWords(h, Queued(h), User) /\ SameRooms(h, Queued(h), Room)
  BY <1>4, <1>6, <1>8, QueuedShape DEF Fed
<1> QED
  BY <1>1, <1>4, <1>5, <1>6, <1>7, <1>9 DEF SameWords, SameRooms

LEMMA TellDeletedShape ==
    ASSUME NEW f, NEW r \in Room, Fed(f)
    PROVE  LET g == TellDeleted(f, r)
           IN /\ Fed(g) /\ g.badUsers = f.badUsers /\ SameRooms(f, g, Room \ {r})
              /\ r \notin g.badRooms => r \notin RoomsOf(g)
              /\ \A u \in User : \/ LastWord(g, u) = LastWord(f, u)
                                 \/ LastWord(f, u).room = r /\ LastWord(g, u) = Absent
<1> DEFINE g == TellDeleted(f, r)
           shown == [u \in User |-> IF f.users[u].room = r THEN Absent ELSE f.users[u]]
           bad == Mark(f.badRooms, r, r \in ToSet(f.created))
<1>1. f \in Feed /\ shown \in [User -> Shows \cup {Absent}] /\ bad \in SUBSET Room
  BY DEF Fed, Feed, Mark
<1>2. /\ g \in Feed /\ g.users = shown /\ g.badRooms = bad /\ g.queued = f.queued
      /\ g.created = f.created /\ g.rooms = f.rooms \ {r} /\ g.badUsers = f.badUsers
  <2>1. g = [f EXCEPT !.rooms = @ \ {r}, !.users = shown, !.badRooms = bad]
    BY <1>1 DEF TellDeleted, Feed
  <2> HIDE DEF g, shown, bad
  <2> QED
    BY <1>1, <2>1 DEF Feed
<1>3. /\ r \notin bad => r \notin ToSet(f.created)
      /\ \A q \in Room \ {r} : q \in bad <=> q \in f.badRooms
  BY <1>1 DEF Mark
<1>4. \A u \in User : g.users[u] = f.users[u] \/ (f.users[u].room = r /\ g.users[u] = Absent)
  BY <1>2
<1> HIDE DEF g, bad, shown
<1>5. ASSUME NEW u \in User
      PROVE  \/ LastWord(g, u) = LastWord(f, u)
             \/ LastWord(f, u).room = r /\ LastWord(g, u) = Absent
  BY <1>2, <1>4, SameWord, NotQueued
<1>6. Fed(g)
  BY <1>2, SameWord DEF Fed
<1>7. SameRooms(f, g, Room \ {r}) /\ (r \notin g.badRooms => r \notin RoomsOf(g))
  BY <1>2, <1>3 DEF SameRooms, RoomsOf
<1> QED
  BY <1>2, <1>5, <1>6, <1>7 DEF g

LEMMA UnannouncedShape ==
    ASSUME NEW f, NEW users \in SUBSET User, Fed(f)
    PROVE  LET g == Unannounced(f, users)
           IN /\ Fed(g) /\ SameWords(f, g, User \ users) /\ SameRooms(f, g, Room)
              /\ users \subseteq g.badUsers
              /\ \A u \in User : LastWord(g, u) = LastWord(f, u)
              /\ f.badUsers \subseteq g.badUsers
<1> DEFINE g == Unannounced(f, users)
<1>1. /\ g \in Feed /\ g.users = f.users /\ g.badRooms = f.badRooms /\ g.queued = f.queued
      /\ g.created = f.created /\ g.rooms = f.rooms /\ g.badUsers = f.badUsers \cup users
  BY DEF Unannounced, Fed, Feed
<1> HIDE DEF g
<1>2. Fed(g)
  BY <1>1, SameWord DEF Fed
<1> QED
  BY <1>1, <1>2, SameWord DEF SameWords, SameRooms, RoomsOf, g

-----------------------------------------------------------------------------
(* Ranges.                                                                  *)

SockState == [st : {"new", "idle", "queue", "active", "away", "gone"}, room : Room \cup {NoRoom}]
UserCall == [st : {"no", "join", "cancel", "delete", "tell", "end", "resume"},
         room : Room \cup {NoRoom}, live : BOOLEAN]
Cleanup == [user : User, st : {"find", "look", "delete", "tell", "only_room"},
            room : Room \cup {NoRoom}]
Match == [st : {"no", "make", "tell"}, room : Room \cup {NoRoom}, live : SUBSET User]
Order == [st : {"no", "kick_delete", "kick_end", "drop", "delete", "tell"},
          room : Room \cup {NoRoom}, user : User \cup {None}, live : BOOLEAN]
UserList == [st : {"no", "read"}, data : [User -> Shows \cup {Absent}]]
RoomList == [st : {"no", "asked", "read"}, data : SUBSET Room]

SiteTypes == sock \in [User -> SockState] /\ rooms \in SUBSET Room
HandlerTypes ==
    /\ op \in [User -> UserCall] /\ clean \in SUBSET Cleanup
    /\ making \in Match /\ order \in Order
ReadTypes == lists \in [users : UserList, rooms : RoomList]
CountTypes == count \in [rooms : 0..MaxRooms, joins : Nat, rest : Nat]

FeedTypes == SiteTypes /\ HandlerTypes /\ ReadTypes /\ CountTypes

LEMMA RoomFacts == NoRoom \notin Room /\ Room \subseteq Nat
BY FeedAssumption DEF Room, NoRoom

LEMMA Constants ==
    /\ Idle \in SockState /\ Absent.room = NoRoom /\ Absent.st = "absent"
    /\ Idle.room = NoRoom /\ Idle.st = "idle" /\ Idle \in Shows /\ Idle # Absent
    /\ NoOp \in UserCall /\ NoOp.st = "no" /\ NoOp.room = NoRoom
    /\ NoOrder \in Order /\ NoOrder.st = "no" /\ NoOrder.room = NoRoom
    /\ Absent \notin Shows
BY DEF Idle, Absent, SockState, NoRoom, Shows, NoOp, UserCall, NoOrder, Order

LEMMA OtherIs ==
    ASSUME NEW u \in User
    PROVE  Other(u) \in User /\ Other(u) # u /\ \A v \in User : v # u => v = Other(u)
<1>1. PICK a, b \in User : a # b /\ User = {a, b}
  BY FeedAssumption
<1>2. \E v \in User : v # u
  BY <1>1
<1>3. Other(u) \in User /\ Other(u) # u
  BY <1>2 DEF Other
<1> QED
  BY <1>1, <1>3

LEMMA TruthIs ==
    ASSUME NEW s \in [User -> SockState], NEW u \in User
    PROVE  /\ Truth(s)[u] \in Shows \cup {Absent}
           /\ s[u].st \in {"new", "away", "gone"} => Truth(s)[u] = Absent
           /\ s[u].st \notin {"new", "away", "gone"} => Truth(s)[u] = s[u] /\ s[u] \in Shows
           /\ Truth(s)[u].room # NoRoom => Truth(s)[u] = s[u]
BY DEF Truth, SockState, Shows, Absent

\* Those who are gone: their sockets, their handlers, and what is said of them.
LEMMA GoneShape ==
    ASSUME FeedTypes, Fed(feed), NEW users \in SUBSET User, Gone(users)
    PROVE  /\ sock' \in [User -> SockState] /\ op' \in [User -> UserCall]
           /\ \A u \in User \ users : sock'[u] = sock[u] /\ op'[u] = op[u]
           /\ \A u \in users : /\ sock'[u] = [st |-> "gone", room |-> NoRoom]
                               /\ Truth(sock')[u] = Absent
                               /\ op'[u].st = op[u].st /\ op'[u].room = op[u].room
                               /\ ~op'[u].live
           /\ \A u \in User : op'[u].st = op[u].st /\ op'[u].room = op[u].room
           /\ clean' = clean \cup CleanupOf(users) /\ clean' \in SUBSET Cleanup
           /\ \A c \in clean' \ clean : c.st = "find" /\ c.room = NoRoom
           /\ making' \in Match /\ making'.st = making.st /\ making'.room = making.room
           /\ making'.live \subseteq making.live
           /\ Fed(feed') /\ SameWords(feed, feed', User \ users)
           /\ SameRooms(feed, feed', Room)
           /\ \A u \in users \ feed'.badUsers : LastWord(feed', u) = Absent
<1> DEFINE gone == [st |-> "gone", room |-> NoRoom]
<1>1. gone \in SockState
  BY DEF SockState
<1>2. /\ sock' \in [User -> SockState]
      /\ \A u \in User \ users : sock'[u] = sock[u]
      /\ \A u \in users : sock'[u] = gone
  <2>1. sock' = [u \in User |-> IF u \in users THEN gone ELSE sock[u]]
    BY DEF Gone
  <2> HIDE DEF gone
  <2> QED
    BY <1>1, <2>1 DEF FeedTypes, SiteTypes
<1>3. \A u \in users : Truth(sock')[u] = Absent
  BY <1>2, TruthIs
<1>4. /\ op' \in [User -> UserCall]
      /\ \A u \in User \ users : op'[u] = op[u]
      /\ \A u \in users : ~op'[u].live
      /\ \A u \in User : op'[u].st = op[u].st /\ op'[u].room = op[u].room
  BY DEF Gone, Dead, FeedTypes, HandlerTypes, UserCall
<1>5. /\ making' \in Match /\ making'.st = making.st /\ making'.room = making.room
      /\ making'.live \subseteq making.live
  BY DEF Gone, Dead, FeedTypes, HandlerTypes, Match
<1>6. /\ clean' = clean \cup CleanupOf(users) /\ clean' \in SUBSET Cleanup
      /\ \A c \in clean' \ clean : c.st = "find" /\ c.room = NoRoom
  BY DEF Gone, CleanupOf, FeedTypes, HandlerTypes, Cleanup
<1>7. feed' = TellNow(feed, users, Absent, Truth(sock'))
  BY DEF Gone
<1>8. /\ Fed(feed') /\ SameWords(feed, feed', User \ users) /\ SameRooms(feed, feed', Room)
      /\ \A u \in users \ feed'.badUsers : LastWord(feed', u) = Absent
  <2> DEFINE now == Truth(sock')
  <2>1. feed' = TellNow(feed, users, Absent, now) /\ Absent \in Shows \cup {Absent}
    BY <1>7
  <2> HIDE DEF now
  <2>3. Fed(feed) /\ users \in SUBSET User
    OBVIOUS
  <2>2. /\ Fed(TellNow(feed, users, Absent, now))
        /\ SameWords(feed, TellNow(feed, users, Absent, now), User \ users)
        /\ SameRooms(feed, TellNow(feed, users, Absent, now), Room)
        /\ \A u \in users \ TellNow(feed, users, Absent, now).badUsers :
              LastWord(TellNow(feed, users, Absent, now), u) = Absent
    BY <2>1, <2>3, TellNowShape
  <2> QED
    BY <2>1, <2>2
<1> QED
  BY <1>2, <1>3, <1>4, <1>5, <1>6, <1>8

\* A user who is announced idle.
MadeIdle(f, v, s, g) ==
    s = PartnerIdle(sock, f, v).sock /\ g = PartnerIdle(sock, f, v).feed

LEMMA PartnerSock ==
    ASSUME FeedTypes, NEW v \in User, NEW f, NEW s, NEW g, MadeIdle(f, v, s, g)
    PROVE  /\ s \in [User -> SockState]
           /\ \A u \in User \ {v} : s[u] = sock[u]
           /\ s[v] = IF Connected(v) THEN Idle ELSE sock[v]
<1>1. s = IF Connected(v) THEN [sock EXCEPT ![v] = Idle] ELSE sock
  BY DEF MadeIdle, PartnerIdle
<1> QED
  BY <1>1, Constants DEF FeedTypes, SiteTypes

LEMMA PartnerFeed ==
    ASSUME NEW f, Fed(f), NEW v \in User, NEW s, NEW g, MadeIdle(f, v, s, g)
    PROVE  /\ Fed(g) /\ SameWords(f, g, User \ {v}) /\ SameRooms(f, g, Room)
           /\ ~Connected(v) => g = f
           /\ Connected(v) /\ v \notin g.badUsers => LastWord(g, v) = Idle /\ op[v].st # "resume"
<1>1. CASE Connected(v)
  <2> DEFINE now == IF op[v].st = "resume" THEN Absent ELSE Idle
             h == Tell(f, v, Idle, now)
  <2>1. g = h
    BY <1>1 DEF PartnerIdle, MadeIdle
  <2>2. /\ Fed(h) /\ SameWords(f, h, User \ {v}) /\ SameRooms(f, h, Room)
        /\ LastWord(h, v) = Idle /\ (v \notin h.badUsers => ~Untrue(Idle, now))
    <3> HIDE DEF now
    <3> QED
      BY TellShape, Constants
  <2>3. v \notin h.badUsers => op[v].st # "resume"
    BY <2>2, Constants DEF Untrue
  <2> HIDE DEF h, now
  <2> QED
    BY <1>1, <2>1, <2>2, <2>3
<1>2. CASE ~Connected(v)
  <2>1. g = f
    BY <1>2 DEF PartnerIdle, MadeIdle
  <2> QED
    BY <1>2, <2>1 DEF SameWords, SameRooms
<1> QED
  BY <1>1, <1>2

-----------------------------------------------------------------------------
(* Rooms are made once.                                                     *)

Leaving == {"delete", "tell", "end"}

\* The rooms that have been in Redis, or were once.
Made == {r \in 1..count.rooms : making.st = "make" => r # making.room}

\* Handlers know no room but those, and those that must have found one have.
Placed ==
    /\ rooms \subseteq Made
    /\ \A u \in User : /\ sock[u].room \in Made \cup {NoRoom}
                       /\ op[u].room \in Made \cup {NoRoom}
                       /\ op[u].st \in Leaving => op[u].room \in Made
    /\ order.room \in Made \cup {NoRoom} /\ (order.st # "no" => order.room \in Made)
    /\ order.live => order.user \in User
    /\ \A c \in clean : /\ c.room \in Made \cup {NoRoom}
                        /\ c.st # "find" => c.room \in Made
    /\ making.st # "no" => making.room \in 1..count.rooms

\* What has been deleted stays deleted.
Deleted ==
    /\ \A u \in User : op[u].st \in {"tell", "end"} => op[u].room \notin rooms
    /\ \A c \in clean : c.st \in {"tell", "only_room"} => c.room \notin rooms
    /\ order.st = "tell" => order.room \notin rooms

\* A match has no socket of a user who is held or comes back.
Unheld ==
    \A u \in User :
        /\ sock[u].st = "away" \/ op[u].st = "resume" => u \notin making.live
        /\ op[u].st = "resume" => IF op[u].live THEN sock[u] = Idle
                                  ELSE sock[u] = [st |-> "gone", room |-> NoRoom]

Bounded == FeedTypes /\ Fed(feed) /\ Placed

LEMMA MadeRooms == FeedTypes => Made \subseteq Room /\ NoRoom \notin Made
BY FeedAssumption DEF FeedTypes, CountTypes, Made, Room, NoRoom

LEMMA MadeGrows ==
    ASSUME FeedTypes, Placed,
           count'.rooms = count.rooms, making'.st = making.st, making'.room = making.room
    PROVE  Made' = Made
BY DEF Made

LEMMA MakeBeginMade ==
    ASSUME FeedTypes, Placed, MakeBegin
    PROVE  Made' = Made /\ making'.room \in Room /\ making'.room \notin Made
           /\ making' \in Match /\ count' \in [rooms : 0..MaxRooms, joins : Nat, rest : Nat]
           /\ making'.room \in 1..count'.rooms
<1>1. /\ count.rooms \in Nat /\ count.rooms < MaxRooms
      /\ making' = [st |-> "make", room |-> count.rooms + 1, live |-> User]
      /\ count' = [count EXCEPT !.rooms = @ + 1] /\ making.st = "no"
  BY DEF MakeBegin, FeedTypes, CountTypes
<1>2. making'.st = "make" /\ making'.room = count.rooms + 1 /\ count'.rooms = count.rooms + 1
  BY <1>1 DEF FeedTypes, CountTypes
<1>3. Made = 1..count.rooms /\ Made' = 1..count.rooms
  BY <1>1, <1>2, SMT DEF Made
<1>4. count.rooms + 1 \in Room
  BY <1>1, FeedAssumption DEF Room
<1>5. count.rooms + 1 \in 0..MaxRooms
  BY <1>1, FeedAssumption
<1>6. count' \in [rooms : 0..MaxRooms, joins : Nat, rest : Nat]
  BY <1>1, <1>5 DEF FeedTypes, CountTypes
<1>7. making' \in Match
  BY <1>1, <1>4 DEF Match
<1> QED
  BY <1>1, <1>2, <1>3, <1>4, <1>6, <1>7

LEMMA MakeRoomMade ==
    ASSUME FeedTypes, Placed, MakeRoom
    PROVE  Made' = Made \cup {making.room} /\ making.room \notin Made
           /\ rooms' = rooms \cup {making.room} /\ making.room \in Room
<1>1. /\ making.st = "make" /\ making'.st = "tell" /\ making'.room = making.room
      /\ rooms' = rooms \cup {making.room} /\ making.room \in 1..count.rooms
  BY DEF MakeRoom, FeedTypes, HandlerTypes, Match, Placed
<1>2. making.room \in Room
  BY <1>1, FeedAssumption DEF Room, FeedTypes, CountTypes
<1>3. count' = count
  BY DEF MakeRoom
<1>4. Made = {r \in 1..count.rooms : r # making.room}
  BY <1>1 DEF Made
<1>5. Made' = 1..count.rooms
  BY <1>1, <1>3 DEF Made
<1> QED
  BY <1>1, <1>2, <1>4, <1>5

LEMMA MakeTellMade ==
    ASSUME FeedTypes, Placed, MakeTell
    PROVE  Made' = Made /\ making.room \in Made /\ making' \in Match
<1>1. /\ making.st = "tell" /\ making' = [st |-> "no", room |-> NoRoom, live |-> {}]
      /\ making.room \in 1..count.rooms /\ count' = count
  BY DEF MakeTell, Placed
<1> QED
  BY <1>1 DEF Made, Match

-----------------------------------------------------------------------------
(* What a dashboard is told of a user.                                      *)

\* The word on a user who is not bad is the truth, unless it is still to come; one who is
\* held, or comes back, is shown in the room that is kept.
UserGood(u) ==
    u \notin feed.badUsers =>
       /\ Pending(u) \/ LastWord(feed, u) = Truth(sock)[u]
       /\ sock[u].st = "away" /\ op[u].st \notin Leaving /\ sock[u].room \in rooms
             => LastWord(feed, u) = [st |-> "active", room |-> sock[u].room]
       /\ op[u].st = "resume" =>
             IF op[u].live
             THEN op[u].room \in rooms
                     => LastWord(feed, u) = [st |-> "active", room |-> op[u].room]
             ELSE LastWord(feed, u) = Truth(sock)[u]

LEMMA TruthSame ==
    ASSUME FeedTypes, FeedTypes', NEW u \in User, sock'[u] = sock[u]
    PROVE  Truth(sock')[u] = Truth(sock)[u]
BY TruthIs DEF FeedTypes, SiteTypes, Truth

\* Nothing happens to the user; rooms are deleted, or one is made that the user is not in.
LEMMA UntouchedGood ==
    ASSUME FeedTypes, FeedTypes', Placed, NEW u \in User, UserGood(u),
           sock'[u] = sock[u], op'[u] = op[u], rooms' \cap (Made \cup {NoRoom}) \subseteq rooms,
           LastWord(feed', u) = LastWord(feed, u), u \in feed.badUsers => u \in feed'.badUsers
    PROVE  UserGood(u)'
<1>1. Truth(sock')[u] = Truth(sock)[u]
  BY TruthSame
<1>2. Pending(u) => Pending(u)'
  BY DEF Pending
<1>3. /\ sock[u].room \in rooms' => sock[u].room \in rooms
      /\ op[u].room \in rooms' => op[u].room \in rooms
  BY DEF Placed
<1> QED
  BY <1>1, <1>2, <1>3 DEF UserGood

\* Good or bad, the user has just been told of.
LEMMA ToldGood ==
    ASSUME NEW u \in User,
           u \notin feed'.badUsers =>
              /\ LastWord(feed', u) = Truth(sock')[u] /\ sock'[u].st # "away"
              /\ op'[u].st = "resume" => ~op'[u].live
    PROVE  UserGood(u)'
BY DEF UserGood

\* A leave that goes on: the word is to come.
LEMMA LeavingGood ==
    ASSUME NEW u \in User, op'[u].st \in Leaving
    PROVE  UserGood(u)'
BY DEF UserGood, Leaving, Pending

\* The room of the user's last word is gone: the dashboard drops the user, whom it showed
\* there in vain.
LEMMA DroppedGood ==
    ASSUME FeedTypes, FeedTypes', Placed, NEW u \in User, NEW r \in Room \ rooms, UserGood(u),
           sock'[u] = sock[u], op'[u] = op[u], rooms' = rooms, Unheld,
           \/ LastWord(feed', u) = LastWord(feed, u)
           \/ LastWord(feed, u).room = r,
           u \in feed.badUsers => u \in feed'.badUsers,
           sock[u].room = r /\ sock[u].st \notin {"new", "away", "gone"}
              => u \in feed'.badUsers
    PROVE  UserGood(u)'
<1>1. CASE LastWord(feed', u) = LastWord(feed, u)
  BY <1>1, UntouchedGood
<1>2. CASE u \in feed'.badUsers
  BY <1>2 DEF UserGood
<1>3. CASE u \notin feed'.badUsers /\ LastWord(feed, u).room = r
  <2>1. r # NoRoom
    BY RoomFacts
  <2>2. LastWord(feed, u) # Truth(sock)[u]
    <3>1. SUFFICES ASSUME LastWord(feed, u) = Truth(sock)[u] PROVE FALSE
      OBVIOUS
    <3>2. Truth(sock)[u] = sock[u]
      BY <1>3, <2>1, <3>1, TruthIs DEF FeedTypes, SiteTypes
    <3>3. sock[u].st \notin {"new", "away", "gone"}
      BY <1>3, <2>1, <3>1, TruthIs, Constants DEF FeedTypes, SiteTypes
    <3> QED
      BY <1>3, <3>1, <3>2, <3>3
  <2>3. Pending(u) /\ Pending(u)'
    BY <1>3, <2>2 DEF UserGood, Pending
  <2>4. ~(sock[u].st = "away" /\ op[u].st \notin Leaving /\ sock[u].room \in rooms)
    <3>1. SUFFICES ASSUME sock[u].st = "away", op[u].st \notin Leaving, sock[u].room \in rooms
                   PROVE  FALSE
      OBVIOUS
    <3>2. LastWord(feed, u).room = sock[u].room
      BY <1>3, <3>1 DEF UserGood
    <3> QED
      BY <1>3, <3>1, <3>2
  <2>5. op[u].st = "resume" => op[u].live /\ op[u].room \notin rooms
    <3>1. SUFFICES ASSUME op[u].st = "resume" PROVE op[u].live /\ op[u].room \notin rooms
      OBVIOUS
    <3>2. op[u].live
      BY <1>3, <2>2, <3>1 DEF UserGood
    <3>3. op[u].room \in rooms => LastWord(feed, u).room = op[u].room
      BY <1>3, <3>1, <3>2 DEF UserGood
    <3> QED
      BY <1>3, <3>2, <3>3
  <2> QED
    BY <2>3, <2>4, <2>5 DEF UserGood
<1> QED
  BY <1>1, <1>2, <1>3

\* What the departure of some does to the word on all.
LEMMA GoneGood ==
    ASSUME FeedTypes, FeedTypes', Fed(feed), Placed, NEW users \in SUBSET User, Gone(users),
           rooms' \subseteq rooms, NEW u \in User, UserGood(u)
    PROVE  UserGood(u)'
<1>1. CASE u \in users
  <2>1. u \notin feed'.badUsers => LastWord(feed', u) = Absent
    BY <1>1, GoneShape
  <2>2. Truth(sock')[u] = Absent /\ ~op'[u].live
    BY <1>1, GoneShape
  <2>3. sock'[u].st = "gone"
    <3>1. sock'[u] = [st |-> "gone", room |-> NoRoom]
      BY <1>1, GoneShape
    <3> QED
      BY <3>1
  <2> QED
    BY <2>1, <2>2, <2>3, ToldGood
<1>2. CASE u \notin users
  <2>1. /\ sock'[u] = sock[u] /\ op'[u] = op[u] /\ LastWord(feed', u) = LastWord(feed, u)
        /\ u \in feed'.badUsers <=> u \in feed.badUsers
    BY <1>2, GoneShape DEF SameWords
  <2> QED
    BY <2>1, UntouchedGood
<1> QED
  BY <1>1, <1>2

-----------------------------------------------------------------------------
(* Every step keeps the ranges.                                             *)

UserStep(u) ==
    \/ JoinBegin(u) \/ JoinEnd(u) \/ CancelBegin(u) \/ CancelEnd(u)
    \/ LeaveBegin(u) \/ LeaveDelete(u) \/ LeaveTell(u) \/ LeaveEnd(u)
    \/ CloseTab(u) \/ Blip(u) \/ GraceExpires(u) \/ ResumeBegin(u) \/ ResumeEnd(u)
    \/ KickBegin(u) \/ Forget(u)
CleanupStep(c) == CleanFind(c) \/ CleanLook(c) \/ CleanDelete(c) \/ CleanTell(c)
OtherStep ==
    \/ MakeBegin \/ MakeRoom \/ MakeTell
    \/ KickDelete \/ KickEnd
    \/ CloseRoomBegin \/ CloseRoomDrop \/ CloseRoomDelete \/ CloseRoomTell \/ CloseSite
    \/ AskLists \/ ReadRooms \/ SendUsers \/ SendRooms
    \/ Flush

LEMMA NextSteps ==
    ASSUME FeedNext
    PROVE  \/ \E u \in User : UserStep(u)
           \/ \E c \in clean : CleanupStep(c)
           \/ OtherStep
BY Zenon DEF FeedNext, UserStep, CleanupStep, OtherStep

LEMMA CountKept ==
    ASSUME CountTypes, \/ count' = [count EXCEPT !.rest = @ + 1]
                       \/ count' = [count EXCEPT !.joins = @ + 1]
                       \/ count' = count
    PROVE  CountTypes' /\ count'.rooms = count.rooms
BY DEF CountTypes

LEMMA StateTyped ==
    /\ \A r \in Room \cup {NoRoom} : [st |-> "gone", room |-> r] \in SockState
    /\ \A r \in Room \cup {NoRoom} : [st |-> "queue", room |-> r] \in SockState
    /\ \A r \in Room \cup {NoRoom} : [st |-> "active", room |-> r] \in SockState
BY DEF SockState

LEMMA SockTyped ==
    ASSUME sock \in [User -> SockState], NEW u \in User
    PROVE  /\ [sock EXCEPT ![u].st = "idle"] \in [User -> SockState]
           /\ [sock EXCEPT ![u].st = "away"] \in [User -> SockState]
           /\ [sock EXCEPT ![u] = Idle] \in [User -> SockState]
           /\ [sock EXCEPT ![u] = [st |-> "queue", room |-> NoRoom]] \in [User -> SockState]
           /\ \A r \in Room : [sock EXCEPT ![u] = [st |-> "active", room |-> r]]
                                  \in [User -> SockState]
<1>1. /\ [sock[u] EXCEPT !.st = "idle"] \in SockState
      /\ [sock[u] EXCEPT !.st = "away"] \in SockState
  BY DEF SockState
<1>2. /\ [st |-> "queue", room |-> NoRoom] \in SockState
      /\ \A r \in Room : [st |-> "active", room |-> r] \in SockState
      /\ Idle \in SockState
  BY Constants DEF SockState
<1>3. ASSUME NEW s \in SockState PROVE [sock EXCEPT ![u] = s] \in [User -> SockState]
  OBVIOUS
<1> QED
  BY <1>1, <1>2, <1>3

LEMMA OpTyped ==
    ASSUME op \in [User -> UserCall], NEW u \in User
    PROVE  /\ [op EXCEPT ![u] = NoOp] \in [User -> UserCall]
           /\ \A st \in {"tell", "end"} : [op EXCEPT ![u].st = st] \in [User -> UserCall]
           /\ \A st \in {"join", "cancel", "delete", "resume"}, r \in Room \cup {NoRoom} :
                 [op EXCEPT ![u] = [st |-> st, room |-> r, live |-> TRUE]] \in [User -> UserCall]
<1>1. \A st \in {"tell", "end"} : [op[u] EXCEPT !.st = st] \in UserCall
  BY DEF UserCall
<1>2. \A st \in {"join", "cancel", "delete", "resume"}, r \in Room \cup {NoRoom} :
         [st |-> st, room |-> r, live |-> TRUE] \in UserCall
  BY DEF UserCall
<1>3. ASSUME NEW c \in UserCall PROVE [op EXCEPT ![u] = c] \in [User -> UserCall]
  OBVIOUS
<1> QED
  BY <1>1, <1>2, <1>3, Constants

LEMMA UserTypes ==
    ASSUME Bounded, NEW u \in User, UserStep(u)
    PROVE  FeedTypes'
<1> USE DEF Bounded, FeedTypes, SiteTypes, HandlerTypes
<1>c. CountTypes /\ ReadTypes
  OBVIOUS
<1>o. NoRoom \in Room \cup {NoRoom} /\ rooms \subseteq Room \cup {NoRoom}
  OBVIOUS
<1>1. CASE JoinBegin(u)
  BY <1>1, <1>c, <1>o, SockTyped, OpTyped, CountKept DEF JoinBegin, ReadTypes
<1>2. CASE JoinEnd(u)
  <2>1. /\ op' = [op EXCEPT ![u] = NoOp] /\ UNCHANGED <<rooms, clean, making, order, lists>>
        /\ count' = count
    BY <1>2 DEF JoinEnd
  <2>2. sock' = sock \/ sock' = [sock EXCEPT ![u] = [st |-> "queue", room |-> NoRoom]]
    BY <1>2 DEF JoinEnd
  <2>3. sock' \in [User -> SockState]
    BY <2>2, SockTyped
  <2> QED
    BY <1>c, <2>1, <2>3, OpTyped, CountKept DEF ReadTypes
<1>3. CASE CancelBegin(u)
  BY <1>3, <1>c, <1>o, OpTyped, CountKept DEF CancelBegin, ReadTypes
<1>4. CASE CancelEnd(u)
  BY <1>4, <1>c, SockTyped, OpTyped, CountKept DEF CancelEnd, ReadTypes
<1>5. CASE LeaveBegin(u)
  <2>1. PICK r \in rooms : op' = [op EXCEPT ![u] = [st |-> "delete", room |-> r,
                                                    live |-> TRUE]]
    BY <1>5 DEF LeaveBegin
  <2>2. op' \in [User -> UserCall]
    BY <2>1, OpTyped
  <2> QED
    BY <1>5, <1>c, <2>2, CountKept DEF LeaveBegin, ReadTypes
<1>6. CASE LeaveDelete(u)
  BY <1>6, <1>c, OpTyped, CountKept DEF LeaveDelete, ReadTypes
<1>7. CASE LeaveTell(u)
  <2> DEFINE r == op[u].room
             f == TellDeleted(feed, r)
  <2>1. r \in Room
    BY <1>7, MadeRooms DEF LeaveTell, Placed, Leaving
  <2>2. Fed(f)
    BY <2>1, TellDeletedShape
  <2>3. MadeIdle(f, Other(u), sock', feed') /\ op' = [op EXCEPT ![u].st = "end"]
        /\ UNCHANGED <<rooms, clean, making, order, lists, count>>
    BY <1>7 DEF LeaveTell, MadeIdle
  <2>4. sock' \in [User -> SockState]
    BY <2>2, <2>3, OtherIs, PartnerSock
  <2> QED
    BY <1>c, <2>3, <2>4, OpTyped, CountKept DEF ReadTypes
<1>8. CASE LeaveEnd(u)
  BY <1>8, <1>c, SockTyped, OpTyped, CountKept DEF LeaveEnd, ReadTypes
<1>9. CASE CloseTab(u)
  <2>1. Gone({u}) /\ {u} \in SUBSET User /\ UNCHANGED <<rooms, lists>>
        /\ count' = [count EXCEPT !.rest = @ + 1]
        /\ order' = [order EXCEPT !.live = @ /\ order.user # u]
    BY <1>9 DEF CloseTab
  <2>2. order' \in Order
    BY <2>1 DEF Order
  <2> QED
    BY <1>c, <2>1, <2>2, GoneShape, CountKept DEF ReadTypes
<1>10. CASE Blip(u)
  <2>1. op' \in [User -> UserCall] /\ making' \in Match
    BY <1>10 DEF Blip, Dead, UserCall, Match
  <2>2. order' \in Order
    BY <1>10 DEF Blip, Order
  <2> QED
    BY <1>10, <1>c, <2>1, <2>2, SockTyped, CountKept DEF Blip, ReadTypes
<1>11. CASE GraceExpires(u)
  <2>1. Gone({u}) /\ {u} \in SUBSET User /\ UNCHANGED <<rooms, lists, order, count>>
    BY <1>11 DEF GraceExpires
  <2> QED
    BY <1>c, <2>1, GoneShape, CountKept DEF ReadTypes
<1>12. CASE ResumeBegin(u)
  <2>1. sock[u].room \in Room \cup {NoRoom}
    BY DEF SockState
  <2> QED
    BY <1>12, <1>c, <2>1, SockTyped, OpTyped, CountKept DEF ResumeBegin, ReadTypes
<1>13. CASE ResumeEnd(u)
  BY <1>13, <1>c, SockTyped, OpTyped, CountKept DEF ResumeEnd, ReadTypes
<1>14. CASE KickBegin(u)
  <2>1. PICK users \in SUBSET User : Gone(users)
    <3>1. {u} \in SUBSET User /\ {v \in {Other(u)} : Connected(v)} \in SUBSET User
      BY OtherIs
    <3> QED
      BY <1>14, <3>1 DEF KickBegin
  <2>2. order' \in Order
    <3>1. order' = order \/ \E r \in rooms : order' = [st |-> "kick_delete", room |-> r,
                                                       user |-> u, live |-> TRUE]
      BY <1>14, Zenon DEF KickBegin
    <3>2. \A r \in Room : [st |-> "kick_delete", room |-> r, user |-> u, live |-> TRUE] \in Order
      BY DEF Order
    <3> QED
      BY <3>1, <3>2
  <2>3. CountTypes'
    BY <1>14, <1>c, CountKept DEF KickBegin
  <2>4. UNCHANGED <<rooms, lists>>
    BY <1>14 DEF KickBegin
  <2> QED
    BY <1>c, <2>1, <2>2, <2>3, <2>4, GoneShape DEF ReadTypes
<1>15. CASE Forget(u)
  BY <1>15, <1>c, CountKept DEF Forget, ReadTypes
<1> QED
  BY <1>1, <1>2, <1>3, <1>4, <1>5, <1>6, <1>7, <1>8, <1>9, <1>10, <1>11, <1>12, <1>13,
     <1>14, <1>15 DEF UserStep

LEMMA CleanTypes ==
    ASSUME Bounded, NEW c \in clean, CleanupStep(c)
    PROVE  FeedTypes'
<1> USE DEF Bounded, FeedTypes, SiteTypes, HandlerTypes
<1>c. CountTypes /\ ReadTypes
  OBVIOUS
<1>d. /\ c.user \in User
      /\ \A st \in {"delete", "tell", "only_room"} : [c EXCEPT !.st = st] \in Cleanup
      /\ \A r \in rooms : [c EXCEPT !.st = "look", !.room = r] \in Cleanup
  <2>1. c \in Cleanup
    OBVIOUS
  <2>2. \A st \in {"delete", "tell", "only_room"} : [c EXCEPT !.st = st] \in Cleanup
    BY <2>1 DEF Cleanup
  <2>3. \A r \in rooms : [c EXCEPT !.st = "look", !.room = r] \in Cleanup
    BY <2>1 DEF Cleanup
  <2> QED
    BY <2>1, <2>2, <2>3 DEF Cleanup
<1>1. CASE CleanFind(c)
  <2>1. clean' \in SUBSET Cleanup
    BY <1>1, <1>d DEF CleanFind, CleanStep
  <2> QED
    BY <1>1, <2>1, <1>c, CountKept DEF CleanFind, ReadTypes
<1>2. CASE CleanLook(c)
  <2>1. clean' \in SUBSET Cleanup
    BY <1>2, <1>d DEF CleanLook, CleanStep
  <2> QED
    BY <1>2, <2>1, <1>c, CountKept DEF CleanLook, ReadTypes
<1>3. CASE CleanDelete(c)
  <2>1. clean' \in SUBSET Cleanup
    BY <1>3, <1>d DEF CleanDelete, CleanStep
  <2> QED
    BY <1>3, <2>1, <1>c, CountKept DEF CleanDelete, ReadTypes
<1>4. CASE CleanTell(c)
  <2> DEFINE f == Unannounced(TellDeleted(feed, c.room), Dropped(c))
  <2>1. c.room \in Room
    BY <1>4, MadeRooms DEF CleanTell, Placed
  <2>2. Fed(f)
    BY <2>1, TellDeletedShape, UnannouncedShape DEF Dropped
  <2>3. /\ UNCHANGED <<rooms, op, making, order, lists, count>>
        /\ sock' = sock \/ sock' = PartnerIdle(sock, f, Other(c.user)).sock
        /\ clean' = clean \ {c}
    BY <1>4 DEF CleanTell, CleanStep
  <2>4. sock' \in [User -> SockState]
    <3>1. Other(c.user) \in User
      BY <1>d, OtherIs
    <3> HIDE DEF f
    <3>2. PartnerIdle(sock, f, Other(c.user)).sock \in [User -> SockState]
      <4> DEFINE done == PartnerIdle(sock, f, Other(c.user))
      <4>1. MadeIdle(f, Other(c.user), done.sock, done.feed)
        BY DEF MadeIdle
      <4> QED
        BY <2>2, <3>1, <4>1, PartnerSock
    <3> QED
      BY <2>3, <3>2
  <2> QED
    BY <1>c, <2>3, <2>4, CountKept DEF ReadTypes
<1> QED
  BY <1>1, <1>2, <1>3, <1>4 DEF CleanupStep

LEMMA OtherTypes ==
    ASSUME Bounded, OtherStep
    PROVE  FeedTypes'
<1> USE DEF Bounded, FeedTypes, SiteTypes, HandlerTypes
<1>c. CountTypes /\ ReadTypes
  OBVIOUS
<1>d. /\ \A st \in {"kick_end", "delete", "tell"} : [order EXCEPT !.st = st] \in Order
      /\ \A r \in rooms : [st |-> "drop", room |-> r, user |-> None, live |-> FALSE] \in Order
  BY DEF Order
<1>1. CASE MakeBegin
  BY <1>1, <1>c, MakeBeginMade DEF MakeBegin, ReadTypes, CountTypes
<1>2. CASE MakeRoom
  <2>1. making' \in Match
    BY <1>2 DEF MakeRoom, Match
  <2> QED
    BY <1>2, <1>c, <2>1, MakeRoomMade, CountKept DEF MakeRoom, ReadTypes
<1>3. CASE MakeTell
  <2>1. making.room \in Room /\ making' \in Match
    BY <1>3, MakeTellMade, MadeRooms
  <2>2. [st |-> "active", room |-> making.room] \in SockState
    BY <2>1 DEF SockState
  <2>3. sock' \in [User -> SockState]
    BY <1>3, <2>2 DEF MakeTell
  <2> QED
    BY <1>3, <1>c, <2>1, <2>3, CountKept DEF MakeTell, ReadTypes
<1>4. CASE KickDelete
  BY <1>4, <1>c, <1>d, CountKept DEF KickDelete, ReadTypes
<1>5. CASE KickEnd
  <2>1. UNCHANGED <<rooms, lists, count>> /\ order' \in Order
    BY <1>5, Constants DEF KickEnd
  <2>2. CASE order.live
    <3>1. Gone({order.user})
      BY <1>5, <2>2 DEF KickEnd
    <3>2. {order.user} \in SUBSET User
      BY <2>2 DEF Placed
    <3> QED
      BY <1>c, <2>1, <3>1, <3>2, GoneShape, CountKept DEF ReadTypes
  <2>3. CASE ~order.live
    BY <1>5, <1>c, <2>1, <2>3, CountKept DEF KickEnd, ReadTypes
  <2> QED
    BY <2>2, <2>3
<1>6. CASE CloseRoomBegin
  BY <1>6, <1>c, <1>d, CountKept DEF CloseRoomBegin, ReadTypes
<1>7. CASE CloseRoomDrop
  <2>1. /\ Gone({u \in User : Connected(u)}) /\ {u \in User : Connected(u)} \in SUBSET User
        /\ order' \in Order /\ UNCHANGED <<rooms, lists, count>>
    BY <1>7, <1>d DEF CloseRoomDrop
  <2> QED
    BY <1>c, <2>1, GoneShape, CountKept DEF ReadTypes
<1>8. CASE CloseRoomDelete
  BY <1>8, <1>c, <1>d, CountKept DEF CloseRoomDelete, ReadTypes
<1>9. CASE CloseRoomTell
  BY <1>9, <1>c, Constants, CountKept DEF CloseRoomTell, ReadTypes
<1>10. CASE CloseSite
  <2>1. sock' \in [User -> SockState] /\ clean' \in SUBSET Cleanup
    BY <1>10, Constants DEF CloseSite, CleanupOf, Cleanup
  <2> QED
    BY <1>10, <1>c, <2>1, CountKept DEF CloseSite, ReadTypes
<1>11. CASE AskLists
  <2>1. Truth(sock) \in [User -> Shows \cup {Absent}]
    BY TruthIs DEF Truth
  <2>2. lists' \in [users : UserList, rooms : RoomList]
    BY <1>11, <2>1 DEF AskLists, UserList, RoomList, NoRooms
  <2> QED
    BY <1>11, <1>c, <2>2, CountKept DEF AskLists, ReadTypes
<1>12. CASE ReadRooms
  <2>1. lists' \in [users : UserList, rooms : RoomList]
    BY <1>12 DEF ReadRooms, ReadTypes, RoomList
  <2> QED
    BY <1>12, <1>c, <2>1, CountKept DEF ReadRooms, ReadTypes
<1>13. CASE SendUsers
  <2>1. NoUsers \in UserList
    BY DEF NoUsers, UserList
  <2>2. lists' \in [users : UserList, rooms : RoomList]
    BY <1>13, <2>1 DEF SendUsers, ReadTypes
  <2> QED
    BY <1>13, <1>c, <2>2, CountKept DEF SendUsers, ReadTypes
<1>14. CASE SendRooms
  <2>1. NoRooms \in RoomList
    BY DEF NoRooms, RoomList
  <2>2. lists' \in [users : UserList, rooms : RoomList]
    BY <1>14, <2>1 DEF SendRooms, ReadTypes
  <2> QED
    BY <1>14, <1>c, <2>2, CountKept DEF SendRooms, ReadTypes
<1>15. CASE Flush
  BY <1>15, <1>c, CountKept DEF Flush, ReadTypes
<1> QED
  BY <1>1, <1>2, <1>3, <1>4, <1>5, <1>6, <1>7, <1>8, <1>9, <1>10, <1>11, <1>12, <1>13,
     <1>14, <1>15 DEF OtherStep

-----------------------------------------------------------------------------
(* Every step keeps rooms apart, deleted rooms deleted, and the match's      *)
(* sockets its own.                                                         *)

Apart == Placed /\ Deleted /\ Unheld

\* A handler's step that makes no match.
Unmade == count'.rooms = count.rooms /\ making'.st = making.st /\ making'.room = making.room

LEMMA RestSame ==
    ASSUME CountTypes, \/ count' = [count EXCEPT !.rest = @ + 1]
                       \/ count' = [count EXCEPT !.joins = @ + 1]
                       \/ count' = count,
           making' = making
    PROVE  Unmade
BY CountKept DEF Unmade

\* Rooms are only deleted, and no handler changes but for the ones in calls and cleanups.
LEMMA ApartKept ==
    ASSUME FeedTypes, FeedTypes', Apart, Unmade, rooms' \subseteq rooms,
           making'.live \subseteq making.live,
           \A u \in User :
              /\ sock'[u].room \in Made \cup {NoRoom}
              /\ op'[u].room \in Made \cup {NoRoom}
              /\ op'[u].st \in Leaving => op'[u].room \in Made
              /\ op'[u].st \in {"tell", "end"} => op'[u].room \notin rooms'
              /\ sock'[u].st = "away" \/ op'[u].st = "resume" => u \notin making.live
              /\ op'[u].st = "resume" => IF op'[u].live THEN sock'[u] = Idle
                                         ELSE sock'[u] = [st |-> "gone", room |-> NoRoom],
           order'.room \in Made \cup {NoRoom}, order'.st # "no" => order'.room \in Made,
           order'.live => order'.user \in User,
           order'.st = "tell" => order'.room \notin rooms',
           \A c \in clean' \ clean :
              /\ c.room \in Made \cup {NoRoom}
              /\ c.st # "find" => c.room \in Made
              /\ c.st \in {"tell", "only_room"} => c.room \notin rooms'
    PROVE  Apart'
<1>1. Made' = Made
  BY MadeGrows DEF Apart, Unmade
<1>2. Placed'
  BY <1>1 DEF Apart, Placed, Unmade
<1>3. Deleted'
  BY DEF Apart, Deleted
<1>4. Unheld'
  BY DEF Apart, Unheld
<1> QED
  BY <1>2, <1>3, <1>4 DEF Apart

\* What is there already.
LEMMA ApartFacts ==
    ASSUME FeedTypes, Apart
    PROVE  /\ \A u \in User :
                 /\ sock[u].room \in Made \cup {NoRoom}
                 /\ op[u].room \in Made \cup {NoRoom}
                 /\ op[u].st \in Leaving => op[u].room \in Made
                 /\ op[u].st \in {"tell", "end"} => op[u].room \notin rooms
                 /\ sock[u].st = "away" \/ op[u].st = "resume" => u \notin making.live
                 /\ op[u].st = "resume" => IF op[u].live THEN sock[u] = Idle
                                           ELSE sock[u] = [st |-> "gone", room |-> NoRoom]
           /\ order.room \in Made \cup {NoRoom} /\ (order.st # "no" => order.room \in Made)
           /\ order.live => order.user \in User
           /\ order.st = "tell" => order.room \notin rooms
           /\ \A c \in clean :
                 /\ c.room \in Made \cup {NoRoom}
                 /\ c.st # "find" => c.room \in Made
                 /\ c.st \in {"tell", "only_room"} => c.room \notin rooms
           /\ rooms \subseteq Made /\ Made \subseteq Room /\ NoRoom \notin Made
BY MadeRooms DEF Apart, Placed, Deleted, Unheld

LEMMA GoneApart ==
    ASSUME FeedTypes, FeedTypes', Fed(feed), Apart, NEW users \in SUBSET User, Gone(users),
           count'.rooms = count.rooms, rooms' \subseteq rooms,
           order'.room \in Made \cup {NoRoom}, order'.st # "no" => order'.room \in Made,
           order'.live => order'.user \in User,
           order'.st = "tell" => order'.room \notin rooms'
    PROVE  Apart'
<1>1. /\ \A u \in User \ users : sock'[u] = sock[u] /\ op'[u] = op[u]
      /\ \A u \in users : ~op'[u].live
      /\ \A u \in User : op'[u].st = op[u].st /\ op'[u].room = op[u].room
      /\ \A c \in clean' \ clean : c.st = "find" /\ c.room = NoRoom
      /\ Unmade /\ making'.live \subseteq making.live
  BY GoneShape DEF Unmade
<1>2. \A u \in users : sock'[u] = [st |-> "gone", room |-> NoRoom]
  BY GoneShape
<1>3. \A u \in users : sock'[u].st = "gone" /\ sock'[u].room = NoRoom
  BY <1>2
<1>4. ASSUME NEW u \in User
      PROVE  /\ sock'[u].room \in Made \cup {NoRoom}
             /\ op'[u].room \in Made \cup {NoRoom}
             /\ op'[u].st \in Leaving => op'[u].room \in Made
             /\ op'[u].st \in {"tell", "end"} => op'[u].room \notin rooms'
             /\ sock'[u].st = "away" \/ op'[u].st = "resume" => u \notin making.live
             /\ op'[u].st = "resume" => IF op'[u].live THEN sock'[u] = Idle
                                        ELSE sock'[u] = [st |-> "gone", room |-> NoRoom]
  <2>1. CASE u \in users
    BY <1>1, <1>2, <1>3, <2>1, ApartFacts
  <2>2. CASE u \notin users
    BY <1>1, <2>2, ApartFacts
  <2> QED
    BY <2>1, <2>2
<1>5. \A c \in clean' \ clean :
         /\ c.room \in Made \cup {NoRoom}
         /\ c.st # "find" => c.room \in Made
         /\ c.st \in {"tell", "only_room"} => c.room \notin rooms'
  BY <1>1
<1> QED
  BY <1>1, <1>4, <1>5, ApartKept

\* A step of one user's socket and handler.
LEMMA OneApart ==
    ASSUME FeedTypes, FeedTypes', Apart, Unmade, making' = making, order' = order,
           clean' = clean, rooms' \subseteq rooms, NEW u \in User,
           \A v \in User \ {u} : op'[v] = op[v],
           \A v \in User \ {u} : sock'[v] = sock[v],
           /\ sock'[u].room \in Made \cup {NoRoom}
           /\ op'[u].room \in Made \cup {NoRoom}
           /\ op'[u].st \in Leaving => op'[u].room \in Made
           /\ op'[u].st \in {"tell", "end"} => op'[u].room \notin rooms'
           /\ sock'[u].st = "away" \/ op'[u].st = "resume" => u \notin making.live
           /\ op'[u].st = "resume" => IF op'[u].live THEN sock'[u] = Idle
                                      ELSE sock'[u] = [st |-> "gone", room |-> NoRoom]
    PROVE  Apart'
<1>1. ASSUME NEW v \in User
      PROVE  /\ sock'[v].room \in Made \cup {NoRoom}
             /\ op'[v].room \in Made \cup {NoRoom}
             /\ op'[v].st \in Leaving => op'[v].room \in Made
             /\ op'[v].st \in {"tell", "end"} => op'[v].room \notin rooms'
             /\ sock'[v].st = "away" \/ op'[v].st = "resume" => v \notin making.live
             /\ op'[v].st = "resume" => IF op'[v].live THEN sock'[v] = Idle
                                        ELSE sock'[v] = [st |-> "gone", room |-> NoRoom]
  <2>1. CASE v = u
    BY <2>1
  <2>2. CASE v # u
    BY <2>2, ApartFacts
  <2> QED
    BY <2>1, <2>2
<1>2. /\ order'.room \in Made \cup {NoRoom} /\ (order'.st # "no" => order'.room \in Made)
      /\ order'.live => order'.user \in User
      /\ order'.st = "tell" => order'.room \notin rooms'
      /\ making'.live \subseteq making.live
  BY ApartFacts
<1> QED
  BY <1>1, <1>2, ApartKept

LEMMA UserApart ==
    ASSUME Bounded, Apart, FeedTypes', NEW u \in User, UserStep(u)
    PROVE  Apart'
<1> USE DEF Bounded, Leaving
<1>t. /\ sock \in [User -> SockState] /\ op \in [User -> UserCall] /\ CountTypes
      /\ sock' \in [User -> SockState] /\ op' \in [User -> UserCall]
  BY DEF FeedTypes, SiteTypes, HandlerTypes
<1>k. NoOp.st = "no" /\ NoOp.room = NoRoom /\ Idle.st = "idle" /\ Idle.room = NoRoom
  BY Constants
<1>1. CASE JoinBegin(u)
  <2>1. Unmade
    BY <1>1, <1>t, RestSame DEF JoinBegin
  <2>2. op'[u].st = "join" /\ op'[u].room = NoRoom
    BY <1>1, <1>t DEF JoinBegin
  <2>3. sock'[u].st = "idle" /\ sock'[u].room = sock[u].room
    BY <1>1, <1>t DEF JoinBegin, SockState
  <2> QED
    BY <1>1, <1>t, <2>1, <2>2, <2>3, ApartFacts, OneApart DEF JoinBegin
<1>2. CASE JoinEnd(u)
  <2>1. Unmade
    BY <1>2, <1>t, RestSame DEF JoinEnd
  <2>2. op'[u] = NoOp
    BY <1>2, <1>t DEF JoinEnd
  <2>3. /\ \A v \in User \ {u} : sock'[v] = sock[v]
        /\ sock'[u] = sock[u] \/ sock'[u] = [st |-> "queue", room |-> NoRoom]
    BY <1>2, <1>t DEF JoinEnd
  <2>4. \/ sock'[u] = sock[u]
        \/ sock'[u].st = "queue" /\ sock'[u].room = NoRoom
    BY <2>3
  <2> QED
    BY <1>2, <1>t, <1>k, <2>1, <2>2, <2>3, <2>4, ApartFacts, OneApart DEF JoinEnd
<1>3. CASE CancelBegin(u)
  <2>1. Unmade
    BY <1>3, <1>t, RestSame DEF CancelBegin
  <2>2. op'[u].st = "cancel" /\ op'[u].room = NoRoom
    BY <1>3, <1>t DEF CancelBegin
  <2> QED
    BY <1>3, <1>t, <2>1, <2>2, ApartFacts, OneApart DEF CancelBegin
<1>4. CASE CancelEnd(u)
  <2>1. Unmade
    BY <1>4, <1>t, RestSame DEF CancelEnd
  <2>2. op'[u] = NoOp
    BY <1>4, <1>t DEF CancelEnd
  <2>3. sock'[u] = sock[u] \/ (sock'[u].st = "idle" /\ sock'[u].room = sock[u].room)
    BY <1>4, <1>t DEF CancelEnd, SockState
  <2>4. \A v \in User \ {u} : sock'[v] = sock[v]
    BY <1>4, <1>t DEF CancelEnd
  <2> QED
    BY <1>4, <1>t, <1>k, <2>1, <2>2, <2>3, <2>4, ApartFacts, OneApart DEF CancelEnd
<1>5. CASE LeaveBegin(u)
  <2>1. Unmade
    BY <1>5, <1>t, RestSame DEF LeaveBegin
  <2>2. op'[u].st = "delete" /\ op'[u].room \in rooms /\ Connected(u)
    BY <1>5, <1>t DEF LeaveBegin
  <2>3. sock'[u].st # "away"
    BY <1>5, <2>2 DEF LeaveBegin, Connected
  <2>4. \A v \in User \ {u} : op'[v] = op[v]
    BY <1>5, <1>t DEF LeaveBegin
  <2> QED
    BY <1>5, <1>t, <2>1, <2>2, <2>3, <2>4, ApartFacts, OneApart DEF LeaveBegin
<1>6. CASE LeaveDelete(u)
  <2>1. Unmade
    BY <1>6, <1>t, RestSame DEF LeaveDelete
  <2>2. op'[u].st = "tell" /\ op'[u].room = op[u].room
    BY <1>6, <1>t DEF LeaveDelete, UserCall
  <2>3. op[u].st = "delete" /\ op'[u].room \notin rooms'
    BY <1>6, <2>2 DEF LeaveDelete
  <2> QED
    BY <1>6, <1>t, <2>1, <2>2, <2>3, ApartFacts, OneApart DEF LeaveDelete
<1>7. CASE LeaveTell(u)
  <2> DEFINE f == TellDeleted(feed, op[u].room)
             v == Other(u)
  <2>1. op[u].room \in Room /\ v \in User /\ v # u
    BY <1>7, ApartFacts, OtherIs DEF LeaveTell
  <2>2. Fed(f)
    BY <2>1, TellDeletedShape
  <2>3. MadeIdle(f, v, sock', feed')
    BY <1>7 DEF LeaveTell, MadeIdle
  <2>4. /\ \A w \in User \ {v} : sock'[w] = sock[w]
        /\ sock'[v] = sock[v] \/ (Connected(v) /\ sock'[v] = Idle)
    <3> HIDE DEF f, v
    <3>1. /\ \A w \in User \ {v} : sock'[w] = sock[w]
          /\ sock'[v] = IF Connected(v) THEN Idle ELSE sock[v]
      BY <2>1, <2>3, PartnerSock
    <3> QED
      BY <3>1
  <2>5. /\ op[u].st = "tell" /\ op'[u].st = "end" /\ op'[u].room = op[u].room
        /\ \A w \in User \ {u} : op'[w] = op[w]
    BY <1>7, <1>t DEF LeaveTell, UserCall
  <2>6. Unmade /\ UNCHANGED <<rooms, clean, making, order>>
    BY <1>7, <1>t, RestSame DEF LeaveTell
  <2> HIDE DEF v, f
  <2>7. ASSUME NEW w \in User
        PROVE  /\ sock'[w].room \in Made \cup {NoRoom}
               /\ op'[w].room \in Made \cup {NoRoom}
               /\ op'[w].st \in Leaving => op'[w].room \in Made
               /\ op'[w].st \in {"tell", "end"} => op'[w].room \notin rooms'
               /\ sock'[w].st = "away" \/ op'[w].st = "resume" => w \notin making.live
               /\ op'[w].st = "resume" => IF op'[w].live THEN sock'[w] = Idle
                                          ELSE sock'[w] = [st |-> "gone", room |-> NoRoom]
    <3>1. CASE w = u
      BY <1>k, <2>1, <2>4, <2>5, <2>6, <3>1, ApartFacts
    <3>2. CASE w # u
      <4>1. Connected(w) => sock[w] # [st |-> "gone", room |-> NoRoom]
        BY DEF Connected
      <4>2. \/ sock'[w] = sock[w]
            \/ sock[w] # [st |-> "gone", room |-> NoRoom] /\ sock'[w] = Idle
        BY <2>4, <4>1
      <4> QED
        BY <1>k, <2>5, <2>6, <3>2, <4>2, ApartFacts
    <3> QED
      BY <3>1, <3>2
  <2> QED
    BY <2>6, <2>7, ApartFacts, ApartKept
<1>8. CASE LeaveEnd(u)
  <2>1. Unmade
    BY <1>8, <1>t, RestSame DEF LeaveEnd
  <2>2. op'[u] = NoOp
    BY <1>8, <1>t DEF LeaveEnd
  <2>3. /\ sock'[u] = sock[u] \/ sock'[u] = Idle
        /\ \A v \in User \ {u} : sock'[v] = sock[v]
    BY <1>8, <1>t DEF LeaveEnd
  <2> QED
    BY <1>8, <1>t, <1>k, <2>1, <2>2, <2>3, ApartFacts, OneApart DEF LeaveEnd
<1>9. CASE CloseTab(u)
  <2>1. /\ Gone({u}) /\ {u} \in SUBSET User /\ rooms' = rooms /\ count'.rooms = count.rooms
        /\ order' = [order EXCEPT !.live = @ /\ order.user # u]
    BY <1>9, <1>t, CountKept DEF CloseTab
  <2>2. order'.st = order.st /\ order'.room = order.room /\ order'.user = order.user
        /\ (order'.live => order.live)
    BY <2>1 DEF FeedTypes, HandlerTypes, Order
  <2> QED
    BY <2>1, <2>2, ApartFacts, GoneApart
<1>10. CASE Blip(u)
  <2>1. /\ order'.st = order.st /\ order'.room = order.room /\ order'.user = order.user
        /\ order'.live => order.live
    BY <1>10 DEF Blip, FeedTypes, HandlerTypes, Order
  <2>2. /\ making'.st = making.st /\ making'.room = making.room
        /\ making'.live = making.live \ {u}
    BY <1>10 DEF Blip, Dead, FeedTypes, HandlerTypes, Match
  <2>3. Unmade /\ clean' = clean /\ rooms' = rooms
    BY <1>10, <1>t, <2>2, CountKept DEF Blip, Unmade
  <2>4. \A v \in User : /\ op'[v].st = op[v].st /\ op'[v].room = op[v].room
                        /\ v # u => op'[v] = op[v] /\ sock'[v] = sock[v]
    BY <1>10, <1>t DEF Blip, Dead, UserCall
  <2>5. sock[u].st = "active" /\ sock'[u].st = "away" /\ sock'[u].room = sock[u].room
    BY <1>10, <1>t DEF Blip, SockState
  <2>6. op[u].st # "resume"
    <3>1. SUFFICES ASSUME op[u].st = "resume" PROVE FALSE
      OBVIOUS
    <3>2. sock[u] = Idle \/ sock[u] = [st |-> "gone", room |-> NoRoom]
      BY <3>1, ApartFacts
    <3> QED
      BY <1>k, <2>5, <3>2
  <2>7. Made' = Made
    BY <2>3, MadeGrows DEF Apart, Unmade
  <2>8. Placed'
    BY <2>1, <2>2, <2>3, <2>4, <2>5, <2>7 DEF Apart, Placed, Unmade
  <2>9. Deleted'
    BY <2>1, <2>3, <2>4 DEF Apart, Deleted
  <2>10. Unheld'
    BY <2>2, <2>4, <2>5, <2>6 DEF Apart, Unheld
  <2> QED
    BY <2>8, <2>9, <2>10 DEF Apart
<1>11. CASE GraceExpires(u)
  <2>1. Gone({u}) /\ {u} \in SUBSET User /\ UNCHANGED <<rooms, lists, order, count>>
    BY <1>11 DEF GraceExpires
  <2> QED
    BY <2>1, ApartFacts, GoneApart
<1>12. CASE ResumeBegin(u)
  <2>1. Unmade
    BY <1>12, <1>t, RestSame DEF ResumeBegin
  <2>2. op'[u].st = "resume" /\ op'[u].room = sock[u].room /\ op'[u].live
        /\ sock[u].st = "away" /\ sock'[u] = Idle
    BY <1>12, <1>t DEF ResumeBegin
  <2> QED
    BY <1>12, <1>t, <1>k, <2>1, <2>2, ApartFacts, OneApart DEF ResumeBegin
<1>13. CASE ResumeEnd(u)
  <2>1. Unmade
    BY <1>13, <1>t, RestSame DEF ResumeEnd
  <2>2. op'[u] = NoOp /\ op[u].st = "resume"
    BY <1>13, <1>t DEF ResumeEnd
  <2>3. /\ sock'[u] = sock[u] \/ sock'[u] = [st |-> "active", room |-> op[u].room]
        /\ \A v \in User \ {u} : sock'[v] = sock[v]
    BY <1>13, <1>t DEF ResumeEnd
  <2>4. sock'[u] = sock[u] \/ (sock'[u].st = "active" /\ sock'[u].room = op[u].room)
    BY <2>3
  <2> QED
    BY <1>13, <1>t, <1>k, <2>1, <2>2, <2>3, <2>4, ApartFacts, OneApart DEF ResumeEnd
<1>14. CASE KickBegin(u)
  <2>1. PICK users \in SUBSET User : Gone(users)
    <3>1. {u} \in SUBSET User /\ {v \in {Other(u)} : Connected(v)} \in SUBSET User
      BY OtherIs
    <3> QED
      BY <1>14, <3>1 DEF KickBegin
  <2>2. \/ order' = order
        \/ \E r \in rooms : order' = [st |-> "kick_delete", room |-> r, user |-> u, live |-> TRUE]
    BY <1>14, Zenon DEF KickBegin
  <2>3. \/ order' = order
        \/ order'.st = "kick_delete" /\ order'.room \in rooms /\ order'.user = u
    BY <2>2
  <2>4. rooms' = rooms /\ count'.rooms = count.rooms
    BY <1>14, <1>t, CountKept DEF KickBegin
  <2> QED
    BY <2>1, <2>3, <2>4, ApartFacts, GoneApart
<1>15. CASE Forget(u)
  <2>1. Unmade
    BY <1>15, <1>t, RestSame DEF Forget
  <2> QED
    BY <1>15, <2>1, ApartFacts, OneApart DEF Forget
<1> QED
  BY <1>1, <1>2, <1>3, <1>4, <1>5, <1>6, <1>7, <1>8, <1>9, <1>10, <1>11, <1>12, <1>13,
     <1>14, <1>15 DEF UserStep

\* Two users' sockets and handlers stay as they are, but for one made idle.
LEMMA IdledApart ==
    ASSUME FeedTypes, FeedTypes', Apart, Unmade, op' = op, making' = making,
           rooms' \subseteq rooms,
           \A u \in User : sock'[u] = sock[u] \/ (Connected(u) /\ sock'[u] = Idle),
           order'.room \in Made \cup {NoRoom}, order'.st # "no" => order'.room \in Made,
           order'.live => order'.user \in User,
           order'.st = "tell" => order'.room \notin rooms',
           \A c \in clean' \ clean :
              /\ c.room \in Made \cup {NoRoom}
              /\ c.st # "find" => c.room \in Made
              /\ c.st \in {"tell", "only_room"} => c.room \notin rooms'
    PROVE  Apart'
<1>k. Idle.st = "idle" /\ Idle.room = NoRoom
  BY Constants
<1>1. ASSUME NEW u \in User
      PROVE  /\ sock'[u].room \in Made \cup {NoRoom}
             /\ op'[u].room \in Made \cup {NoRoom}
             /\ op'[u].st \in Leaving => op'[u].room \in Made
             /\ op'[u].st \in {"tell", "end"} => op'[u].room \notin rooms'
             /\ sock'[u].st = "away" \/ op'[u].st = "resume" => u \notin making.live
             /\ op'[u].st = "resume" => IF op'[u].live THEN sock'[u] = Idle
                                        ELSE sock'[u] = [st |-> "gone", room |-> NoRoom]
  <2>1. Connected(u) => sock[u] # [st |-> "gone", room |-> NoRoom]
    BY DEF Connected
  <2> QED
    BY <1>k, <2>1, ApartFacts
<1>2. making'.live \subseteq making.live
  OBVIOUS
<1> QED
  BY <1>1, <1>2, ApartKept

LEMMA CleanApart ==
    ASSUME Bounded, Apart, FeedTypes', NEW c \in clean, CleanupStep(c)
    PROVE  Apart'
<1> USE DEF Bounded
<1>t. /\ CountTypes /\ c \in Cleanup
      /\ c.room \in Made \cup {NoRoom} /\ (c.st # "find" => c.room \in Made)
  BY ApartFacts DEF FeedTypes, HandlerTypes
<1>1. CASE CleanFind(c)
  <2>1. Unmade
    BY <1>1, <1>t, RestSame DEF CleanFind
  <2>2. ASSUME NEW d \in clean' \ clean
        PROVE  d.room \in rooms /\ d.st = "look"
    <3>1. PICK r \in rooms : d = [c EXCEPT !.st = "look", !.room = r]
      BY <1>1, Zenon DEF CleanFind, CleanStep
    <3> QED
      BY <1>t, <3>1 DEF Cleanup
  <2> QED
    BY <1>1, <2>1, <2>2, ApartFacts, IdledApart DEF CleanFind
<1>2. CASE CleanLook(c)
  <2>1. Unmade
    BY <1>2, <1>t, RestSame DEF CleanLook
  <2>2. \A d \in clean' \ clean : /\ d.room = c.room /\ c.st = "look"
                                  /\ d.st = IF c.room \in rooms THEN "delete" ELSE "only_room"
    BY <1>2, <1>t DEF CleanLook, CleanStep, Cleanup
  <2> QED
    BY <1>2, <1>t, <2>1, <2>2, ApartFacts, IdledApart DEF CleanLook
<1>3. CASE CleanDelete(c)
  <2>1. Unmade
    BY <1>3, <1>t, RestSame DEF CleanDelete
  <2>2. \A d \in clean' \ clean : d.room = c.room /\ c.st = "delete" /\ d.st = "tell"
    BY <1>3, <1>t DEF CleanDelete, CleanStep, Cleanup
  <2>3. rooms' = rooms \ {c.room}
    BY <1>3 DEF CleanDelete
  <2> QED
    BY <1>3, <1>t, <2>1, <2>2, <2>3, ApartFacts, IdledApart DEF CleanDelete
<1>4. CASE CleanTell(c)
  <2> DEFINE f == Unannounced(TellDeleted(feed, c.room), Dropped(c))
             v == Other(c.user)
  <2>1. /\ UNCHANGED <<rooms, op, making, order, lists, count>>
        /\ sock' = sock \/ MadeIdle(f, v, sock', feed')
        /\ clean' = clean \ {c}
    BY <1>4 DEF CleanTell, CleanStep, MadeIdle
  <2>2. v \in User
    BY <1>t, OtherIs DEF Cleanup
  <2>3. Unmade
    BY <1>t, <2>1, RestSame
  <2>4. \A u \in User : sock'[u] = sock[u] \/ (Connected(u) /\ sock'[u] = Idle)
    <3> HIDE DEF f, v
    <3>1. CASE MadeIdle(f, v, sock', feed')
      <4>1. /\ \A u \in User \ {v} : sock'[u] = sock[u]
            /\ sock'[v] = IF Connected(v) THEN Idle ELSE sock[v]
        BY <2>2, <3>1, PartnerSock
      <4> QED
        BY <4>1
    <3> QED
      BY <2>1, <3>1
  <2> QED
    BY <2>1, <2>3, <2>4, ApartFacts, IdledApart
<1> QED
  BY <1>1, <1>2, <1>3, <1>4 DEF CleanupStep

LEMMA OtherApart ==
    ASSUME Bounded, Apart, FeedTypes', OtherStep
    PROVE  Apart'
<1> USE DEF Bounded
<1>t. /\ sock \in [User -> SockState] /\ op \in [User -> UserCall] /\ CountTypes
      /\ order \in Order /\ making \in Match
  BY DEF FeedTypes, SiteTypes, HandlerTypes
<1>k. /\ NoOrder.st = "no" /\ NoOrder.room = NoRoom /\ ~NoOrder.live
      /\ Idle.st = "idle" /\ Idle.room = NoRoom
  BY Constants DEF NoOrder
<1>1. CASE MakeBegin
  <2>1. Made' = Made /\ making'.room \in 1..count'.rooms
    BY <1>1, MakeBeginMade
  <2>2. \A u \in User : sock[u].st = "queue"
    BY <1>1 DEF MakeBegin
  <2>3. \A u \in User : op[u].st # "resume"
    <3>1. SUFFICES ASSUME NEW u \in User, op[u].st = "resume" PROVE FALSE
      OBVIOUS
    <3>2. sock[u] = Idle \/ sock[u] = [st |-> "gone", room |-> NoRoom]
      BY <3>1, ApartFacts
    <3> QED
      BY <1>k, <2>2, <3>2
  <2>4. UNCHANGED <<sock, rooms, op, clean, order>>
    BY <1>1 DEF MakeBegin
  <2>5. Placed'
    BY <2>1, <2>4 DEF Apart, Placed
  <2>6. Deleted' /\ Unheld'
    BY <2>2, <2>3, <2>4 DEF Apart, Deleted, Unheld
  <2> QED
    BY <2>5, <2>6 DEF Apart
<1>2. CASE MakeRoom
  <2>1. /\ Made' = Made \cup {making.room} /\ making.room \notin Made
        /\ rooms' = rooms \cup {making.room} /\ making.room \in Room
    BY <1>2, MakeRoomMade
  <2>2. /\ UNCHANGED <<sock, op, clean, order, count>>
        /\ making'.st = "tell" /\ making.st = "make" /\ making'.room = making.room
        /\ making'.live = making.live
    BY <1>2, <1>t DEF MakeRoom, Match
  <2>3. Placed'
    BY <2>1, <2>2 DEF Apart, Placed
  <2>4. Deleted'
    BY <2>1, <2>2 DEF Apart, Deleted, Placed, Leaving
  <2>5. Unheld'
    BY <2>2 DEF Apart, Unheld
  <2> QED
    BY <2>3, <2>4, <2>5 DEF Apart
<1>3. CASE MakeTell
  <2> DEFINE chatting == [st |-> "active", room |-> making.room]
  <2>1. Made' = Made /\ making.room \in Made
    BY <1>3, MakeTellMade
  <2>2. /\ making'.st = "no" /\ making'.live = {}
        /\ UNCHANGED <<rooms, op, clean, order, count>>
        /\ \A u \in User : sock'[u] = IF u \in making.live THEN chatting ELSE sock[u]
    BY <1>3 DEF MakeTell
  <2>3. chatting.room = making.room /\ chatting.st = "active"
    OBVIOUS
  <2> HIDE DEF chatting
  <2>4. Placed'
    BY <2>1, <2>2, <2>3 DEF Apart, Placed
  <2>5. Deleted'
    BY <2>2 DEF Apart, Deleted
  <2>6. Unheld'
    BY <2>2, <2>3 DEF Apart, Unheld
  <2> QED
    BY <2>4, <2>5, <2>6 DEF Apart
<1>4. CASE KickDelete
  <2>1. order'.st = "kick_end" /\ order'.room = order.room /\ order.st # "no"
        /\ order'.live = order.live /\ order'.user = order.user
    BY <1>4, <1>t DEF KickDelete, Order
  <2>2. Unmade
    BY <1>4, <1>t, RestSame DEF KickDelete
  <2> QED
    BY <1>4, <2>1, <2>2, ApartFacts, IdledApart DEF KickDelete
<1>5. CASE KickEnd
  <2>1. order' = NoOrder /\ UNCHANGED <<rooms, lists, count>>
    BY <1>5 DEF KickEnd
  <2>2. CASE order.live
    <3>1. Gone({order.user}) /\ {order.user} \in SUBSET User
      BY <1>5, <2>2, ApartFacts DEF KickEnd
    <3> QED
      BY <1>k, <2>1, <3>1, GoneApart
  <2>3. CASE ~order.live
    <3>1. UNCHANGED <<sock, op, clean, making>>
      BY <1>5, <2>3 DEF KickEnd
    <3>2. Unmade
      BY <1>t, <2>1, <3>1, RestSame
    <3> QED
      BY <1>k, <2>1, <3>1, <3>2, ApartFacts, IdledApart
  <2> QED
    BY <2>2, <2>3
<1>6. CASE CloseRoomBegin
  <2>1. Unmade
    BY <1>6, <1>t, RestSame DEF CloseRoomBegin
  <2>2. order'.st = "drop" /\ order'.room \in rooms /\ ~order'.live
    BY <1>6 DEF CloseRoomBegin
  <2> QED
    BY <1>6, <2>1, <2>2, ApartFacts, IdledApart DEF CloseRoomBegin
<1>7. CASE CloseRoomDrop
  <2>1. /\ Gone({u \in User : Connected(u)}) /\ {u \in User : Connected(u)} \in SUBSET User
        /\ UNCHANGED <<rooms, lists, count>>
    BY <1>7 DEF CloseRoomDrop
  <2>2. order'.st = "delete" /\ order'.room = order.room /\ order.st # "no"
        /\ order'.live = order.live /\ order'.user = order.user
    BY <1>7, <1>t DEF CloseRoomDrop, Order
  <2> QED
    BY <2>1, <2>2, ApartFacts, GoneApart
<1>8. CASE CloseRoomDelete
  <2>1. /\ order'.st = "tell" /\ order'.room = order.room /\ order.st # "no"
        /\ order'.live = order.live /\ order'.user = order.user
        /\ rooms' = rooms \ {order.room}
    BY <1>8, <1>t DEF CloseRoomDelete, Order
  <2>2. Unmade
    BY <1>8, <1>t, RestSame DEF CloseRoomDelete
  <2> QED
    BY <1>8, <2>1, <2>2, ApartFacts, IdledApart DEF CloseRoomDelete
<1>9. CASE CloseRoomTell
  <2>1. order' = NoOrder /\ UNCHANGED <<sock, rooms, op, clean, making, lists, count>>
    BY <1>9 DEF CloseRoomTell
  <2>2. Unmade
    BY <1>t, <2>1, RestSame
  <2> QED
    BY <1>k, <2>1, <2>2, ApartFacts, IdledApart
<1>10. CASE CloseSite
  <2>1. Unmade /\ UNCHANGED <<rooms, op, making, order, lists>>
    BY <1>10, <1>t, RestSame DEF CloseSite
  <2>2. \A u \in User : sock'[u] = sock[u] \/ (Connected(u) /\ sock'[u] = Idle)
    BY <1>10 DEF CloseSite
  <2>3. \A c \in clean' \ clean : c.st = "find" /\ c.room = NoRoom
    BY <1>10 DEF CloseSite, CleanupOf
  <2> QED
    BY <2>1, <2>2, <2>3, ApartFacts, IdledApart
<1>11. CASE UNCHANGED <<sock, rooms, op, clean, making, order>> /\ count'.rooms = count.rooms
  <2>1. Unmade
    BY <1>11 DEF Unmade
  <2> QED
    BY <1>11, <2>1, ApartFacts, IdledApart
<1>12. CASE AskLists \/ ReadRooms \/ SendUsers \/ SendRooms \/ Flush
  <2>1. UNCHANGED <<sock, rooms, op, clean, making, order>>
    BY <1>12 DEF AskLists, ReadRooms, SendUsers, SendRooms, Flush
  <2>2. count' = count \/ count' = [count EXCEPT !.rest = @ + 1]
    BY <1>12 DEF AskLists, ReadRooms, SendUsers, SendRooms, Flush
  <2> QED
    BY <1>11, <1>t, <2>1, <2>2, CountKept
<1> QED
  BY <1>1, <1>2, <1>3, <1>4, <1>5, <1>6, <1>7, <1>8, <1>9, <1>10, <1>12 DEF OtherStep

-----------------------------------------------------------------------------
(* What a dashboard is told of a room, and the steps that say nothing new.   *)

RoomGood(r) == r \notin feed.badRooms => PendingRoom(r) \/ (r \in RoomsOf(feed) <=> r \in rooms)

AllGood == Fed(feed) /\ (\A u \in User : UserGood(u)) /\ (\A r \in Room : RoomGood(r))

\* The rooms of a set are neither made nor deleted, nor told of; who is to tell of one still is.
RoomsQuiet(set) ==
    /\ SameRooms(feed, feed', set)
    /\ \A r \in set : r \in rooms' <=> r \in rooms
    /\ making'.st = making.st /\ making'.room = making.room
    /\ order.st = "tell" /\ order.room \in set => order'.st = "tell" /\ order'.room = order.room
    /\ \A u \in User : op[u].st = "tell" /\ op[u].room \in set
                          => op'[u].st = "tell" /\ op'[u].room = op[u].room
    /\ \A c \in clean : c.st = "tell" /\ c.room \in set => c \in clean'

LEMMA QuietGood ==
    ASSUME NEW set, RoomsQuiet(set), NEW r \in set, RoomGood(r)
    PROVE  RoomGood(r)'
<1>1. PendingRoom(r) => PendingRoom(r)'
  BY DEF PendingRoom, RoomsQuiet
<1>2. /\ r \in RoomsOf(feed') <=> r \in RoomsOf(feed)
      /\ r \in feed'.badRooms <=> r \in feed.badRooms
      /\ r \in rooms' <=> r \in rooms
  BY DEF RoomsQuiet, SameRooms
<1>3. RoomsOf(feed)' = RoomsOf(feed')
  BY DEF RoomsOf
<1> QED
  BY <1>1, <1>2, <1>3 DEF RoomGood

\* All rooms but one are quiet.
LEMMA OneRoomGood ==
    ASSUME \A q \in Room : RoomGood(q), NEW r, RoomsQuiet(Room \ {r}), RoomGood(r)'
    PROVE  \A q \in Room : RoomGood(q)'
<1>1. ASSUME NEW q \in Room, q # r
      PROVE  RoomGood(q)'
  BY <1>1, QuietGood
<1> QED
  BY <1>1

LEMMA SameSelf == \A f, set : SameRooms(f, f, set) /\ SameWords(f, f, set)
BY DEF SameRooms, SameWords

\* Some users keep their socket and handler, and their word.
LEMMA SteadyGood ==
    ASSUME FeedTypes, FeedTypes', Placed, NEW users \in SUBSET User,
           SameWords(feed, feed', users),
           \A u \in users : sock'[u] = sock[u],
           \A u \in users : op'[u] = op[u],
           rooms' \cap (Made \cup {NoRoom}) \subseteq rooms, NEW u \in users, UserGood(u)
    PROVE  UserGood(u)'
<1>1. LastWord(feed', u) = LastWord(feed, u) /\ (u \in feed.badUsers => u \in feed'.badUsers)
  BY DEF SameWords
<1> QED
  BY <1>1, UntouchedGood

\* Some are gone.
LEMMA GoneAll ==
    ASSUME FeedTypes, FeedTypes', Placed, AllGood, NEW users \in SUBSET User, Gone(users),
           rooms' = rooms,
           order.st = "tell" => order'.st = "tell" /\ order'.room = order.room
    PROVE  AllGood'
<1>1. Fed(feed) /\ Fed(feed') /\ SameRooms(feed, feed', Room)
  BY GoneShape DEF AllGood
<1>2. \A u \in User : UserGood(u)'
  BY <1>1, GoneGood DEF AllGood
<1>3. RoomsQuiet(Room)
  <2>1. /\ making'.st = making.st /\ making'.room = making.room /\ clean \subseteq clean'
        /\ \A u \in User : op'[u].st = op[u].st /\ op'[u].room = op[u].room
    BY <1>1, GoneShape
  <2> QED
    BY <1>1, <2>1 DEF RoomsQuiet
<1> QED
  BY <1>1, <1>2, <1>3, QuietGood DEF AllGood

\* A step of one user, the rooms left alone.
LEMMA OneGood ==
    ASSUME FeedTypes, FeedTypes', Placed, AllGood, NEW u \in User, UserGood(u)', Fed(feed'),
           SameWords(feed, feed', User \ {u}), SameRooms(feed, feed', Room),
           \A v \in User \ {u} : sock'[v] = sock[v],
           \A v \in User \ {u} : op'[v] = op[v],
           rooms' = rooms, op[u].st # "tell", order.st = "tell" => order' = order,
           making'.st = making.st, making'.room = making.room, clean' = clean
    PROVE  AllGood'
<1>1. \A v \in User \ {u} : UserGood(v)'
  BY SteadyGood DEF AllGood
<1>2. RoomsQuiet(Room)
  BY DEF RoomsQuiet
<1> QED
  BY <1>1, <1>2, QuietGood DEF AllGood

LEMMA ToldTrue ==
    ASSUME FeedTypes, FeedTypes', NEW u \in User, NEW as \in Shows,
           feed' = Tell(feed, u, as, Truth(sock')[u]), Fed(feed), as.st \in {"idle", "queue"},
           op'[u].st # "resume"
    PROVE  /\ Fed(feed') /\ SameWords(feed, feed', User \ {u}) /\ SameRooms(feed, feed', Room)
           /\ UserGood(u)'
<1> DEFINE now == Truth(sock')[u]
<1>1. /\ Fed(feed') /\ SameWords(feed, feed', User \ {u}) /\ SameRooms(feed, feed', Room)
      /\ LastWord(feed', u) = as
      /\ u \notin feed'.badUsers => ~Untrue(as, now)
  <2>1. feed' = Tell(feed, u, as, now)
    OBVIOUS
  <2> DEFINE h == Tell(feed, u, as, now)
  <2>2. /\ Fed(h) /\ SameWords(feed, h, User \ {u}) /\ SameRooms(feed, h, Room)
        /\ LastWord(h, u) = as
        /\ u \notin h.badUsers => ~Untrue(as, now)
    <3> HIDE DEF now
    <3> QED
      BY TellShape
  <2> HIDE DEF h, now
  <2>3. feed' = h
    BY <2>1 DEF h
  <2> QED
    BY <2>2, <2>3
<1>2. u \notin feed'.badUsers => Truth(sock')[u] = as
  BY <1>1 DEF Untrue
<1>3. Truth(sock')[u] = as => sock'[u].st # "away"
  BY TruthIs, Constants DEF FeedTypes, SiteTypes
<1>4. UserGood(u)'
  BY <1>1, <1>2, <1>3, ToldGood
<1> QED
  BY <1>1, <1>4

FeedGood == Bounded /\ Apart /\ AllGood

LEMMA JoinGood ==
    ASSUME FeedGood, FeedTypes', NEW u \in User, JoinBegin(u) \/ JoinEnd(u)
    PROVE  AllGood'
<1> USE DEF FeedGood, Bounded
<1>t. /\ sock \in [User -> SockState] /\ op \in [User -> UserCall] /\ NoOp.st = "no"
  BY Constants DEF FeedTypes, SiteTypes, HandlerTypes
<1>1. CASE JoinBegin(u)
  <2>1. feed' = Unannounced(feed, {u}) /\ {u} \in SUBSET User
    BY <1>1 DEF JoinBegin
  <2>2. /\ Fed(feed') /\ SameWords(feed, feed', User \ {u}) /\ SameRooms(feed, feed', Room)
        /\ u \in feed'.badUsers
    BY <2>1, UnannouncedShape
  <2>3. UserGood(u)'
    BY <2>2 DEF UserGood
  <2> QED
    BY <1>1, <1>t, <2>2, <2>3, OneGood DEF JoinBegin
<1>2. CASE JoinEnd(u)
  <2> DEFINE queued == [st |-> "queue", room |-> NoRoom]
  <2>1. /\ op[u].st = "join" /\ op' = [op EXCEPT ![u] = NoOp]
        /\ UNCHANGED <<rooms, clean, making, order, lists, count>>
        /\ \A v \in User \ {u} : sock'[v] = sock[v]
    BY <1>2, <1>t DEF JoinEnd
  <2>2. op'[u] = NoOp /\ \A v \in User \ {u} : op'[v] = op[v]
    BY <1>t, <2>1
  <2>3. CASE UNCHANGED <<sock, feed>>
    <3>1. UserGood(u)
      BY DEF AllGood
    <3>2. UserGood(u)'
      BY <1>t, <2>1, <2>2, <2>3, <3>1 DEF UserGood, Pending, Leaving
    <3>3. Fed(feed') /\ SameWords(feed, feed', User \ {u}) /\ SameRooms(feed, feed', Room)
      BY <2>3, SameSelf DEF AllGood
    <3> QED
      BY <2>1, <2>2, <3>2, <3>3, OneGood
  <2>4. CASE feed' = Tell(feed, u, queued, Truth(sock')[u])
    <3>1. queued \in Shows /\ queued.st = "queue"
      BY DEF Shows
    <3> HIDE DEF queued
    <3>2. /\ Fed(feed') /\ SameWords(feed, feed', User \ {u}) /\ SameRooms(feed, feed', Room)
          /\ UserGood(u)'
      BY <1>t, <2>2, <2>4, <3>1, ToldTrue
    <3> QED
      BY <2>1, <2>2, <3>2, OneGood
  <2> QED
    BY <1>2, <2>3, <2>4 DEF JoinEnd
<1> QED
  BY <1>1, <1>2

LEMMA CancelGood ==
    ASSUME FeedGood, FeedTypes', NEW u \in User, CancelBegin(u) \/ CancelEnd(u)
    PROVE  AllGood'
<1> USE DEF FeedGood, Bounded
<1>t. /\ sock \in [User -> SockState] /\ op \in [User -> UserCall] /\ NoOp.st = "no"
  BY Constants DEF FeedTypes, SiteTypes, HandlerTypes
<1>1. CASE CancelBegin(u)
  <2>1. /\ op[u].st = "no" /\ op'[u].st = "cancel"
        /\ UNCHANGED <<sock, rooms, clean, making, order, lists, feed, count>>
        /\ \A v \in User \ {u} : op'[v] = op[v]
    BY <1>1, <1>t DEF CancelBegin
  <2>2. UserGood(u)
    BY DEF AllGood
  <2>3. UserGood(u)'
    BY <2>1, <2>2 DEF UserGood, Pending, Leaving
  <2>4. Fed(feed') /\ SameWords(feed, feed', User \ {u}) /\ SameRooms(feed, feed', Room)
    BY <2>1, SameSelf DEF AllGood
  <2> QED
    BY <2>1, <2>3, <2>4, OneGood
<1>2. CASE CancelEnd(u)
  <2> DEFINE said == IF op[u].live THEN sock'[u] ELSE Idle
  <2>1. /\ op[u].st = "cancel" /\ op' = [op EXCEPT ![u] = NoOp]
        /\ UNCHANGED <<rooms, clean, making, order, lists, count>>
        /\ sock' = IF op[u].live THEN [sock EXCEPT ![u].st = "idle"] ELSE sock
        /\ feed' = Tell(feed, u, said, Truth(sock')[u])
    BY <1>2 DEF CancelEnd
  <2>2. op'[u] = NoOp /\ \A v \in User \ {u} : op'[v] = op[v]
    BY <1>t, <2>1
  <2>3. \A v \in User \ {u} : sock'[v] = sock[v]
    BY <1>t, <2>1
  <2>4. said \in Shows /\ said.st = "idle"
    <3>1. op[u].live => sock'[u] = [sock[u] EXCEPT !.st = "idle"]
      BY <1>t, <2>1
    <3>2. [sock[u] EXCEPT !.st = "idle"] \in Shows /\ [sock[u] EXCEPT !.st = "idle"].st = "idle"
      BY <1>t DEF SockState, Shows
    <3> QED
      BY <3>1, <3>2, Constants
  <2> HIDE DEF said
  <2>5. /\ Fed(feed') /\ SameWords(feed, feed', User \ {u}) /\ SameRooms(feed, feed', Room)
        /\ UserGood(u)'
    BY <1>t, <2>1, <2>2, <2>4, ToldTrue
  <2> QED
    BY <2>1, <2>2, <2>3, <2>5, OneGood
<1> QED
  BY <1>1, <1>2

LEMMA LeaveGood ==
    ASSUME FeedGood, FeedTypes', NEW u \in User,
           LeaveBegin(u) \/ LeaveDelete(u) \/ LeaveEnd(u)
    PROVE  AllGood'
<1> USE DEF FeedGood, Bounded
<1>t. /\ sock \in [User -> SockState] /\ op \in [User -> UserCall] /\ NoOp.st = "no"
      /\ sock' \in [User -> SockState]
  BY Constants DEF FeedTypes, SiteTypes, HandlerTypes
<1>1. CASE LeaveBegin(u)
  <2>1. /\ op[u].st = "no" /\ op'[u].st = "delete"
        /\ UNCHANGED <<sock, rooms, clean, making, order, lists, feed>>
        /\ \A v \in User \ {u} : op'[v] = op[v]
    BY <1>1, <1>t DEF LeaveBegin
  <2>3. UserGood(u)'
    BY <2>1, LeavingGood DEF Leaving
  <2>4. Fed(feed') /\ SameWords(feed, feed', User \ {u}) /\ SameRooms(feed, feed', Room)
    BY <2>1, SameSelf DEF AllGood
  <2> QED
    BY <2>1, <2>3, <2>4, OneGood
<1>2. CASE LeaveDelete(u)
  <2>0. PICK r : r = op[u].room
    OBVIOUS
  <2>1. /\ op[u].st = "delete" /\ op'[u].st = "tell" /\ op'[u].room = r
        /\ UNCHANGED <<sock, clean, making, order, lists, feed, count>>
        /\ \A v \in User \ {u} : op'[v] = op[v]
        /\ rooms' = rooms \ {r}
    BY <1>2, <1>t, <2>0 DEF LeaveDelete, UserCall
  <2>2. Fed(feed') /\ SameWords(feed, feed', User \ {u}) /\ SameRooms(feed, feed', Room \ {r})
    BY <2>1, SameSelf DEF AllGood
  <2>3. UserGood(u)'
    BY <2>1, LeavingGood DEF Leaving
  <2>4. \A v \in User \ {u} : UserGood(v)'
    BY <2>1, <2>2, SteadyGood DEF AllGood
  <2>5. RoomsQuiet(Room \ {r})
    BY <2>1, <2>2 DEF RoomsQuiet
  <2>6. PendingRoom(r)'
    BY <2>1 DEF PendingRoom
  <2>7. RoomGood(r)'
    BY <2>6 DEF RoomGood
  <2>8. \A q \in Room : RoomGood(q)'
    BY <2>5, <2>7, OneRoomGood DEF AllGood
  <2> QED
    BY <2>2, <2>3, <2>4, <2>8 DEF AllGood
<1>3. CASE LeaveEnd(u)
  <2>1. /\ op[u].st = "end" /\ op' = [op EXCEPT ![u] = NoOp]
        /\ UNCHANGED <<rooms, clean, making, order, lists, count>>
        /\ sock' = IF op[u].live THEN [sock EXCEPT ![u] = Idle] ELSE sock
        /\ feed' = Tell(feed, u, Idle, Truth(sock')[u])
    BY <1>3 DEF LeaveEnd
  <2>2. op'[u] = NoOp /\ \A v \in User \ {u} : op'[v] = op[v]
    BY <1>t, <2>1
  <2>3. \A v \in User \ {u} : sock'[v] = sock[v]
    BY <1>t, <2>1
  <2>5. /\ Fed(feed') /\ SameWords(feed, feed', User \ {u}) /\ SameRooms(feed, feed', Room)
        /\ UserGood(u)'
    BY <1>t, <2>1, <2>2, Constants, ToldTrue
  <2> QED
    BY <2>1, <2>2, <2>3, <2>5, OneGood
<1> QED
  BY <1>1, <1>2, <1>3

LEMMA LeaveTellGood ==
    ASSUME FeedGood, FeedTypes', NEW u \in User, LeaveTell(u)
    PROVE  AllGood'
<1> USE DEF FeedGood, Bounded
<1>0. PICK r : r = op[u].room
  OBVIOUS
<1> DEFINE f == TellDeleted(feed, r)
           v == Other(u)
<1>t. /\ sock \in [User -> SockState] /\ op \in [User -> UserCall]
  BY DEF FeedTypes, SiteTypes, HandlerTypes
<1>1. /\ op[u].st = "tell" /\ op'[u].st = "end" /\ op'[u].room = r
      /\ \A w \in User \ {u} : op'[w] = op[w]
      /\ UNCHANGED <<rooms, clean, making, order, lists, count>>
      /\ MadeIdle(f, v, sock', feed')
  BY <1>t, <1>0 DEF LeaveTell, UserCall, MadeIdle
<1>2. r \in Room \ rooms /\ r \in Room
  BY <1>0, <1>1, ApartFacts DEF Leaving
<1>3. v \in User /\ v # u /\ \A w \in User : w # u => w = v
  BY OtherIs
<1>4. /\ Fed(f) /\ f.badUsers = feed.badUsers /\ SameRooms(feed, f, Room \ {r})
      /\ r \notin f.badRooms => r \notin RoomsOf(f)
      /\ LastWord(f, v) = LastWord(feed, v) \/ LastWord(feed, v).room = r
  <2>1. Fed(feed)
    OBVIOUS
  <2> HIDE DEF v
  <2> QED
    BY <1>2, <1>3, <2>1, TellDeletedShape
<1> HIDE DEF f, v
<1>5. /\ Fed(feed') /\ SameWords(f, feed', User \ {v}) /\ SameRooms(f, feed', Room)
      /\ ~Connected(v) => feed' = f
      /\ Connected(v) /\ v \notin feed'.badUsers => LastWord(feed', v) = Idle
                                                   /\ op[v].st # "resume"
  BY <1>1, <1>3, <1>4, PartnerFeed
<1>6. /\ \A w \in User \ {v} : sock'[w] = sock[w]
      /\ sock'[v] = IF Connected(v) THEN Idle ELSE sock[v]
  BY <1>1, <1>3, PartnerSock
<1>7. UserGood(u)'
  BY <1>1, LeavingGood DEF Leaving
<1>8. UserGood(v)'
  <2>1. op'[v] = op[v]
    BY <1>1, <1>3
  <2>2. CASE Connected(v)
    <3>1. sock'[v] = Idle
      BY <1>6, <2>2
    <3>2. Truth(sock')[v] = Idle /\ sock'[v].st # "away"
      BY <1>3, <3>1, TruthIs, Constants DEF FeedTypes, SiteTypes
    <3> QED
      BY <1>3, <1>5, <2>1, <2>2, <3>2, ToldGood
  <2>3. CASE ~Connected(v)
    <3>1. UserGood(v) /\ sock'[v] = sock[v]
      BY <1>3, <1>6, <2>3 DEF AllGood
    <3>2. /\ LastWord(feed', v) = LastWord(feed, v) \/ LastWord(feed, v).room = r
          /\ v \in feed.badUsers => v \in feed'.badUsers
      BY <1>4, <1>5, <2>3
    <3>3. sock[v].st \in {"new", "away", "gone"}
      BY <1>t, <1>3, <2>3 DEF Connected, SockState
    <3>4. Unheld /\ rooms' = rooms
      BY <1>1 DEF Apart
    <3> QED
      BY <1>2, <1>3, <2>1, <3>1, <3>2, <3>3, <3>4, DroppedGood
  <2> QED
    BY <2>2, <2>3
<1>9. SameRooms(feed, feed', Room \ {r}) /\ (r \notin feed'.badRooms => r \notin RoomsOf(feed'))
  BY <1>2, <1>4, <1>5 DEF SameRooms
<1>10. RoomsQuiet(Room \ {r})
  BY <1>0, <1>1, <1>9 DEF RoomsQuiet
<1>11. RoomGood(r)'
  <2>1. RoomsOf(feed)' = RoomsOf(feed')
    BY DEF RoomsOf
  <2> QED
    BY <1>1, <1>2, <1>9, <2>1 DEF RoomGood
<1>12. \A q \in Room : RoomGood(q)'
  BY <1>10, <1>11, OneRoomGood DEF AllGood
<1>13. \A w \in User : UserGood(w)'
  BY <1>3, <1>7, <1>8
<1> QED
  BY <1>5, <1>12, <1>13 DEF AllGood

LEMMA DepartGood ==
    ASSUME FeedGood, FeedTypes', NEW u \in User, CloseTab(u) \/ GraceExpires(u) \/ KickBegin(u)
    PROVE  AllGood'
<1> USE DEF FeedGood, Bounded
<1>1. CASE CloseTab(u)
  <2>1. /\ Gone({u}) /\ {u} \in SUBSET User /\ rooms' = rooms
        /\ order' = [order EXCEPT !.live = @ /\ order.user # u]
    BY <1>1 DEF CloseTab
  <2>2. order'.st = order.st /\ order'.room = order.room
    BY <2>1 DEF FeedTypes, HandlerTypes, Order
  <2> QED
    BY <2>1, <2>2, GoneAll
<1>2. CASE GraceExpires(u)
  <2>1. Gone({u}) /\ {u} \in SUBSET User /\ rooms' = rooms /\ order' = order
    BY <1>2 DEF GraceExpires
  <2> QED
    BY <2>1, GoneAll
<1>3. CASE KickBegin(u)
  <2>1. PICK users \in SUBSET User : Gone(users)
    <3>1. {u} \in SUBSET User /\ {v \in {Other(u)} : Connected(v)} \in SUBSET User
      BY OtherIs
    <3> QED
      BY <1>3, <3>1 DEF KickBegin
  <2>2. order.st # "tell" /\ rooms' = rooms
    BY <1>3 DEF KickBegin
  <2> QED
    BY <2>1, <2>2, GoneAll
<1> QED
  BY <1>1, <1>2, <1>3

LEMMA BlipGood ==
    ASSUME FeedGood, FeedTypes', NEW u \in User, Blip(u)
    PROVE  AllGood'
<1> USE DEF FeedGood, Bounded
<1>1. sock \in [User -> SockState] /\ op \in [User -> UserCall]
  BY DEF FeedTypes, SiteTypes, HandlerTypes
<1>2. /\ sock[u].st = "active" /\ sock'[u].st = "away" /\ sock'[u].room = sock[u].room
      /\ \A v \in User \ {u} : sock'[v] = sock[v]
      /\ UNCHANGED <<rooms, clean, lists, feed>>
  BY <1>1 DEF Blip, SockState
<1>3. /\ \A v \in User : op'[v].st = op[v].st /\ op'[v].room = op[v].room
      /\ \A v \in User \ {u} : op'[v] = op[v]
      /\ making'.st = making.st /\ making'.room = making.room
  BY <1>1 DEF Blip, Dead, UserCall, FeedTypes, HandlerTypes, Match
<1>4. order'.st = order.st /\ order'.room = order.room
  BY DEF Blip, FeedTypes, HandlerTypes, Order
<1>5. op[u].st # "resume"
  <2>1. op[u].st = "resume" => sock[u] = Idle \/ sock[u] = [st |-> "gone", room |-> NoRoom]
    BY ApartFacts
  <2> QED
    BY <1>2, <2>1, Constants
<1>6. UserGood(u)'
  <2>1. SUFFICES ASSUME u \notin feed.badUsers, op[u].st \notin Leaving
                 PROVE  LastWord(feed, u) = [st |-> "active", room |-> sock[u].room]
    BY <1>2, <1>3, <1>5 DEF UserGood, Pending
  <2>2. UserGood(u) /\ ~Pending(u)
    BY <1>2, <1>5, <2>1 DEF AllGood, Pending, Leaving
  <2>3. LastWord(feed, u) = sock[u]
    BY <1>1, <1>2, <2>1, <2>2, TruthIs DEF UserGood
  <2>4. sock[u] = [st |-> "active", room |-> sock[u].room]
    BY <1>1, <1>2 DEF SockState
  <2> QED
    BY <2>3, <2>4
<1>7. Fed(feed') /\ SameWords(feed, feed', User \ {u}) /\ SameRooms(feed, feed', Room)
  BY <1>2, SameSelf DEF AllGood
<1>8. \A v \in User \ {u} : UserGood(v)'
  BY <1>2, <1>3, <1>7, SteadyGood DEF AllGood
<1>9. RoomsQuiet(Room)
  BY <1>2, <1>3, <1>4, <1>7 DEF RoomsQuiet
<1> QED
  BY <1>6, <1>7, <1>8, <1>9, QuietGood DEF AllGood

LEMMA ResumeGood ==
    ASSUME FeedGood, FeedTypes', NEW u \in User, ResumeBegin(u) \/ ResumeEnd(u)
    PROVE  AllGood'
<1> USE DEF FeedGood, Bounded
<1>t. /\ sock \in [User -> SockState] /\ op \in [User -> UserCall] /\ NoOp.st = "no"
      /\ sock' \in [User -> SockState]
  BY Constants DEF FeedTypes, SiteTypes, HandlerTypes
<1>1. CASE ResumeBegin(u)
  <2>1. /\ sock[u].st = "away" /\ op[u].st = "no" /\ sock'[u] = Idle
        /\ op'[u].st = "resume" /\ op'[u].room = sock[u].room /\ op'[u].live
        /\ UNCHANGED <<rooms, clean, making, order, lists, feed, count>>
        /\ \A v \in User \ {u} : op'[v] = op[v]
        /\ \A v \in User \ {u} : sock'[v] = sock[v]
    BY <1>1, <1>t DEF ResumeBegin
  <2>2. UserGood(u)
    BY DEF AllGood
  <2>3. UserGood(u)'
    BY <2>1, <2>2, Constants DEF UserGood, Pending, Leaving
  <2>4. Fed(feed') /\ SameWords(feed, feed', User \ {u}) /\ SameRooms(feed, feed', Room)
    BY <2>1, SameSelf DEF AllGood
  <2> QED
    BY <2>1, <2>3, <2>4, OneGood
<1>2. CASE ResumeEnd(u)
  <2>1. /\ op[u].st = "resume" /\ op'[u] = NoOp
        /\ UNCHANGED <<rooms, clean, making, order, lists, count>>
        /\ \A v \in User \ {u} : op'[v] = op[v]
        /\ \A v \in User \ {u} : sock'[v] = sock[v]
    BY <1>2, <1>t DEF ResumeEnd
  <2>2. CASE op[u].room \notin rooms
    <3>1. feed' = Unannounced(feed, {u}) /\ {u} \in SUBSET User
      BY <1>2, <2>2 DEF ResumeEnd
    <3>2. /\ Fed(feed') /\ SameWords(feed, feed', User \ {u}) /\ SameRooms(feed, feed', Room)
          /\ u \in feed'.badUsers
      BY <3>1, UnannouncedShape DEF AllGood
    <3>3. UserGood(u)'
      BY <3>2 DEF UserGood
    <3> QED
      BY <2>1, <3>2, <3>3, OneGood
  <2>3. CASE op[u].room \in rooms
    <3>1. feed' = feed
      BY <1>2, <2>3 DEF ResumeEnd
    <3>2. Fed(feed') /\ SameWords(feed, feed', User \ {u}) /\ SameRooms(feed, feed', Room)
      BY <3>1, SameSelf DEF AllGood
    <3>3. UserGood(u)
      BY DEF AllGood
    <3>4. CASE op[u].live
      <4> DEFINE back == [st |-> "active", room |-> op[u].room]
      <4>1. sock'[u] = back
        BY <1>2, <1>t, <2>3, <3>4 DEF ResumeEnd
      <4>2. back.st = "active"
        OBVIOUS
      <4>3. u \notin feed'.badUsers => LastWord(feed', u) = back
        BY <2>1, <2>3, <3>1, <3>3, <3>4 DEF UserGood
      <4> HIDE DEF back
      <4>4. Truth(sock')[u] = back
        BY <1>t, <4>1, <4>2, TruthIs
      <4>5. UserGood(u)'
        BY <1>t, <2>1, <4>1, <4>2, <4>3, <4>4, ToldGood
      <4> QED
        BY <2>1, <3>2, <4>5, OneGood
    <3>5. CASE ~op[u].live
      <4>1. sock'[u] = sock[u]
        BY <1>2, <2>3, <3>5 DEF ResumeEnd
      <4>2. sock[u] = [st |-> "gone", room |-> NoRoom]
        BY <2>1, <3>5, ApartFacts
      <4>3. sock'[u].st = "gone"
        BY <4>1, <4>2
      <4>4. Truth(sock')[u] = Truth(sock)[u]
        BY <4>1, TruthSame
      <4>5. u \notin feed'.badUsers => LastWord(feed', u) = Truth(sock)[u]
        BY <2>1, <3>1, <3>3, <3>5 DEF UserGood
      <4>6. UserGood(u)'
        BY <1>t, <2>1, <4>3, <4>4, <4>5, ToldGood
      <4> QED
        BY <2>1, <3>2, <4>6, OneGood
    <3> QED
      BY <3>4, <3>5
  <2> QED
    BY <2>2, <2>3
<1> QED
  BY <1>1, <1>2

LEMMA ForgetGood ==
    ASSUME FeedGood, FeedTypes', NEW u \in User, Forget(u)
    PROVE  AllGood'
<1> USE DEF FeedGood, Bounded
<1> DEFINE shown == [feed.users EXCEPT ![u] = Absent]
<1>1. /\ UNCHANGED <<sock, rooms, op, clean, making, order, lists>>
      /\ feed' = [feed EXCEPT !.users[u] = Absent, !.badUsers = @ \cup {u}]
  BY DEF Forget
<1>2. feed \in Feed /\ Fed(feed)
  BY DEF Fed
<1>3. /\ shown \in [User -> Shows \cup {Absent}] /\ feed.badUsers \cup {u} \in SUBSET User
      /\ \A v \in User \ {u} : shown[v] = feed.users[v]
  BY <1>2 DEF Feed
<1>4. /\ feed' \in Feed /\ feed'.users = shown /\ feed'.badUsers = feed.badUsers \cup {u}
      /\ feed'.queued = feed.queued /\ feed'.created = feed.created
      /\ feed'.rooms = feed.rooms /\ feed'.badRooms = feed.badRooms
  <2>1. feed' = [feed EXCEPT !.users = shown, !.badUsers = @ \cup {u}]
    BY <1>1, <1>2 DEF Feed
  <2> HIDE DEF shown
  <2> QED
    BY <1>2, <1>3, <2>1 DEF Feed
<1> HIDE DEF shown
<1>5. Fed(feed')
  BY <1>2, <1>4, SameWord DEF Fed
<1>6. SameWords(feed, feed', User \ {u})
  BY <1>3, <1>4, SameWord DEF SameWords
<1>7. SameRooms(feed, feed', Room)
  BY <1>4 DEF SameRooms, RoomsOf
<1>8. UserGood(u)' /\ \A v \in User \ {u} : UserGood(v)'
  <2>1. UserGood(u)'
    BY <1>4 DEF UserGood
  <2>2. \A v \in User \ {u} : UserGood(v)'
    BY <1>1, <1>6, SteadyGood DEF AllGood
  <2> QED
    BY <2>1, <2>2
<1>9. RoomsQuiet(Room)
  BY <1>1, <1>7 DEF RoomsQuiet
<1> QED
  BY <1>5, <1>8, <1>9, QuietGood DEF AllGood

LEMMA UserAll ==
    ASSUME FeedGood, FeedTypes', NEW u \in User, UserStep(u)
    PROVE  AllGood'
BY JoinGood, CancelGood, LeaveGood, LeaveTellGood, DepartGood, BlipGood, ResumeGood, ForgetGood
   DEF UserStep

\* The sockets, the handlers and what is said stay; rooms are deleted, but not those of a set.
LEMMA SilentUsers ==
    ASSUME FeedTypes, FeedTypes', Placed, AllGood, UNCHANGED <<sock, op, feed>>,
           rooms' \cap (Made \cup {NoRoom}) \subseteq rooms
    PROVE  Fed(feed') /\ \A u \in User : UserGood(u)'
<1>1. SameWords(feed, feed', User) /\ Fed(feed')
  BY SameSelf DEF AllGood
<1> QED
  BY <1>1, SteadyGood DEF AllGood

LEMMA SilentGood ==
    ASSUME FeedTypes, FeedTypes', Placed, AllGood, UNCHANGED <<sock, op, feed, rooms, making>>,
           order.st = "tell" => order' = order,
           \A c \in clean : c.st = "tell" => c \in clean'
    PROVE  AllGood'
<1>1. Fed(feed') /\ \A u \in User : UserGood(u)'
  BY SilentUsers
<1>2. RoomsQuiet(Room)
  BY SameSelf DEF RoomsQuiet
<1> QED
  BY <1>1, <1>2, QuietGood DEF AllGood

\* A room is dropped; those of it who are told nothing more are excused, all but the partner
\* who is made idle.
LEMMA DroppedUsers ==
    ASSUME FeedTypes, FeedTypes', Placed, Unheld, AllGood, NEW r \in Room \ rooms,
           rooms' = rooms, op' = op, NEW users \in SUBSET User, NEW f,
           f = Unannounced(TellDeleted(feed, r), users)
    PROVE  /\ Fed(f) /\ SameRooms(feed, f, Room \ {r})
           /\ r \notin f.badRooms => r \notin RoomsOf(f)
           /\ \A u \in User :
                 /\ sock'[u] = sock[u] /\ LastWord(feed', u) = LastWord(f, u)
                 /\ u \in f.badUsers => u \in feed'.badUsers
                 /\ sock[u].room = r /\ sock[u].st \notin {"new", "away", "gone"} => u \in users
                 => UserGood(u)'
<1> DEFINE g == TellDeleted(feed, r)
<1>1. /\ Fed(g) /\ g.badUsers = feed.badUsers /\ SameRooms(feed, g, Room \ {r})
      /\ r \notin g.badRooms => r \notin RoomsOf(g)
      /\ \A u \in User : LastWord(g, u) = LastWord(feed, u) \/ LastWord(feed, u).room = r
  <2>1. r \in Room /\ Fed(feed)
    BY DEF AllGood
  <2> QED
    BY <2>1, TellDeletedShape
<1> HIDE DEF g
<1>2. /\ Fed(f) /\ SameRooms(g, f, Room) /\ users \subseteq f.badUsers
      /\ \A u \in User : LastWord(f, u) = LastWord(g, u)
      /\ g.badUsers \subseteq f.badUsers
  <2> DEFINE h == Unannounced(g, users)
  <2>1. /\ Fed(h) /\ SameRooms(g, h, Room) /\ users \subseteq h.badUsers
        /\ \A u \in User : LastWord(h, u) = LastWord(g, u)
        /\ g.badUsers \subseteq h.badUsers
    BY <1>1, UnannouncedShape
  <2>2. f = h
    BY DEF g
  <2> HIDE DEF h
  <2> QED
    BY <2>1, <2>2
<1>3. SameRooms(feed, f, Room \ {r}) /\ (r \notin f.badRooms => r \notin RoomsOf(f))
  BY <1>1, <1>2 DEF SameRooms
<1>4. ASSUME NEW u \in User,
             sock'[u] = sock[u], LastWord(feed', u) = LastWord(f, u),
             u \in f.badUsers => u \in feed'.badUsers,
             sock[u].room = r /\ sock[u].st \notin {"new", "away", "gone"} => u \in users
      PROVE  UserGood(u)'
  <2>1. UserGood(u) /\ op'[u] = op[u]
    BY DEF AllGood
  <2>2. /\ LastWord(feed', u) = LastWord(feed, u) \/ LastWord(feed, u).room = r
        /\ u \in feed.badUsers => u \in feed'.badUsers
        /\ sock[u].room = r /\ sock[u].st \notin {"new", "away", "gone"}
              => u \in feed'.badUsers
    BY <1>1, <1>2, <1>4
  <2> QED
    BY <1>4, <2>1, <2>2, DroppedGood
<1> QED
  BY <1>2, <1>3, <1>4

LEMMA CleanTellGood ==
    ASSUME FeedGood, FeedTypes', NEW c \in clean, CleanTell(c)
    PROVE  AllGood'
<1> USE DEF FeedGood, Bounded
<1>0. PICK r : r = c.room
  OBVIOUS
<1> DEFINE f == Unannounced(TellDeleted(feed, r), Dropped(c))
           v == Other(c.user)
<1>1. /\ c.st \in {"tell", "only_room"} /\ clean' = clean \ {c}
      /\ UNCHANGED <<rooms, op, making, order, lists, count>>
      /\ IF c.st = "tell" THEN MadeIdle(f, v, sock', feed') ELSE sock' = sock /\ feed' = f
  BY <1>0 DEF CleanTell, CleanStep, MadeIdle
<1>2. /\ r \in Room \ rooms /\ r \in Room /\ c.user \in User
      /\ Unheld /\ Dropped(c) \in SUBSET User
  BY <1>0, <1>1, ApartFacts DEF Apart, FeedTypes, HandlerTypes, Cleanup, Dropped
<1>3. v \in User /\ v # c.user /\ \A w \in User : w # c.user => w = v
  BY <1>2, OtherIs
<1>4. /\ Fed(f) /\ SameRooms(feed, f, Room \ {r})
      /\ r \notin f.badRooms => r \notin RoomsOf(f)
      /\ \A u \in User :
            /\ sock'[u] = sock[u] /\ LastWord(feed', u) = LastWord(f, u)
            /\ u \in f.badUsers => u \in feed'.badUsers
            /\ sock[u].room = r /\ sock[u].st \notin {"new", "away", "gone"} => u \in Dropped(c)
            => UserGood(u)'
  <2> DEFINE h == f
  <2>1. h = Unannounced(TellDeleted(feed, r), Dropped(c)) /\ rooms' = rooms /\ op' = op
    BY <1>1
  <2> HIDE DEF f
  <2> QED
    BY <1>2, <2>1, DroppedUsers
<1> HIDE DEF f, v
<1>5. CASE c.st = "tell"
  <2>1. MadeIdle(f, v, sock', feed')
    BY <1>1, <1>5
  <2>2. /\ Fed(feed') /\ SameWords(f, feed', User \ {v}) /\ SameRooms(f, feed', Room)
        /\ ~Connected(v) => feed' = f
        /\ Connected(v) /\ v \notin feed'.badUsers => LastWord(feed', v) = Idle
                                                     /\ op[v].st # "resume"
    BY <1>3, <1>4, <2>1, PartnerFeed
  <2>3. /\ \A w \in User \ {v} : sock'[w] = sock[w]
        /\ sock'[v] = IF Connected(v) THEN Idle ELSE sock[v]
    BY <1>3, <2>1, PartnerSock
  <2>4. ASSUME NEW w \in User, w # v
        PROVE  UserGood(w)'
    <3>1. w = c.user
      BY <1>3, <2>4
    <3>2. sock[w].room = r => w \in Dropped(c)
      BY <1>0, <3>1 DEF Dropped
    <3>3. LastWord(feed', w) = LastWord(f, w) /\ (w \in f.badUsers => w \in feed'.badUsers)
      BY <2>2, <2>4 DEF SameWords
    <3> QED
      BY <1>4, <2>3, <2>4, <3>2, <3>3
  <2>5. UserGood(v)'
    <3>1. CASE Connected(v)
      <4>1. sock'[v] = Idle
        BY <2>3, <3>1
      <4>2. Truth(sock')[v] = Idle /\ sock'[v].st # "away"
        BY <1>3, <4>1, TruthIs, Constants DEF FeedTypes, SiteTypes
      <4>3. op'[v] = op[v]
        BY <1>1
      <4> QED
        BY <1>3, <2>2, <3>1, <4>2, <4>3, ToldGood
    <3>2. CASE ~Connected(v)
      <4>1. sock[v].st \in {"new", "away", "gone"}
        BY <1>3, <3>2 DEF Connected, FeedTypes, SiteTypes, SockState
      <4> QED
        BY <1>3, <1>4, <2>2, <2>3, <3>2, <4>1
    <3> QED
      BY <3>1, <3>2
  <2>6. SameRooms(feed, feed', Room \ {r}) /\ (r \notin feed'.badRooms => r \notin RoomsOf(feed'))
    BY <1>2, <1>4, <2>2 DEF SameRooms
  <2>7. RoomsQuiet(Room \ {r})
    BY <1>0, <1>1, <2>6 DEF RoomsQuiet
  <2>8. RoomGood(r)'
    <3>1. RoomsOf(feed)' = RoomsOf(feed')
      BY DEF RoomsOf
    <3> QED
      BY <1>1, <1>2, <2>6, <3>1 DEF RoomGood
  <2>9. \A q \in Room : RoomGood(q)'
    BY <2>7, <2>8, OneRoomGood DEF AllGood
  <2> QED
    BY <2>2, <2>4, <2>5, <2>9 DEF AllGood
<1>6. CASE c.st # "tell"
  <2>1. sock' = sock /\ feed' = f /\ c.st = "only_room"
    BY <1>1, <1>6
  <2>2. \A w \in User : sock[w].room = r => w \in Dropped(c)
    BY <1>0, <2>1 DEF Dropped
  <2>3. \A w \in User : UserGood(w)'
    BY <1>4, <2>1, <2>2
  <2>4. RoomsQuiet(Room \ {r})
    BY <1>1, <1>4, <1>6, <2>1 DEF RoomsQuiet
  <2>5. RoomGood(r)'
    <3>1. RoomsOf(feed)' = RoomsOf(feed')
      BY DEF RoomsOf
    <3> QED
      BY <1>1, <1>2, <1>4, <2>1, <3>1 DEF RoomGood
  <2>6. \A q \in Room : RoomGood(q)'
    BY <2>4, <2>5, OneRoomGood DEF AllGood
  <2> QED
    BY <1>4, <2>1, <2>3, <2>6 DEF AllGood
<1> QED
  BY <1>5, <1>6

LEMMA CleanAll ==
    ASSUME FeedGood, FeedTypes', NEW c \in clean, CleanupStep(c)
    PROVE  AllGood'
<1> USE DEF FeedGood, Bounded
<1>1. CASE CleanFind(c)
  <2>1. /\ UNCHANGED <<sock, op, feed, rooms, making, order>>
        /\ \A d \in clean : d.st = "tell" => d \in clean'
    BY <1>1 DEF CleanFind, CleanStep
  <2> QED
    BY <2>1, SilentGood
<1>2. CASE CleanLook(c)
  <2>1. /\ UNCHANGED <<sock, op, feed, rooms, making, order>>
        /\ \A d \in clean : d.st = "tell" => d \in clean'
    BY <1>2 DEF CleanLook, CleanStep
  <2> QED
    BY <2>1, SilentGood
<1>3. CASE CleanDelete(c)
  <2>0. PICK r : r = c.room
    OBVIOUS
  <2> DEFINE d == [c EXCEPT !.st = "tell"]
  <2>1. /\ UNCHANGED <<sock, op, feed, making, order>> /\ rooms' = rooms \ {r}
        /\ clean' = (clean \ {c}) \cup {d} /\ c.st = "delete"
    BY <1>3, <2>0 DEF CleanDelete, CleanStep
  <2>2. d.st = "tell" /\ d.room = r
    BY <2>0 DEF FeedTypes, HandlerTypes, Cleanup
  <2> HIDE DEF d
  <2>3. Fed(feed') /\ \A u \in User : UserGood(u)'
    BY <2>1, SilentUsers
  <2>4. RoomsQuiet(Room \ {r})
    BY <2>1, SameSelf DEF RoomsQuiet
  <2>5. PendingRoom(r)'
    BY <2>1, <2>2 DEF PendingRoom
  <2>6. RoomGood(r)'
    BY <2>5 DEF RoomGood
  <2> QED
    BY <2>3, <2>4, <2>6, OneRoomGood DEF AllGood
<1>4. CASE CleanTell(c)
  BY <1>4, CleanTellGood
<1> QED
  BY <1>1, <1>2, <1>3, <1>4 DEF CleanupStep

\* A match: the rooms but its own are left alone.
LEMMA MatchRooms ==
    ASSUME AllGood, NEW r, UNCHANGED <<op, clean, order>>, making.st # "no" => making.room = r,
           SameRooms(feed, feed', Room \ {r}),
           \A q \in Room \ {r} : q \in rooms' <=> q \in rooms
    PROVE  \A q \in Room \ {r} : RoomGood(q)'
<1> SUFFICES ASSUME NEW q \in Room \ {r} PROVE RoomGood(q)'
  OBVIOUS
<1>1. PendingRoom(q) => PendingRoom(q)'
  BY DEF PendingRoom
<1>2. /\ q \in RoomsOf(feed') <=> q \in RoomsOf(feed)
      /\ q \in feed'.badRooms <=> q \in feed.badRooms
      /\ q \in rooms' <=> q \in rooms
  BY DEF SameRooms
<1>3. RoomsOf(feed)' = RoomsOf(feed')
  BY DEF RoomsOf
<1> QED
  BY <1>1, <1>2, <1>3 DEF RoomGood, AllGood

\* Both are told of the match, those who are not in it as well.
LEMMA MakeTellGood ==
    ASSUME FeedGood, FeedTypes', MakeTell
    PROVE  AllGood'
<1> USE DEF FeedGood, Bounded
<1>0. PICK r : r = making.room
  OBVIOUS
<1> DEFINE chatting == [st |-> "active", room |-> r]
           f == TellCreated(feed, r, rooms)
           now == Truth(sock')
           h == TellNow(f, User, chatting, now)
<1>t. sock \in [User -> SockState] /\ sock' \in [User -> SockState]
  BY DEF FeedTypes, SiteTypes
<1>1. /\ making.st = "tell" /\ feed' = h
      /\ sock' = [u \in User |-> IF u \in making.live THEN chatting ELSE sock[u]]
      /\ UNCHANGED <<rooms, op, clean, order, lists, count>>
  BY <1>0 DEF MakeTell
<1>2. r \in Room
  BY <1>0, MakeTellMade, MadeRooms
<1>3. chatting \in Shows /\ chatting.st = "active"
  BY <1>2 DEF Shows
<1> HIDE DEF chatting
<1>4. Fed(f) /\ SameRooms(feed, f, Room \ {r}) /\ r \in RoomsOf(f)
      /\ (r \notin f.badRooms => r \in rooms)
  <2>1. Fed(feed)
    OBVIOUS
  <2> QED
    BY <1>2, <2>1, TellCreatedShape
<1>5. /\ Fed(h) /\ SameRooms(f, h, Room)
      /\ \A u \in User : u \notin h.badUsers => LastWord(h, u) = chatting
      /\ \A u \in User : u \notin h.badUsers => ~Untrue(chatting, now[u])
  <2> HIDE DEF f, now
  <2>1. chatting \in Shows \cup {Absent} /\ User \in SUBSET User
    BY <1>3
  <2> QED
    BY <1>4, <2>1, TellNowShape
<1> HIDE DEF f, h
<1>6. ASSUME NEW u \in User
      PROVE  UserGood(u)'
  <2>1. SUFFICES ASSUME u \notin feed'.badUsers
                 PROVE  /\ LastWord(feed', u) = Truth(sock')[u] /\ sock'[u].st # "away"
                        /\ op'[u].st = "resume" => ~op'[u].live
    BY ToldGood
  <2>2. LastWord(feed', u) = chatting /\ Truth(sock')[u] = chatting
    BY <1>1, <1>5, <2>1 DEF Untrue
  <2>3. chatting # Absent /\ chatting # Idle
    BY <1>3, Constants
  <2>4. sock'[u].st # "away" /\ Truth(sock')[u] = sock'[u]
    BY <1>t, <2>2, <2>3, TruthIs
  <2>5. op[u].st = "resume" /\ op[u].live => sock'[u] = Idle
    BY <1>1, ApartFacts
  <2> QED
    BY <1>1, <2>2, <2>3, <2>4, <2>5
<1>7. /\ SameRooms(feed, feed', Room \ {r}) /\ r \in RoomsOf(feed')
      /\ r \notin feed'.badRooms => r \in rooms
  BY <1>1, <1>2, <1>4, <1>5 DEF SameRooms
<1>8. RoomGood(r)'
  <2>1. RoomsOf(feed)' = RoomsOf(feed')
    BY DEF RoomsOf
  <2> QED
    BY <1>1, <1>7, <2>1 DEF RoomGood
<1>9. \A q \in Room \ {r} : RoomGood(q)'
  <2>1. making.st # "no" => making.room = r
    BY <1>0
  <2> QED
    BY <1>1, <1>7, <2>1, MatchRooms
<1> QED
  BY <1>1, <1>5, <1>6, <1>8, <1>9 DEF AllGood

LEMMA MakeGood ==
    ASSUME FeedGood, FeedTypes', MakeBegin \/ MakeRoom
    PROVE  AllGood'
<1> USE DEF FeedGood, Bounded
<1>1. CASE MakeBegin
  <2>0. PICK r : r = making'.room
    OBVIOUS
  <2>1. /\ UNCHANGED <<sock, rooms, op, clean, order, lists, feed>>
        /\ making.st = "no" /\ making'.st = "make"
    BY <1>1 DEF MakeBegin
  <2>2. Fed(feed') /\ \A u \in User : UserGood(u)'
    BY <2>1, SilentUsers
  <2>3. RoomGood(r)'
    BY <2>0, <2>1 DEF RoomGood, PendingRoom
  <2>4. \A q \in Room \ {r} : RoomGood(q)'
    BY <2>1, SameSelf, MatchRooms
  <2> QED
    BY <2>2, <2>3, <2>4 DEF AllGood
<1>2. CASE MakeRoom
  <2>0. PICK r : r = making.room
    OBVIOUS
  <2>1. /\ UNCHANGED <<sock, op, clean, order, feed>>
        /\ making'.st = "tell" /\ making'.room = r /\ rooms' = rooms \cup {r} /\ r \in Room
        /\ r \notin Made
    BY <1>2, <2>0, MakeRoomMade DEF MakeRoom, FeedTypes, HandlerTypes, Match
  <2>2. r # NoRoom
    BY <2>1, RoomFacts
  <2>3. Fed(feed') /\ \A u \in User : UserGood(u)'
    BY <2>1, <2>2, SilentUsers
  <2>4. RoomGood(r)'
    BY <2>1 DEF RoomGood, PendingRoom
  <2>5. \A q \in Room \ {r} : RoomGood(q)'
    BY <2>0, <2>1, SameSelf, MatchRooms
  <2> QED
    BY <2>3, <2>4, <2>5 DEF AllGood
<1> QED
  BY <1>1, <1>2

LEMMA KickGood ==
    ASSUME FeedGood, FeedTypes', KickDelete \/ KickEnd
    PROVE  AllGood'
<1> USE DEF FeedGood, Bounded
<1>1. CASE KickDelete
  <2>0. PICK r : r = order.room
    OBVIOUS
  <2>1. /\ UNCHANGED <<sock, op, clean, making>> /\ rooms' = rooms \ {r}
        /\ order.st = "kick_delete" /\ r \in Room
        /\ feed' = [feed EXCEPT !.badRooms = @ \cup {r}]
    BY <1>1, <2>0, ApartFacts DEF KickDelete
  <2>2. feed \in Feed /\ Fed(feed)
    BY DEF Fed
  <2>3. /\ feed' \in Feed /\ feed'.users = feed.users /\ feed'.badUsers = feed.badUsers
        /\ feed'.queued = feed.queued /\ feed'.created = feed.created
        /\ feed'.rooms = feed.rooms /\ feed'.badRooms = feed.badRooms \cup {r}
    BY <2>1, <2>2 DEF Feed
  <2>4. Fed(feed') /\ SameWords(feed, feed', User)
    BY <2>2, <2>3, SameWord DEF Fed, SameWords
  <2>5. \A u \in User : UserGood(u)'
    BY <2>1, <2>4, SteadyGood DEF AllGood
  <2>6. SameRooms(feed, feed', Room \ {r})
    BY <2>3 DEF SameRooms, RoomsOf
  <2>7. RoomsQuiet(Room \ {r})
    BY <2>1, <2>6 DEF RoomsQuiet
  <2>8. RoomGood(r)'
    BY <2>3 DEF RoomGood
  <2> QED
    BY <2>4, <2>5, <2>7, <2>8, OneRoomGood DEF AllGood
<1>2. CASE KickEnd
  <2>1. order.st = "kick_end" /\ UNCHANGED <<rooms, lists, count>>
    BY <1>2 DEF KickEnd
  <2>2. CASE order.live
    <3>1. Gone({order.user}) /\ {order.user} \in SUBSET User
      BY <1>2, <2>2, ApartFacts DEF KickEnd
    <3> QED
      BY <2>1, <3>1, GoneAll
  <2>3. CASE ~order.live
    <3>1. /\ UNCHANGED <<sock, op, clean, making>>
          /\ feed' = Unannounced(feed, LeftIn(order.room)) /\ LeftIn(order.room) \in SUBSET User
      BY <1>2, <2>3 DEF KickEnd, LeftIn
    <3>2. PICK users \in SUBSET User : feed' = Unannounced(feed, users)
      BY <3>1
    <3>3. /\ Fed(feed') /\ SameWords(feed, feed', User \ users) /\ SameRooms(feed, feed', Room)
          /\ users \subseteq feed'.badUsers
      BY <3>2, UnannouncedShape
    <3>4. \A u \in users : UserGood(u)'
      BY <3>3 DEF UserGood
    <3>5. \A u \in User \ users : UserGood(u)'
      BY <2>1, <3>1, <3>3, SteadyGood DEF AllGood
    <3>6. RoomsQuiet(Room)
      BY <2>1, <3>1, <3>3 DEF RoomsQuiet
    <3> QED
      BY <3>3, <3>4, <3>5, <3>6, QuietGood DEF AllGood
  <2> QED
    BY <2>2, <2>3
<1> QED
  BY <1>1, <1>2

LEMMA CloseRoomTellGood ==
    ASSUME FeedGood, FeedTypes', CloseRoomTell
    PROVE  AllGood'
<1> USE DEF FeedGood, Bounded
<1>0. PICK r : r = order.room
  OBVIOUS
<1> DEFINE f == Unannounced(TellDeleted(feed, r), LeftIn(r))
<1>1. /\ order.st = "tell" /\ feed' = f
      /\ UNCHANGED <<sock, rooms, op, clean, making, lists, count>>
  BY <1>0 DEF CloseRoomTell
<1>2. r \in Room \ rooms /\ r \in Room /\ Unheld /\ LeftIn(r) \in SUBSET User
  BY <1>0, <1>1, ApartFacts DEF Apart, LeftIn
<1>3. /\ Fed(f) /\ SameRooms(feed, f, Room \ {r})
      /\ r \notin f.badRooms => r \notin RoomsOf(f)
      /\ \A u \in User :
            /\ sock'[u] = sock[u] /\ LastWord(feed', u) = LastWord(f, u)
            /\ u \in f.badUsers => u \in feed'.badUsers
            /\ sock[u].room = r /\ sock[u].st \notin {"new", "away", "gone"} => u \in LeftIn(r)
            => UserGood(u)'
  <2> DEFINE h == f
  <2>1. h = Unannounced(TellDeleted(feed, r), LeftIn(r)) /\ rooms' = rooms /\ op' = op
    BY <1>1
  <2> HIDE DEF f
  <2> QED
    BY <1>2, <2>1, DroppedUsers
<1> HIDE DEF f
<1>4. \A u \in User : UserGood(u)'
  BY <1>1, <1>3 DEF LeftIn
<1>5. RoomsQuiet(Room \ {r})
  BY <1>0, <1>1, <1>3 DEF RoomsQuiet
<1>6. RoomGood(r)'
  <2>1. RoomsOf(feed)' = RoomsOf(feed')
    BY DEF RoomsOf
  <2> QED
    BY <1>1, <1>2, <1>3, <2>1 DEF RoomGood
<1> QED
  BY <1>1, <1>3, <1>4, <1>5, <1>6, OneRoomGood DEF AllGood

LEMMA CloseRoomGood ==
    ASSUME FeedGood, FeedTypes', CloseRoomBegin \/ CloseRoomDrop \/ CloseRoomDelete
    PROVE  AllGood'
<1> USE DEF FeedGood, Bounded
<1>1. CASE CloseRoomBegin
  <2>1. UNCHANGED <<sock, op, feed, rooms, making, clean>> /\ order.st = "no"
    BY <1>1 DEF CloseRoomBegin
  <2> QED
    BY <2>1, SilentGood
<1>2. CASE CloseRoomDrop
  <2>1. /\ Gone({u \in User : Connected(u)}) /\ {u \in User : Connected(u)} \in SUBSET User
        /\ order.st = "drop" /\ rooms' = rooms
    BY <1>2 DEF CloseRoomDrop
  <2> QED
    BY <2>1, GoneAll
<1>3. CASE CloseRoomDelete
  <2>0. PICK r : r = order.room
    OBVIOUS
  <2>1. /\ UNCHANGED <<sock, op, feed, making, clean>> /\ rooms' = rooms \ {r}
        /\ order.st = "delete" /\ order'.st = "tell" /\ order'.room = r
    BY <1>3, <2>0 DEF CloseRoomDelete, FeedTypes, HandlerTypes, Order
  <2>2. Fed(feed') /\ \A u \in User : UserGood(u)'
    BY <2>1, SilentUsers
  <2>3. RoomsQuiet(Room \ {r})
    BY <2>1, SameSelf DEF RoomsQuiet
  <2>4. RoomGood(r)'
    BY <2>1 DEF RoomGood, PendingRoom
  <2> QED
    BY <2>2, <2>3, <2>4, OneRoomGood DEF AllGood
<1> QED
  BY <1>1, <1>2, <1>3

\* Those who are connected are idle, unannounced; of the others nothing is said.
LEMMA CloseSiteGood ==
    ASSUME FeedGood, FeedTypes', CloseSite
    PROVE  AllGood'
<1> USE DEF FeedGood, Bounded
<1> DEFINE here == {u \in User : Connected(u)}
           chatting == {u \in here : sock[u].st = "active" /\ sock[u].room # NoRoom}
           now == Truth(sock')
           h == TellNow(feed, chatting, Absent, now)
           g == Unannounced(h, here)
<1>1. /\ feed' = g /\ clean' = clean \cup CleanupOf(chatting)
      /\ sock' = [u \in User |-> IF u \in here THEN Idle ELSE sock[u]]
      /\ UNCHANGED <<rooms, op, making, order, lists>>
  BY DEF CloseSite
<1>2. here \in SUBSET User /\ chatting \in SUBSET User /\ chatting \subseteq here
  OBVIOUS
<1>3. \A u \in User \ here : sock'[u] = sock[u]
  BY <1>1
<1> HIDE DEF here, chatting, now
<1>4. Fed(h) /\ SameWords(feed, h, User \ chatting) /\ SameRooms(feed, h, Room)
  <2>1. Fed(feed) /\ Absent \in Shows \cup {Absent}
    OBVIOUS
  <2> QED
    BY <1>2, <2>1, TellNowShape
<1> HIDE DEF h
<1>5. /\ Fed(g) /\ SameWords(h, g, User \ here) /\ SameRooms(h, g, Room)
      /\ here \subseteq g.badUsers
  BY <1>2, <1>4, UnannouncedShape
<1> HIDE DEF g
<1>6. /\ Fed(feed') /\ SameWords(feed, feed', User \ here) /\ SameRooms(feed, feed', Room)
      /\ here \subseteq feed'.badUsers
  BY <1>1, <1>2, <1>4, <1>5 DEF SameWords, SameRooms
<1>7. \A u \in here : UserGood(u)'
  BY <1>6 DEF UserGood
<1>8. \A u \in User \ here : UserGood(u)'
  BY <1>1, <1>3, <1>6, SteadyGood DEF AllGood
<1>9. RoomsQuiet(Room)
  BY <1>1, <1>6 DEF RoomsQuiet
<1> QED
  BY <1>6, <1>7, <1>8, <1>9, QuietGood DEF AllGood

\* A list replaces what is shown; what is still queued, or under way, is not excused by it.
LEMMA ListGood ==
    ASSUME FeedGood, FeedTypes', AskLists \/ ReadRooms \/ SendUsers \/ SendRooms
    PROVE  AllGood'
<1> USE DEF FeedGood, Bounded
<1>t. feed \in Feed /\ Fed(feed) /\ lists \in [users : UserList, rooms : RoomList]
  BY DEF Fed, FeedTypes, ReadTypes
<1>1. CASE AskLists \/ ReadRooms
  BY <1>1, SilentGood DEF AskLists, ReadRooms
<1>2. CASE SendUsers
  <2> DEFINE shown == lists.users.data
             bad == {u \in User : \/ shown[u] # Truth(sock)[u]
                                  \/ QueuedFor(feed, u) \/ Pending(u)}
  <2>1. /\ UNCHANGED <<sock, rooms, op, clean, making, order, count>>
        /\ feed' = [feed EXCEPT !.users = shown, !.badUsers = bad]
    BY <1>2 DEF SendUsers
  <2>2. shown \in [User -> Shows \cup {Absent}] /\ bad \in SUBSET User
    BY <1>t DEF UserList
  <2>3. \A u \in User \ bad : /\ shown[u] = Truth(sock)[u] /\ ~QueuedFor(feed, u)
                              /\ ~Pending(u)
    OBVIOUS
  <2> HIDE DEF shown, bad
  <2>4. /\ feed' \in Feed /\ feed'.users = shown /\ feed'.badUsers = bad
        /\ feed'.queued = feed.queued /\ feed'.created = feed.created
        /\ feed'.rooms = feed.rooms /\ feed'.badRooms = feed.badRooms
    BY <1>t, <2>1, <2>2 DEF Feed
  <2>5. Fed(feed')
    BY <1>t, <2>4, SameWord DEF Fed
  <2>6. ASSUME NEW u \in User
        PROVE  UserGood(u)'
    <3>1. SUFFICES ASSUME u \notin bad
                   PROVE  /\ LastWord(feed', u) = Truth(sock')[u] /\ sock'[u].st # "away"
                          /\ op'[u].st = "resume" => ~op'[u].live
      BY <2>4, ToldGood
    <3>2. sock[u].st # "away" /\ op[u].st # "resume"
      BY <2>3, <3>1 DEF Pending
    <3>3. ~QueuedFor(feed', u)
      BY <2>3, <2>4, <3>1, SameWord
    <3>4. LastWord(feed', u) = shown[u]
      BY <2>4, <3>3, NotQueued
    <3> QED
      BY <2>1, <2>3, <3>1, <3>2, <3>4
  <2>7. RoomsQuiet(Room)
    BY <2>1, <2>4 DEF RoomsQuiet, SameRooms, RoomsOf
  <2> QED
    BY <2>5, <2>6, <2>7, QuietGood DEF AllGood
<1>3. CASE SendRooms
  <2> DEFINE shown == lists.rooms.data
             bad == {r \in Room : \/ (r \in shown) # (r \in rooms)
                                  \/ r \in ToSet(feed.created) /\ r \notin rooms}
  <2>1. /\ UNCHANGED <<sock, rooms, op, clean, making, order, count>>
        /\ feed' = [feed EXCEPT !.rooms = shown, !.badRooms = bad]
    BY <1>3 DEF SendRooms
  <2>2. shown \in SUBSET Room /\ bad \in SUBSET Room
    BY <1>t DEF RoomList
  <2>3. \A r \in Room \ bad : /\ r \in shown <=> r \in rooms
                              /\ r \in ToSet(feed.created) => r \in rooms
    OBVIOUS
  <2> HIDE DEF shown, bad
  <2>4. /\ feed' \in Feed /\ feed'.rooms = shown /\ feed'.badRooms = bad
        /\ feed'.queued = feed.queued /\ feed'.created = feed.created
        /\ feed'.users = feed.users /\ feed'.badUsers = feed.badUsers
    BY <1>t, <2>1, <2>2 DEF Feed
  <2>5. Fed(feed') /\ SameWords(feed, feed', User)
    BY <1>t, <2>4, SameWord DEF Fed, SameWords
  <2>6. \A u \in User : UserGood(u)'
    BY <2>1, <2>5, SteadyGood DEF AllGood
  <2>7. ASSUME NEW r \in Room
        PROVE  RoomGood(r)'
    <3>1. RoomsOf(feed)' = shown \cup ToSet(feed.created)
      BY <2>4 DEF RoomsOf
    <3> QED
      BY <2>1, <2>3, <2>4, <3>1 DEF RoomGood
  <2> QED
    BY <2>5, <2>6, <2>7 DEF AllGood
<1> QED
  BY <1>1, <1>2, <1>3

\* The batches are sent.
LEMMA FlushKeeps ==
    ASSUME Fed(feed)
    PROVE  LET g == Flushed(feed)
           IN /\ Fed(g) /\ SameWords(feed, g, User) /\ SameRooms(feed, g, Room)
              /\ \A u \in User : g.users[u] = LastWord(feed, u)
              /\ g.rooms = RoomsOf(feed)
<1>1. /\ feed \in Feed /\ LastKnown(feed)
      /\ \A u \in User : LastWord(feed, u) \in Shows \cup {Absent}
  BY WordTyped DEF Fed
<1> DEFINE g == Flushed(feed)
<1>2. /\ Fed(g) /\ g.created = <<>>
      /\ \A u \in User : LastWord(g, u) = LastWord(feed, u) /\ g.users[u] = LastWord(feed, u)
      /\ RoomsOf(g) = RoomsOf(feed) /\ g.rooms = RoomsOf(feed)
      /\ g.badUsers = feed.badUsers /\ g.badRooms = feed.badRooms
  BY <1>1, FlushedShape
<1> HIDE DEF g
<1> QED
  BY <1>2 DEF SameWords, SameRooms, g

LEMMA FlushGood ==
    ASSUME FeedGood, FeedTypes', Flush
    PROVE  AllGood'
<1> USE DEF FeedGood, Bounded
<1>1. feed' = Flushed(feed) /\ UNCHANGED <<sock, rooms, op, clean, making, order, lists, count>>
  BY DEF Flush
<1>2. Fed(feed') /\ SameWords(feed, feed', User) /\ SameRooms(feed, feed', Room)
  BY <1>1, FlushKeeps
<1>3. \A u \in User : UserGood(u)'
  BY <1>1, <1>2, SteadyGood DEF AllGood
<1>4. RoomsQuiet(Room)
  BY <1>1, <1>2 DEF RoomsQuiet
<1> QED
  BY <1>2, <1>3, <1>4, QuietGood DEF AllGood

LEMMA OtherAll ==
    ASSUME FeedGood, FeedTypes', OtherStep
    PROVE  AllGood'
BY MakeGood, MakeTellGood, KickGood, CloseRoomGood, CloseRoomTellGood, CloseSiteGood, ListGood,
   FlushGood
   DEF OtherStep

-----------------------------------------------------------------------------
(* The invariant, and what it gives.                                        *)

LEMMA FeedStarts ==
    ASSUME FeedInit
    PROVE  FeedGood
<1> DEFINE new == [st |-> "new", room |-> NoRoom]
<1>1. /\ sock = [u \in User |-> new] /\ rooms = {} /\ op = [u \in User |-> NoOp] /\ clean = {}
      /\ making = [st |-> "no", room |-> NoRoom, live |-> {}] /\ order = NoOrder
      /\ lists = [users |-> NoUsers, rooms |-> NoRooms]
      /\ feed = [users |-> [u \in User |-> Absent], rooms |-> {}, queued |-> <<>>,
                 created |-> <<>>, badUsers |-> {}, badRooms |-> {}]
      /\ count = [rooms |-> 0, joins |-> 0, rest |-> 0]
  BY DEF FeedInit
<1>2. new \in SockState /\ new.room = NoRoom /\ new.st = "new"
  BY DEF SockState
<1> HIDE DEF new
<1>3. FeedTypes
  <2>1. SiteTypes
    BY <1>1, <1>2 DEF SiteTypes
  <2>2. HandlerTypes
    BY <1>1, Constants DEF HandlerTypes, Match
  <2>3. ReadTypes
    BY <1>1 DEF ReadTypes, NoUsers, NoRooms, UserList, RoomList
  <2>4. CountTypes
    BY <1>1, FeedAssumption DEF CountTypes
  <2> QED
    BY <2>1, <2>2, <2>3, <2>4 DEF FeedTypes
<1>4. <<>> \in Seq(Entry) /\ <<>> \in Seq(Room) /\ Len(<<>>) = 0 /\ DOMAIN <<>> = {}
  OBVIOUS
<1>5. /\ feed \in Feed /\ feed.queued = <<>> /\ feed.created = <<>> /\ feed.rooms = {}
      /\ \A u \in User : feed.users[u] = Absent
  BY <1>1, <1>4 DEF Feed
<1>6. \A u \in User : ~QueuedFor(feed, u)
  BY <1>4, <1>5 DEF QueuedFor
<1>7. Fed(feed)
  BY <1>4, <1>5, <1>6, FeedAssumption DEF Fed, LastKnown
<1>8. \A u \in User : sock[u] = new /\ op[u] = NoOp
  BY <1>1
<1>9. Placed
  BY <1>1, <1>2, <1>8, Constants DEF Placed, Leaving, NoOrder
<1>10. Apart
  BY <1>1, <1>2, <1>8, <1>9, Constants DEF Apart, Deleted, Unheld
<1>11. ASSUME NEW u \in User
       PROVE  UserGood(u)
  <2>1. sock[u].st = "new" /\ op[u].st = "no"
    BY <1>2, <1>8, Constants
  <2>2. Truth(sock)[u] = Absent
    BY <1>3, <2>1, TruthIs DEF FeedTypes, SiteTypes
  <2>3. LastWord(feed, u) = Absent
    BY <1>5, <1>6, NotQueued
  <2> QED
    BY <2>1, <2>2, <2>3 DEF UserGood
<1>12. \A r \in Room : RoomGood(r)
  <2>1. RoomsOf(feed) = {}
    BY <1>4, <1>5 DEF RoomsOf, ToSet
  <2> QED
    BY <1>1, <2>1 DEF RoomGood
<1> QED
  BY <1>3, <1>7, <1>9, <1>10, <1>11, <1>12 DEF FeedGood, Bounded, AllGood

LEMMA FeedKeeps ==
    ASSUME FeedGood, [FeedNext]_feedVars
    PROVE  FeedGood'
<1>1. CASE UNCHANGED feedVars
  <2>1. Bounded' /\ Apart'
    BY <1>1 DEF feedVars, FeedGood, Bounded, Apart, FeedTypes, SiteTypes, HandlerTypes, ReadTypes,
                CountTypes, Placed, Deleted, Unheld, Made
  <2>2. AllGood'
    BY <1>1 DEF feedVars, FeedGood, AllGood, UserGood, RoomGood, Pending, PendingRoom, RoomsOf
  <2> QED
    BY <2>1, <2>2 DEF FeedGood
<1>2. CASE FeedNext
  <2>1. FeedTypes' /\ Apart' /\ AllGood'
    <3>1. Bounded /\ Apart
      BY DEF FeedGood
    <3>2. ASSUME NEW u \in User, UserStep(u)
          PROVE  FeedTypes' /\ Apart' /\ AllGood'
      <4>1. FeedTypes'
        BY <3>1, <3>2, UserTypes
      <4> QED
        BY <3>1, <3>2, <4>1, UserApart, UserAll
    <3>3. ASSUME NEW c \in clean, CleanupStep(c)
          PROVE  FeedTypes' /\ Apart' /\ AllGood'
      <4>1. FeedTypes'
        BY <3>1, <3>3, CleanTypes
      <4> QED
        BY <3>1, <3>3, <4>1, CleanApart, CleanAll
    <3>4. ASSUME OtherStep
          PROVE  FeedTypes' /\ Apart' /\ AllGood'
      <4>1. FeedTypes'
        BY <3>1, <3>4, OtherTypes
      <4> QED
        BY <3>1, <3>4, <4>1, OtherApart, OtherAll
    <3> QED
      BY <1>2, <3>2, <3>3, <3>4, NextSteps
  <2>2. Fed(feed)' /\ Placed'
    BY <2>1 DEF AllGood, Apart
  <2> QED
    BY <2>1, <2>2 DEF FeedGood, Bounded
<1> QED
  BY <1>1, <1>2

LEMMA FeedInvariant == FeedSpec => []FeedGood
<1>1. FeedInit => FeedGood
  BY FeedStarts
<1>2. FeedGood /\ [FeedNext]_feedVars => FeedGood'
  BY FeedKeeps
<1> QED
  BY <1>1, <1>2, PTL DEF FeedSpec

LEMMA GoodTyped ==
    ASSUME FeedGood
    PROVE  FeedTypeOK
<1>1. FeedTypes /\ Fed(feed) /\ Placed
  BY DEF FeedGood, Bounded
<1>2. sock \in [User -> Shows \cup [st : {"new", "away", "gone"}, room : {NoRoom} \cup Room]]
  BY <1>1 DEF FeedTypes, SiteTypes, SockState, Shows
<1>3. /\ rooms \subseteq Room
      /\ op \in [User -> [st : {"no", "join", "cancel", "delete", "tell", "end", "resume"},
                          room : Room \cup {NoRoom}, live : BOOLEAN]]
      /\ clean \subseteq [user : User, st : {"find", "look", "delete", "tell", "only_room"},
                          room : Room \cup {NoRoom}]
      /\ making \in [st : {"no", "make", "tell"}, room : Room \cup {NoRoom},
                     live : SUBSET User]
      /\ order \in [st : {"no", "kick_delete", "kick_end", "drop", "delete", "tell"},
                    room : Room \cup {NoRoom}, user : User \cup {None}, live : BOOLEAN]
      /\ lists \in [users : [st : {"no", "read"}, data : [User -> Shows \cup {Absent}]],
                    rooms : [st : {"no", "asked", "read"}, data : SUBSET Room]]
  BY <1>1 DEF FeedTypes, SiteTypes, HandlerTypes, ReadTypes, UserCall, Cleanup, Match, Order,
              UserList, RoomList
<1>4. feed \in Feed /\ Len(feed.queued) < MaxBatch /\ Len(feed.created) < MaxBatch
  BY <1>1 DEF Fed
<1>5. /\ feed.users \in [User -> Shows \cup {Absent}] /\ feed.rooms \subseteq Room
      /\ feed.created \in Seq(Room) /\ feed.badUsers \subseteq User
      /\ feed.badRooms \subseteq Room /\ feed.queued \in Seq(Entry)
  BY <1>4 DEF Feed
<1>6. ASSUME NEW k \in DOMAIN feed.queued
      PROVE  feed.queued[k].user \in User /\ feed.queued[k].as.st \in {"idle", "queue"}
  <2>1. feed.queued[k] \in Entry
    BY <1>5
  <2> QED
    BY <1>1, <2>1 DEF Fed, Entry
<1>7. \A c \in clean : c.st # "find" => c.room # NoRoom
  BY <1>1, MadeRooms DEF Placed
<1> QED
  BY <1>2, <1>3, <1>4, <1>5, <1>6, <1>7 DEF FeedTypeOK

LEMMA GoodAgrees ==
    ASSUME FeedGood
    PROVE  DashboardAgrees
<1>1. Fed(feed) /\ AllGood
  BY DEF FeedGood, Bounded
<1> DEFINE g == Flushed(feed)
<1>2. (\A u \in User : g.users[u] = LastWord(feed, u)) /\ g.rooms = RoomsOf(feed)
  BY <1>1, FlushKeeps
<1>3. Settled = g
  BY DEF Settled
<1> HIDE DEF g
<1>4. UsersShown
  BY <1>1, <1>2, <1>3 DEF UsersShown, AllGood, UserGood
<1>5. RoomsShown
  BY <1>1, <1>2, <1>3 DEF RoomsShown, AllGood, RoomGood
<1> QED
  BY <1>4, <1>5 DEF DashboardAgrees

\* Every part of the feed's state keeps its range: the handlers and the cleanups in their
\* steps, and a batch that queueEvent never leaves full.
THEOREM FeedTypeCorrect == FeedSpec => []FeedTypeOK
BY FeedInvariant, GoodTyped, PTL

\* The dashboard's lists converge to what admin.handler.ts knows, whatever handlers and
\* departures interleave with its batches and its lists, but for the words that are named.
THEOREM DashboardConverges == FeedSpec => []DashboardAgrees
BY FeedInvariant, GoodAgrees, PTL
=============================================================================
