----------------------- MODULE PeerNegotiationProofs -----------------------
(***************************************************************************)
(* Proofs about PeerNegotiation, for any limit of rebuilds and any number  *)
(* of switches of camera and of faults: type correctness, that an answer   *)
(* is applied to the offer it answers, that a completed exchange sends the *)
(* latest track, and that both sides come to the same exchange.            *)
(*                                                                         *)
(* What is under way is known by its place in chan[p].  A step takes the   *)
(* first item of a channel, puts an item of p's own queue anywhere, or     *)
(* appends: the signals that are left keep their order (Carries), and      *)
(* unless one is lost none but the one taken is missing (Brings).          *)
(***************************************************************************)
EXTENDS PeerNegotiation, SequenceTheorems, WellFoundedInduction, TLAPS

\* No rebuild, and no switch of a track, waits for a peer that has not joined, and nothing
\* of its own is under way.
Offers(q) == {i \in DOMAIN chan[q] : chan[q][i].kind = "offer"}
Answers(q) == {i \in DOMAIN chan[q] : chan[q][i].kind = "answer"}

Fresh(p, q) ==
    ~peer[p].joined =>
        /\ peer[p].sig = "none" /\ peer[p].settled = None
        /\ peer[p].armed = {} /\ peer[p].conn = "none"
        /\ \A i \in DOMAIN chan[p] : chan[p][i].kind \notin {"rebuild", "replace"}
        /\ Offers(q) = {}

\* An offer of p under way to q has a tag of p, of the generation of the offer.
OffersTagged(p, q) ==
    \A i \in Offers(q) :
        /\ chan[q][i].tag # None /\ chan[q][i].tag[1] = p
        /\ chan[q][i].tag[2] = chan[q][i].epoch
        /\ chan[q][i].epoch <= peer[p].epoch
        /\ chan[q][i].epoch = peer[p].epoch => chan[q][i].tag[3] <= peer[p].offers

\* An answer under way to p is to an offer of p, and is of no later generation: a peer that
\* may not rebuild any more answers with the generation it is in.
AnswersTagged(p) ==
    \A i \in Answers(p) :
        /\ chan[p][i].tag # None /\ chan[p][i].tag[1] = p
        /\ chan[p][i].epoch <= chan[p][i].tag[2]
        /\ chan[p][i].tag[2] <= peer[p].epoch

\* The offer a peer waits with is the last one it made.
OfferIsLast(p) ==
    peer[p].sig = "have-local-offer" =>
        peer[p].offer = <<p, peer[p].epoch, peer[p].offers>>

\* The offers of a generation are under way in the order they were made.
OffersOrdered(q) ==
    \A i, j \in Offers(q) :
        i < j /\ chan[q][i].epoch = chan[q][j].epoch => chan[q][i].tag[3] < chan[q][j].tag[3]

\* An offer that the polite peer has rolled back finds an impolite peer that ignores it: it
\* waits with an offer of its own, and will until this one has arrived, or it is of a later
\* generation.
RolledBack(p, q, i) ==
    /\ p = Answerer
    /\ peer[q].epoch >= peer[p].epoch
    /\ peer[q].epoch = peer[p].epoch =>
         /\ peer[q].sig = "have-local-offer"
         /\ \A j \in Answers(q) : j < i => chan[q][j].epoch # peer[q].epoch

\* An offer of p's generation under way to q is the one p waits with, or was rolled back.
OffersOut(p, q) ==
    \A i \in Offers(q) :
        chan[q][i].epoch = peer[p].epoch =>
            \/ peer[p].sig = "have-local-offer" /\ chan[q][i].tag = peer[p].offer
            \/ RolledBack(p, q, i)

\* An answer of p's generation under way to p is to the offer p waits with.  It is the only
\* one, the offer has arrived, and no offer before it can make the polite peer roll back.
AnswersOut(p, q) ==
    \A i \in Answers(p) :
        chan[p][i].epoch = peer[p].epoch =>
            /\ peer[p].sig = "have-local-offer" /\ chan[p][i].tag = peer[p].offer
            /\ \A j \in Offers(q) : chan[q][j].epoch # peer[p].epoch
            /\ \A j \in Answers(p) : chan[p][j].epoch = peer[p].epoch => j = i
            /\ p = Answerer => \A j \in Offers(p) : j < i => chan[p][j].epoch < peer[p].epoch

Exchange(p, q) ==
    /\ OffersTagged(p, q) /\ AnswersTagged(p)
    /\ OfferIsLast(p) /\ OffersOrdered(q)
    /\ OffersOut(p, q) /\ AnswersOut(p, q)

Freshes == \A p \in Peer : Fresh(p, Other(p))
Exchanges == \A p \in Peer : Exchange(p, Other(p))

Negotiated == TypeOK /\ Freshes /\ Exchanges

\* Whoever has an exchange, or makes one, has laid out transceivers or adopted them.
LaidOut(s) ==
    /\ s.settled # None \/ s.sig = "have-local-offer" \/ s.need => s.sending # NoSender
    /\ s.conn \in {"connected", "broken"} => s.settled # None

\* The last switch in the queue s brings the local track; without one it is being sent.
Replacing(s) == {i \in DOMAIN s : s[i].kind = "replace"}
Queued(s, sending, track) ==
    /\ Replacing(s) = {} => sending \in {NoSender, track}
    /\ \A i \in Replacing(s) : (\A j \in Replacing(s) : j <= i) => s[i].track = track

TrackQueued(p) == Queued(chan[p], peer[p].sending, peer[p].track)

Sent == \A p \in Peer : LaidOut(peer[p]) /\ TrackQueued(p)

-----------------------------------------------------------------------------
(* Two peers, and what is under way.                                        *)

\* There are two peers, and each is the other one's other one.
LEMMA TwoPeers ==
    ASSUME NEW p \in Peer
    PROVE  /\ Other(p) \in Peer /\ Other(p) # p /\ Other(Other(p)) = p
           /\ Peer = {p, Other(p)}
BY PeersAssumption DEF Peer, Other

\* What an item holds is told by its kind.
LEMMA ItemFields ==
    ASSUME NEW m \in Item
    PROVE  /\ m.kind \in {"offer", "answer", "candidate"} => m.epoch \in Nat /\ m.tag \in Tag
           /\ m.kind = "resume" => m.epoch \in Nat
           /\ m.kind = "replace" => m.track \in 0..MaxToggles
           /\ m.kind \in {"offer", "answer", "candidate", "resume", "rebuild", "replace"}
BY DEF Item

\* A tag other than None has its three parts.
LEMMA TagParts ==
    ASSUME NEW t \in Tag, t # None
    PROVE  t[1] \in Peer /\ t[2] \in Nat /\ t[3] \in Nat /\ t = <<t[1], t[2], t[3]>>
BY DEF Tag, None

LEMMA TagMade ==
    ASSUME NEW p \in Peer, NEW e \in Nat, NEW n \in Nat
    PROVE  <<p, e, n>> \in Tag /\ <<p, e, n>> # None
BY DEF Tag, None

LEMMA MessageTyped ==
    ASSUME NEW k \in {"offer", "answer", "candidate"}, NEW e \in Nat, NEW t \in Tag
    PROVE  /\ Message(k, e, t) \in Item
           /\ Message(k, e, t).kind = k /\ Message(k, e, t).epoch = e
           /\ Message(k, e, t).tag = t
BY DEF Message, Item

\* The first item of a channel, and what is left without it.
LEMMA HeadItem ==
    ASSUME TypeOK, NEW p \in Peer, chan[p] # <<>>
    PROVE  /\ chan[p] \in Seq(Item) /\ Head(chan[p]) \in Item /\ Head(chan[p]) = chan[p][1]
           /\ 1 \in DOMAIN chan[p] /\ Tail(chan[p]) \in Seq(Item)
BY DEF TypeOK

LEMMA HeadOfKind ==
    ASSUME TypeOK, NEW p \in Peer, Kind(p) # "none"
    PROVE  chan[p] # <<>> /\ Kind(p) = Head(chan[p]).kind
BY DEF Kind

-----------------------------------------------------------------------------
(* What an operation gives: the peer's fields keep their ranges, and it is  *)
(* silent, or makes an offer, or begins a new generation, or both.          *)

Typed(r) == r.s \in PeerState /\ r.out \in Seq(Item)

OfferItems(t) == <<Message("offer", t.epoch, t.offer), Message("candidate", t.epoch, t.offer)>>

\* The signalling of s is that of t.
SameExchange(s, t) ==
    /\ t.epoch = s.epoch /\ t.sig = s.sig /\ t.offer = s.offer /\ t.offers = s.offers
    /\ t.settled = s.settled

\* A peer in state t waits with its last offer, which it sends.
HasOffered(p, t, out) ==
    /\ t.sig = "have-local-offer" /\ t.offer = <<p, t.epoch, t.offers>>
    /\ out = OfferItems(t)

\* From s, in the same generation.
Offers1(p, s, t, out) ==
    /\ s.sig = "stable" /\ t.epoch = s.epoch /\ t.offers = s.offers + 1
    /\ t.settled = s.settled /\ HasOffered(p, t, out)

\* From s, in a later one.
Begins(p, s, t, out) ==
    /\ t.epoch > s.epoch /\ t.settled = None
    /\ (t.sig = "stable" /\ out = <<>>) \/ HasOffered(p, t, out)

Rest(s, t) == t.joined = s.joined /\ t.track = s.track

\* What the senders of a peer may send after an operation other than ReplaceTrack.
Sends(s, t) == t.sending \in {s.sending, s.track, NoSender}

LEMMA NoSenderTyped == NoSender \notin 0..MaxToggles /\ None \in Tag /\ MaxToggles \in Nat
BY PeersAssumption DEF NoSender, Tag

LEMMA PeerTyped ==
    ASSUME TypeOK, NEW p \in Peer
    PROVE  /\ peer[p] \in PeerState /\ peer[p].epoch \in Nat /\ peer[p].joined \in BOOLEAN
           /\ peer[p].track \in 0..MaxToggles /\ peer[p].track # NoSender
           /\ chan[p] \in Seq(Item)
<1>1. peer[p] \in PeerState /\ chan[p] \in Seq(Item)
  BY DEF TypeOK
<1>2. peer[p].track \in 0..MaxToggles
  BY <1>1 DEF PeerState
<1>3. peer[p].epoch \in Nat /\ peer[p].joined \in BOOLEAN
  BY <1>1 DEF PeerState
<1> QED BY <1>1, <1>2, <1>3, NoSenderTyped

LEMMA MakeOfferGives ==
    ASSUME NEW p \in Peer, NEW s \in PeerState
    PROVE  /\ Typed(MakeOffer(p, s)) /\ Rest(s, MakeOffer(p, s).s)
           /\ \/ MakeOffer(p, s) = Silently(s)
              \/ Offers1(p, s, MakeOffer(p, s).s, MakeOffer(p, s).out)
           /\ s.sig = "stable" => Offers1(p, s, MakeOffer(p, s).s, MakeOffer(p, s).out)
           /\ LET t == MakeOffer(p, s).s
              IN  t.sending = s.sending /\ t.conn = s.conn /\ t.settled = s.settled
                  /\ (t.need => s.need)
<1>1. CASE s.sig # "stable"
  BY <1>1 DEF MakeOffer, Silently, Typed, Rest
<1>2. CASE s.sig = "stable"
  <2> DEFINE tag == <<p, s.epoch, s.offers + 1>>
             t == [s EXCEPT !.sig = "have-local-offer", !.offer = tag,
                            !.offers = @ + 1, !.need = FALSE]
             out == <<Message("offer", s.epoch, tag), Message("candidate", s.epoch, tag)>>
  <2>1. MakeOffer(p, s) = [s |-> t, out |-> out]
    BY <1>2 DEF MakeOffer
  <2>2. s.epoch \in Nat /\ s.offers \in Nat
    BY DEF PeerState
  <2>3. tag \in Tag
    BY <2>2, TagMade
  <2>4. Message("offer", s.epoch, tag) \in Item /\ Message("candidate", s.epoch, tag) \in Item
    BY <2>2, <2>3, MessageTyped
  <2>5. t \in PeerState /\ out \in Seq(Item)
    <3> HIDE DEF tag
    <3>1. out \in Seq(Item)
      BY <2>4
    <3>2. s.offers + 1 \in Nat
      BY <2>2
    <3> DEFINE n == s.offers + 1
    <3>3. [s EXCEPT !.sig = "have-local-offer", !.offer = tag,
                    !.offers = n, !.need = FALSE] \in PeerState
      <4> HIDE DEF n
      <4> QED BY <2>2, <2>3, <3>2 DEF PeerState, n
    <3> QED BY <3>1, <3>3
  <2>6. /\ t.sig = "have-local-offer" /\ t.offer = tag /\ t.offers = s.offers + 1
        /\ t.epoch = s.epoch /\ t.settled = s.settled /\ t.joined = s.joined
        /\ t.track = s.track /\ t.sending = s.sending /\ t.conn = s.conn /\ t.need = FALSE
    BY DEF PeerState
  <2>7. out = OfferItems(t)
    BY <2>6 DEF OfferItems
  <2> HIDE DEF t, out
  <2> QED BY <1>2, <2>1, <2>5, <2>6, <2>7 DEF Typed, Rest, Offers1, HasOffered
<1> QED BY <1>1, <1>2

LEMMA CreatePeerGives ==
    ASSUME NEW p \in Peer, NEW s \in PeerState, NEW initiate \in BOOLEAN
    PROVE  LET r == CreatePeer(p, s, initiate) IN
           /\ Typed(r) /\ Rest(s, r.s)
           /\ r.s.epoch = s.epoch /\ r.s.settled = None /\ r.s.conn = "new" /\ ~r.s.need
           /\ IF initiate THEN HasOffered(p, r.s, r.out) /\ r.s.sending = s.track
              ELSE r.s.sig = "stable" /\ r.out = <<>> /\ r.s.sending = NoSender
<1> DEFINE new == [s EXCEPT !.sig = "stable", !.offer = None, !.offers = 0,
                            !.settled = None, !.conn = "new", !.need = FALSE,
                            !.gaveUp = FALSE, !.armed = {"watchdog"},
                            !.sending = IF initiate THEN s.track ELSE NoSender]
<1>1. /\ new \in PeerState
      /\ new.epoch = s.epoch /\ new.settled = None /\ new.conn = "new" /\ ~new.need
      /\ new.sig = "stable" /\ new.joined = s.joined /\ new.track = s.track
      /\ new.sending = IF initiate THEN s.track ELSE NoSender
  BY NoSenderTyped DEF PeerState
<1>2. CreatePeer(p, s, initiate)
        = IF initiate THEN MakeOffer(p, new) ELSE Silently(new)
  BY DEF CreatePeer
<1> HIDE DEF new
<1>3. CASE initiate
  BY <1>1, <1>2, <1>3, MakeOfferGives DEF Rest, Offers1, HasOffered
<1>4. CASE ~initiate
  BY <1>1, <1>2, <1>4 DEF Rest, Typed, Silently
<1> QED BY <1>3, <1>4

\* The fields of a peer after a rebuild that was refused, or not asked for.
Unmoved(s, t) ==
    /\ SameExchange(s, t) /\ Rest(s, t)
    /\ t.sending = s.sending /\ t.conn = s.conn /\ t.need = s.need

LEMMA RebuildToGives ==
    ASSUME NEW p \in Peer, NEW s \in PeerState, NEW e \in Nat, NEW initiate \in BOOLEAN
    PROVE  LET r == RebuildTo(p, s, e, initiate) IN
           /\ Typed(r) /\ Rest(s, r.s)
           /\ \/ Unmoved(s, r.s) /\ r.out = <<>>
              \/ /\ e > s.epoch /\ r.s.epoch = e /\ r.s.settled = None
                 /\ r.s.conn = "new" /\ ~r.s.need
                 /\ IF initiate THEN HasOffered(p, r.s, r.out) /\ r.s.sending = s.track
                    ELSE r.s.sig = "stable" /\ r.out = <<>> /\ r.s.sending = NoSender
<1>0. s.epoch \in Nat /\ s.rebuilds \in 0..MaxRebuilds /\ MaxRebuilds \in Nat
  BY PeersAssumption DEF PeerState
<1>1. CASE e <= s.epoch
  <2>1. RebuildTo(p, s, e, initiate) = [s |-> s, out |-> <<>>]
    BY <1>0, <1>1 DEF RebuildTo, Silently
  <2> QED BY <2>1 DEF Typed, Rest, Unmoved, SameExchange
<1>2. CASE e > s.epoch /\ s.rebuilds >= MaxRebuilds
  <2> DEFINE t == [s EXCEPT !.gaveUp = TRUE]
  <2>1. RebuildTo(p, s, e, initiate) = [s |-> t, out |-> <<>>]
    BY <1>0, <1>2 DEF RebuildTo, Silently
  <2>2. t \in PeerState /\ Unmoved(s, t)
    BY DEF PeerState, Unmoved, SameExchange, Rest
  <2> HIDE DEF t
  <2> QED BY <2>1, <2>2 DEF Typed, Unmoved
<1>3. CASE e > s.epoch /\ ~(s.rebuilds >= MaxRebuilds)
  <2> DEFINE t == [s EXCEPT !.epoch = e, !.rebuilds = @ + 1]
  <2>1. RebuildTo(p, s, e, initiate) = CreatePeer(p, t, initiate)
    BY <1>0, <1>3 DEF RebuildTo
  <2>2. t.epoch = e /\ t.joined = s.joined /\ t.track = s.track
    BY DEF PeerState
  <2>3. s.rebuilds + 1 \in 0..MaxRebuilds
    BY <1>0, <1>3
  <2>4. t \in PeerState
    <3> DEFINE n == s.rebuilds + 1
    <3>1. [s EXCEPT !.epoch = e, !.rebuilds = n] \in PeerState
      <4>1. n \in 0..MaxRebuilds
        BY <2>3
      <4> HIDE DEF n
      <4> QED BY <4>1 DEF PeerState
    <3> QED BY <3>1
  <2> HIDE DEF t
  <2> QED BY <1>3, <2>1, <2>2, <2>4, CreatePeerGives DEF Rest
<1> QED BY <1>0, <1>1, <1>2, <1>3

\* s takes offer m, answers it, and is in state t.
Answering(p, s, t, m, out) ==
    /\ m.kind = "offer" /\ t.epoch >= s.epoch /\ m.epoch >= t.epoch
    /\ t.sig = "stable" /\ t.settled = m.tag
    /\ out = <<Message("answer", t.epoch, m.tag)>>
    /\ t.epoch = s.epoch => t.offers = s.offers /\ (p = Answerer \/ s.sig = "stable")

\* s takes answer m, which completes the exchange it has begun.
Completing(s, t, m, out) ==
    /\ m.kind = "answer" /\ m.epoch = s.epoch /\ s.sig = "have-local-offer"
    /\ t.sig = "stable" /\ t.settled = m.tag /\ t.epoch = s.epoch
    /\ t.offer = s.offer /\ t.offers = s.offers /\ out = <<>>

LEMMA AnswerGives ==
    ASSUME NEW s \in PeerState, NEW m, m.tag \in Tag
    PROVE  LET r == Answer(s, m) IN
           /\ Typed(r) /\ Rest(s, r.s)
           /\ r.s.epoch = s.epoch /\ r.s.sig = "stable" /\ r.s.offers = s.offers
           /\ r.s.settled = m.tag /\ r.s.conn = s.conn /\ ~r.s.need
           /\ r.s.sending = s.track
           /\ r.out = <<Message("answer", s.epoch, m.tag)>>
<1> DEFINE tag == m.tag
           t == [s EXCEPT !.sig = "stable", !.offer = None, !.settled = tag, !.need = FALSE,
                          !.sending = s.track]
<1>1. tag \in Tag
  OBVIOUS
<1>2. /\ t \in PeerState
      /\ t.joined = s.joined /\ t.track = s.track /\ t.epoch = s.epoch /\ t.sig = "stable"
      /\ t.offers = s.offers /\ t.settled = tag /\ t.conn = s.conn /\ ~t.need
      /\ t.sending = s.track
  <2> HIDE DEF tag
  <2> QED BY <1>1, NoSenderTyped DEF PeerState
<1>3. Answer(s, m) = [s |-> t, out |-> <<Message("answer", s.epoch, tag)>>]
  BY DEF Answer
<1>4. Message("answer", s.epoch, tag) \in Item
  BY <1>1, MessageTyped DEF PeerState
<1> HIDE DEF t, tag
<1>5. Typed(Answer(s, m)) /\ Rest(s, Answer(s, m).s)
  BY <1>2, <1>3, <1>4 DEF Typed, Rest
<1> QED BY <1>2, <1>3, <1>5 DEF tag

\* The browser refuses, or takes, a description.
LEMMA ApplyDescriptionGives ==
    ASSUME NEW p \in Peer, NEW s \in PeerState, NEW m \in Item,
           m.kind \in {"offer", "answer", "candidate"}, NEW applied \in BOOLEAN
    PROVE  LET r == ApplyDescription(p, s, m, applied) IN
           /\ Typed(r) /\ Rest(s, r.s)
           /\ \/ Unmoved(s, r.s) /\ r.out = <<>>
              \/ /\ m.kind = "offer" /\ r.s.epoch > s.epoch /\ r.s.settled = None
                 /\ HasOffered(p, r.s, r.out)
                 /\ r.s.conn = "new" /\ ~r.s.need /\ r.s.sending = s.track
              \/ /\ m.kind = "offer" /\ (p = Answerer \/ s.sig = "stable")
                 /\ r = Answer(s, m)
              \/ /\ m.kind = "answer" /\ s.sig = "have-local-offer"
                 /\ r.s.epoch = s.epoch /\ r.s.sig = "stable" /\ r.s.settled = m.tag
                 /\ r.s.offer = s.offer /\ r.s.offers = s.offers /\ r.out = <<>>
                 /\ r.s.sending = s.sending /\ r.s.conn = s.conn /\ r.s.need = s.need
<1>0. /\ s.epoch \in Nat /\ s.epoch + 1 \in Nat /\ s.epoch + 1 > s.epoch
      /\ m.tag \in Tag
  BY ItemFields DEF PeerState
<1>1. CASE m.kind = "offer" /\ (p = Answerer \/ s.sig = "stable")
  <2>1. CASE applied
    <3>1. ApplyDescription(p, s, m, applied) = Answer(s, m)
      BY <1>1, <2>1 DEF ApplyDescription
    <3> QED BY <1>0, <1>1, <3>1, AnswerGives
  <2>2. CASE ~applied
    <3>1. ApplyDescription(p, s, m, applied) = RebuildTo(p, s, s.epoch + 1, TRUE)
      BY <1>1, <2>2 DEF ApplyDescription
    <3>2. /\ Typed(RebuildTo(p, s, s.epoch + 1, TRUE))
          /\ Rest(s, RebuildTo(p, s, s.epoch + 1, TRUE).s)
          /\ LET r == RebuildTo(p, s, s.epoch + 1, TRUE) IN
             \/ Unmoved(s, r.s) /\ r.out = <<>>
             \/ /\ s.epoch + 1 > s.epoch /\ r.s.epoch = s.epoch + 1 /\ r.s.settled = None
                /\ r.s.conn = "new" /\ ~r.s.need
                /\ HasOffered(p, r.s, r.out) /\ r.s.sending = s.track
      <4> DEFINE e == s.epoch + 1
      <4>1. e \in Nat
        BY <1>0
      <4> HIDE DEF e
      <4>2. /\ Typed(RebuildTo(p, s, e, TRUE))
            /\ Rest(s, RebuildTo(p, s, e, TRUE).s)
            /\ LET r == RebuildTo(p, s, e, TRUE) IN
               \/ Unmoved(s, r.s) /\ r.out = <<>>
               \/ /\ e > s.epoch /\ r.s.epoch = e /\ r.s.settled = None
                  /\ r.s.conn = "new" /\ ~r.s.need
                  /\ HasOffered(p, r.s, r.out) /\ r.s.sending = s.track
        <5>1. \A i \in BOOLEAN : LET r == RebuildTo(p, s, e, i) IN
                /\ Typed(r) /\ Rest(s, r.s)
                /\ \/ Unmoved(s, r.s) /\ r.out = <<>>
                   \/ /\ e > s.epoch /\ r.s.epoch = e /\ r.s.settled = None
                      /\ r.s.conn = "new" /\ ~r.s.need
                      /\ i => HasOffered(p, r.s, r.out) /\ r.s.sending = s.track
          BY <4>1, RebuildToGives
        <5> QED BY <5>1
      <4> QED BY <4>2 DEF e
    <3> QED BY <1>0, <1>1, <3>1, <3>2
  <2> QED BY <2>1, <2>2
<1>2. CASE m.kind = "answer" /\ s.sig = "have-local-offer"
  <2> DEFINE tag == m.tag
             t == [s EXCEPT !.sig = "stable", !.settled = tag]
  <2>1. ApplyDescription(p, s, m, applied) = [s |-> t, out |-> <<>>]
    BY <1>2 DEF ApplyDescription, Silently
  <2>2. /\ t \in PeerState
        /\ t.joined = s.joined /\ t.track = s.track /\ t.epoch = s.epoch /\ t.sig = "stable"
        /\ t.settled = tag /\ t.offer = s.offer /\ t.offers = s.offers
        /\ t.sending = s.sending /\ t.conn = s.conn /\ t.need = s.need
    <3>1. tag \in Tag
      BY <1>0
    <3> HIDE DEF tag
    <3> QED BY <3>1 DEF PeerState
  <2> HIDE DEF t, tag
  <2>3. Typed(ApplyDescription(p, s, m, applied)) /\ Rest(s, ApplyDescription(p, s, m, applied).s)
    BY <2>1, <2>2 DEF Typed, Rest
  <2> QED BY <1>2, <2>1, <2>2, <2>3 DEF tag
<1>3. CASE /\ ~(m.kind = "offer" /\ (p = Answerer \/ s.sig = "stable"))
           /\ ~(m.kind = "answer" /\ s.sig = "have-local-offer")
  <2>1. ApplyDescription(p, s, m, applied) = [s |-> s, out |-> <<>>]
    BY <1>3 DEF ApplyDescription, Silently
  <2> QED BY <2>1 DEF Typed, Rest, Unmoved, SameExchange
<1> QED BY <1>1, <1>2, <1>3

\* A signal that is not an answer of a later generation does one of four things.
LEMMA ProcessGives ==
    ASSUME NEW p \in Peer, NEW s \in PeerState, NEW m \in Item,
           m.kind \in {"offer", "answer", "candidate"}, NEW applied \in BOOLEAN,
           m.kind = "answer" => m.epoch <= s.epoch
    PROVE  LET r == Process(p, s, m, applied) IN
           /\ Typed(r) /\ Rest(s, r.s) /\ Sends(s, r.s)
           /\ LaidOut(s) /\ (m.kind # "candidate" => m.tag # None) => LaidOut(r.s)
           /\ \/ SameExchange(s, r.s) /\ r.out = <<>>
              \/ Begins(p, s, r.s, r.out)
              \/ Answering(p, s, r.s, m, r.out)
              \/ Completing(s, r.s, m, r.out)
<1> DEFINE r == Process(p, s, m, applied)
           f == RebuildTo(p, s, m.epoch, m.kind # "offer")
           d == ApplyDescription(p, f.s, m, applied)
<1>0. s.epoch \in Nat /\ m.epoch \in Nat /\ m.tag \in Tag
  BY ItemFields DEF PeerState
<1>1. CASE m.epoch < s.epoch
  <2>1. r = [s |-> s, out |-> <<>>]
    BY <1>1 DEF Process, Silently
  <2> QED BY <2>1 DEF Typed, Rest, Sends, SameExchange
<1>2. CASE ~(m.epoch < s.epoch)
  <2>1. r = [s |-> d.s, out |-> f.out \o d.out]
    BY <1>2 DEF Process
  <2>2. /\ Typed(f) /\ Rest(s, f.s)
        /\ \/ Unmoved(s, f.s) /\ f.out = <<>>
           \/ /\ m.epoch > s.epoch /\ f.s.epoch = m.epoch /\ f.s.settled = None
              /\ f.s.conn = "new" /\ ~f.s.need
              /\ IF m.kind # "offer" THEN HasOffered(p, f.s, f.out) /\ f.s.sending = s.track
                 ELSE f.s.sig = "stable" /\ f.out = <<>> /\ f.s.sending = NoSender
    <3> DEFINE initiate == m.kind # "offer"
    <3>1. initiate \in BOOLEAN
      OBVIOUS
    <3> HIDE DEF initiate
    <3>2. LET g == RebuildTo(p, s, m.epoch, initiate) IN
          /\ Typed(g) /\ Rest(s, g.s)
          /\ \/ Unmoved(s, g.s) /\ g.out = <<>>
             \/ /\ m.epoch > s.epoch /\ g.s.epoch = m.epoch /\ g.s.settled = None
                /\ g.s.conn = "new" /\ ~g.s.need
                /\ IF initiate THEN HasOffered(p, g.s, g.out) /\ g.s.sending = s.track
                   ELSE g.s.sig = "stable" /\ g.out = <<>> /\ g.s.sending = NoSender
      BY <1>0, <3>1, RebuildToGives
    <3> QED BY <3>2 DEF initiate
  <2>3. f.s \in PeerState /\ f.out \in Seq(Item)
    BY <2>2 DEF Typed
  <2>4. /\ Typed(d) /\ Rest(f.s, d.s)
        /\ \/ Unmoved(f.s, d.s) /\ d.out = <<>>
           \/ /\ m.kind = "offer" /\ d.s.epoch > f.s.epoch /\ d.s.settled = None
              /\ HasOffered(p, d.s, d.out)
              /\ d.s.conn = "new" /\ ~d.s.need /\ d.s.sending = f.s.track
           \/ /\ m.kind = "offer" /\ (p = Answerer \/ f.s.sig = "stable")
              /\ d = Answer(f.s, m)
           \/ /\ m.kind = "answer" /\ f.s.sig = "have-local-offer"
              /\ d.s.epoch = f.s.epoch /\ d.s.sig = "stable" /\ d.s.settled = m.tag
              /\ d.s.offer = f.s.offer /\ d.s.offers = f.s.offers /\ d.out = <<>>
              /\ d.s.sending = f.s.sending /\ d.s.conn = f.s.conn /\ d.s.need = f.s.need
    BY <2>3, ApplyDescriptionGives
  <2>5. d.s \in PeerState /\ d.out \in Seq(Item)
    BY <2>4 DEF Typed
  <2>6. d = Answer(f.s, m) =>
          /\ d.s.epoch = f.s.epoch /\ d.s.sig = "stable" /\ d.s.offers = f.s.offers
          /\ d.s.settled = m.tag /\ d.s.conn = f.s.conn /\ ~d.s.need
          /\ d.s.sending = f.s.track
          /\ d.out = <<Message("answer", f.s.epoch, m.tag)>>
    BY <1>0, <2>3, AnswerGives
  <2> HIDE DEF f, d, r
  <2>7. r.s = d.s /\ r.out = f.out \o d.out
    BY <2>1
  <2>8. Typed(r) /\ Rest(s, r.s)
    <3>1. Rest(s, r.s)
      BY <2>2, <2>4, <2>7 DEF Rest
    <3>2. f.out \o d.out \in Seq(Item)
      BY <2>3, <2>5
    <3> QED BY <2>5, <2>7, <3>1, <3>2 DEF Typed
  <2>9. s.track \in 0..MaxToggles /\ s.track # NoSender /\ f.s.track = s.track
    BY <2>2, NoSenderTyped DEF PeerState, Rest
  <2>10. Sends(s, r.s)
    BY <2>2, <2>4, <2>6, <2>7, <2>9 DEF Sends, Unmoved
  <2>11. ASSUME LaidOut(s), m.kind # "candidate" => m.tag # None PROVE LaidOut(r.s)
    <3>1. LaidOut(f.s)
      BY <2>2, <2>9, <2>11 DEF LaidOut, Unmoved, SameExchange, HasOffered
    <3>2. CASE Unmoved(f.s, d.s)
      BY <2>7, <3>1, <3>2 DEF LaidOut, Unmoved, SameExchange
    <3>3. CASE d.s.conn = "new" /\ d.s.sending = f.s.track
      BY <2>7, <2>9, <3>3 DEF LaidOut
    <3>4. CASE m.kind = "offer" /\ d = Answer(f.s, m)
      BY <2>6, <2>7, <2>9, <2>11, <3>4 DEF LaidOut
    <3>5. CASE /\ m.kind = "answer" /\ f.s.sig = "have-local-offer" /\ d.s.settled = m.tag
               /\ d.s.sending = f.s.sending /\ d.s.conn = f.s.conn
      BY <2>7, <2>11, <3>1, <3>5 DEF LaidOut
    <3> QED BY <2>4, <3>2, <3>3, <3>4, <3>5
  <2>12. f.out = <<>> => r.out = d.out
    BY <2>5, <2>7
  <2>13. d.out = <<>> => r.out = f.out
    BY <2>3, <2>7
  <2> DEFINE done == \/ SameExchange(s, r.s) /\ r.out = <<>>
                     \/ Begins(p, s, r.s, r.out)
                     \/ Answering(p, s, r.s, m, r.out)
                     \/ Completing(s, r.s, m, r.out)
  <2>14. ASSUME Unmoved(s, f.s) /\ f.out = <<>> PROVE done
    <3>1. /\ f.s.epoch = s.epoch /\ f.s.sig = s.sig /\ f.s.offer = s.offer
          /\ f.s.offers = s.offers /\ f.s.settled = s.settled /\ r.out = d.out
      BY <2>12, <2>14 DEF Unmoved, SameExchange
    <3>2. CASE Unmoved(f.s, d.s) /\ d.out = <<>>
      BY <2>7, <3>1, <3>2 DEF Unmoved, SameExchange
    <3>3. CASE d.s.epoch > f.s.epoch /\ d.s.settled = None /\ HasOffered(p, d.s, d.out)
      BY <2>7, <3>1, <3>3 DEF Begins, HasOffered
    <3>4. CASE /\ m.kind = "offer" /\ (p = Answerer \/ f.s.sig = "stable")
               /\ d = Answer(f.s, m)
      BY <1>0, <1>2, <2>6, <2>7, <3>1, <3>4 DEF Answering
    <3>5. CASE /\ m.kind = "answer" /\ f.s.sig = "have-local-offer"
               /\ d.s.epoch = f.s.epoch /\ d.s.sig = "stable" /\ d.s.settled = m.tag
               /\ d.s.offer = f.s.offer /\ d.s.offers = f.s.offers /\ d.out = <<>>
      BY <1>0, <1>2, <2>7, <3>1, <3>5 DEF Completing
    <3> QED BY <2>4, <3>2, <3>3, <3>4, <3>5
  <2>15. ASSUME m.epoch > s.epoch /\ f.s.epoch = m.epoch /\ f.s.settled = None,
                IF m.kind # "offer" THEN HasOffered(p, f.s, f.out)
                ELSE f.s.sig = "stable" /\ f.out = <<>>
         PROVE done
    <3>1. m.kind # "answer"
      BY <1>0, <2>15
    <3>2. Begins(p, s, f.s, f.out)
      BY <2>15 DEF Begins
    <3>3. CASE Unmoved(f.s, d.s) /\ d.out = <<>>
      <4>1. r.out = f.out
        BY <2>13, <3>3
      <4> QED BY <2>7, <3>2, <3>3, <4>1
              DEF Begins, HasOffered, OfferItems, Unmoved, SameExchange
    <3>4. CASE /\ m.kind = "offer" /\ d.s.epoch > f.s.epoch /\ d.s.settled = None
               /\ HasOffered(p, d.s, d.out)
      <4>1. r.out = d.out
        BY <2>12, <2>15, <3>4
      <4>2. d.s.epoch > s.epoch
        BY <1>0, <2>3, <2>5, <2>15, <3>4 DEF PeerState
      <4> QED BY <2>7, <3>4, <4>1, <4>2 DEF Begins, HasOffered
    <3>5. CASE m.kind = "offer" /\ d = Answer(f.s, m)
      <4>1. r.out = d.out
        BY <2>12, <2>15, <3>5
      <4>2. /\ r.s.epoch = m.epoch /\ r.s.sig = "stable" /\ r.s.settled = m.tag
            /\ r.out = <<Message("answer", r.s.epoch, m.tag)>>
        BY <2>6, <2>7, <2>15, <3>5, <4>1
      <4>3. r.s.epoch >= s.epoch /\ m.epoch >= r.s.epoch /\ r.s.epoch # s.epoch
        BY <1>0, <2>15, <4>2
      <4>4. Answering(p, s, r.s, m, r.out)
        BY <3>5, <4>2, <4>3 DEF Answering
      <4> QED BY <4>4
    <3> QED BY <2>4, <3>1, <3>3, <3>4, <3>5
  <2>16. done
    BY <2>2, <2>14, <2>15
  <2> QED BY <2>8, <2>10, <2>11, <2>16 DEF r
<1> QED BY <1>1, <1>2

\* What a signal that leaves a peer of state s as it is was: an offer or an answer of an
\* older generation, an offer that the impolite peer ignores, or a late answer.
Idle(p, s, m) ==
    /\ m.kind = "offer" =>
         m.epoch < s.epoch \/ (m.epoch = s.epoch /\ p # Answerer /\ s.sig # "stable")
    /\ m.kind = "answer" => m.epoch < s.epoch \/ s.sig # "have-local-offer"

\* A peer that may rebuild no more says so.
LEMMA RebuildToEnds ==
    ASSUME NEW p \in Peer, NEW s \in PeerState, NEW e \in Nat, NEW initiate \in BOOLEAN
    PROVE  LET r == RebuildTo(p, s, e, initiate) IN
           /\ e <= s.epoch => r = Silently(s)
           /\ e > s.epoch /\ s.rebuilds >= MaxRebuilds =>
                /\ r.s.gaveUp /\ r.s.rebuilds = s.rebuilds /\ r.s.epoch = s.epoch
                /\ r.s \in PeerState
           /\ e > s.epoch /\ ~(s.rebuilds >= MaxRebuilds) =>
                /\ Typed(r) /\ r.s.epoch = e /\ r.s.settled = None
                /\ IF initiate THEN HasOffered(p, r.s, r.out)
                   ELSE r.s.sig = "stable" /\ r.out = <<>>
<1>0. s.epoch \in Nat /\ s.rebuilds \in 0..MaxRebuilds /\ MaxRebuilds \in Nat
  BY PeersAssumption DEF PeerState
<1>1. CASE e <= s.epoch
  BY <1>0, <1>1 DEF RebuildTo
<1>2. CASE e > s.epoch /\ s.rebuilds >= MaxRebuilds
  <2> DEFINE t == [s EXCEPT !.gaveUp = TRUE]
  <2>1. RebuildTo(p, s, e, initiate) = [s |-> t, out |-> <<>>]
    BY <1>0, <1>2 DEF RebuildTo, Silently
  <2>2. t.gaveUp /\ t.rebuilds = s.rebuilds /\ t.epoch = s.epoch /\ t \in PeerState
    BY DEF PeerState
  <2> HIDE DEF t
  <2> QED BY <1>0, <1>2, <2>1, <2>2
<1>3. CASE e > s.epoch /\ ~(s.rebuilds >= MaxRebuilds)
  <2> DEFINE n == s.rebuilds + 1
             t == [s EXCEPT !.epoch = e, !.rebuilds = n]
  <2>1. RebuildTo(p, s, e, initiate) = CreatePeer(p, t, initiate)
    BY <1>0, <1>3 DEF RebuildTo
  <2>2. n \in 0..MaxRebuilds
    BY <1>0, <1>3
  <2>3. t \in PeerState /\ t.epoch = e
    <3> HIDE DEF n
    <3> QED BY <2>2 DEF PeerState
  <2> HIDE DEF t
  <2>4. LET r == CreatePeer(p, t, initiate) IN
        /\ Typed(r) /\ r.s.epoch = e /\ r.s.settled = None
        /\ IF initiate THEN HasOffered(p, r.s, r.out)
           ELSE r.s.sig = "stable" /\ r.out = <<>>
    BY <2>3, CreatePeerGives
  <2> QED BY <1>0, <1>3, <2>1, <2>4
<1> QED BY <1>0, <1>1, <1>2, <1>3

\* A peer that has given up over a signal has still done so when it is done with it.
LEMMA GivenUpStays ==
    ASSUME NEW p \in Peer, NEW s \in PeerState, NEW m \in Item,
           m.kind \in {"offer", "answer", "candidate"}, NEW applied \in BOOLEAN,
           s.gaveUp, s.rebuilds >= MaxRebuilds
    PROVE  ApplyDescription(p, s, m, applied).s.gaveUp
<1>1. s.epoch + 1 \in Nat /\ s.epoch + 1 > s.epoch
  BY DEF PeerState
<1>2. RebuildTo(p, s, s.epoch + 1, TRUE).s.gaveUp
  <2> DEFINE e == s.epoch + 1
  <2>1. e \in Nat /\ e > s.epoch
    BY <1>1
  <2> HIDE DEF e
  <2>2. RebuildTo(p, s, e, TRUE).s.gaveUp
    BY <2>1, RebuildToEnds
  <2> QED BY <2>2 DEF e
<1>3. Answer(s, m).s.gaveUp
  BY DEF Answer, PeerState
<1>4. Silently(s).s.gaveUp /\ Silently([s EXCEPT !.sig = "stable", !.settled = m.tag]).s.gaveUp
  BY DEF Silently, PeerState
<1> QED BY <1>2, <1>3, <1>4 DEF ApplyDescription

\* What a signal does to a peer that does not give up over it.
LEMMA ProcessLands ==
    ASSUME NEW p \in Peer, NEW s \in PeerState, NEW m \in Item,
           m.kind \in {"offer", "answer", "candidate"}, NEW applied \in BOOLEAN,
           m.kind = "answer" => m.epoch <= s.epoch,
           applied \/ MayRefuse(s, m), ~Process(p, s, m, applied).s.gaveUp
    PROVE  LET r == Process(p, s, m, applied) IN
           \/ SameExchange(s, r.s) /\ r.out = <<>> /\ Idle(p, s, m)
           \/ /\ r.s.epoch > s.epoch /\ r.s.settled = None /\ HasOffered(p, r.s, r.out)
              /\ m.kind = "offer" => m.epoch = s.epoch
           \/ Answering(p, s, r.s, m, r.out) /\ r.s.epoch = m.epoch
           \/ Completing(s, r.s, m, r.out)
<1> DEFINE r == Process(p, s, m, applied)
           initiate == m.kind # "offer"
           f == RebuildTo(p, s, m.epoch, initiate)
           d == ApplyDescription(p, f.s, m, applied)
<1>0. s.epoch \in Nat /\ m.epoch \in Nat /\ m.tag \in Tag /\ initiate \in BOOLEAN
  BY ItemFields DEF PeerState
<1>i. (m.kind = "offer" => ~initiate) /\ (m.kind = "candidate" => initiate)
  OBVIOUS
<1>1. CASE m.epoch < s.epoch
  <2>1. r = [s |-> s, out |-> <<>>]
    BY <1>1 DEF Process, Silently
  <2> QED BY <1>1, <2>1 DEF SameExchange, Idle
<1>a. ~(m.epoch < s.epoch) => r = [s |-> d.s, out |-> f.out \o d.out]
  BY DEF Process
<1>b. ~(m.epoch < s.epoch) => r.s = d.s
  BY DEF Process
<1> HIDE DEF initiate
<1>2. CASE m.epoch = s.epoch
  <2>1. f = [s |-> s, out |-> <<>>]
    BY <1>0, <1>2, RebuildToEnds DEF Silently
  <2>2. d = ApplyDescription(p, s, m, applied)
    BY <2>1
  <2>3. Typed(d)
    BY <2>2, ApplyDescriptionGives
  <2> HIDE DEF f, d, r
  <2>4. r.s = d.s /\ r.out = d.out
    BY <1>0, <1>2, <1>a, <2>1, <2>3 DEF Typed
  <2>5. CASE m.kind = "offer" /\ (p = Answerer \/ s.sig = "stable") /\ applied
    <3>1. d = Answer(s, m)
      BY <2>2, <2>5 DEF ApplyDescription
    <3>2. /\ d.s.epoch = s.epoch /\ d.s.sig = "stable" /\ d.s.offers = s.offers
          /\ d.s.settled = m.tag /\ d.out = <<Message("answer", s.epoch, m.tag)>>
      BY <1>0, <3>1, AnswerGives
    <3> QED BY <1>0, <1>2, <2>4, <2>5, <3>2 DEF Answering, r
  <2>6. CASE m.kind = "offer" /\ (p = Answerer \/ s.sig = "stable") /\ ~applied
    <3> DEFINE e == s.epoch + 1
    <3>1. d = RebuildTo(p, s, e, TRUE)
      BY <2>2, <2>6 DEF ApplyDescription
    <3>2. e \in Nat /\ e > s.epoch
      BY <1>0
    <3> HIDE DEF e
    <3>3. ~d.s.gaveUp
      BY <2>4 DEF r
    <3>4. \A i \in BOOLEAN : LET x == RebuildTo(p, s, e, i) IN
            \/ x.s.gaveUp
            \/ /\ x.s.epoch = e /\ x.s.settled = None
               /\ i => HasOffered(p, x.s, x.out)
      BY <3>2, RebuildToEnds
    <3>5. d.s.epoch = e /\ d.s.settled = None /\ HasOffered(p, d.s, d.out)
      BY <3>1, <3>3, <3>4
    <3> QED BY <1>2, <2>4, <3>2, <3>5 DEF r
  <2>7. CASE m.kind = "answer" /\ s.sig = "have-local-offer"
    <3> DEFINE tag == m.tag
               t == [s EXCEPT !.sig = "stable", !.settled = tag]
    <3>1. d = [s |-> t, out |-> <<>>]
      BY <2>2, <2>7 DEF ApplyDescription, Silently
    <3>2. /\ t.epoch = s.epoch /\ t.sig = "stable" /\ t.settled = tag /\ t.offer = s.offer
          /\ t.offers = s.offers
      BY DEF PeerState
    <3> HIDE DEF t
    <3> QED BY <1>2, <2>4, <2>7, <3>1, <3>2 DEF Completing, r
  <2>8. CASE /\ ~(m.kind = "offer" /\ (p = Answerer \/ s.sig = "stable"))
             /\ ~(m.kind = "answer" /\ s.sig = "have-local-offer")
    <3>1. d = [s |-> s, out |-> <<>>]
      BY <2>2, <2>8 DEF ApplyDescription, Silently
    <3> QED BY <1>2, <2>4, <2>8, <3>1 DEF SameExchange, Idle, r
  <2> QED BY <2>5, <2>6, <2>7, <2>8
<1>3. CASE m.epoch > s.epoch
  <2>1. m.kind # "answer"
    BY <1>0, <1>3
  <2>2. ~(s.rebuilds >= MaxRebuilds)
    <3> SUFFICES ASSUME s.rebuilds >= MaxRebuilds PROVE FALSE
      OBVIOUS
    <3>1. f.s.gaveUp /\ f.s.rebuilds >= MaxRebuilds /\ f.s \in PeerState
      BY <1>0, <1>3, RebuildToEnds
    <3> HIDE DEF f
    <3>2. d.s.gaveUp
      BY <3>1, GivenUpStays
    <3> HIDE DEF d, r
    <3>3. r.s = d.s
      BY <1>0, <1>3, <1>b
    <3> QED BY <3>2, <3>3 DEF r
  <2>3. applied
    BY <1>0, <1>3, <2>2 DEF MayRefuse
  <2>4. /\ Typed(f) /\ f.s.epoch = m.epoch /\ f.s.settled = None
        /\ IF initiate THEN HasOffered(p, f.s, f.out) ELSE f.s.sig = "stable" /\ f.out = <<>>
    BY <1>0, <1>3, <2>2, RebuildToEnds
  <2>5. f.s \in PeerState /\ f.out \in Seq(Item)
    BY <2>4 DEF Typed
  <2> HIDE DEF f, r
  <2>6. CASE m.kind = "offer"
    <3>1. d = Answer(f.s, m)
      BY <1>i, <2>3, <2>4, <2>6 DEF ApplyDescription
    <3>2. /\ d.s.epoch = f.s.epoch /\ d.s.sig = "stable" /\ d.s.settled = m.tag
          /\ d.out = <<Message("answer", f.s.epoch, m.tag)>> /\ Typed(d)
      BY <1>0, <2>5, <3>1, AnswerGives
    <3> HIDE DEF d
    <3>3. r.s = d.s /\ r.out = d.out
      BY <1>0, <1>3, <1>a, <1>i, <2>4, <2>6, <3>2 DEF Typed
    <3>4. /\ r.s.epoch = m.epoch /\ r.s.sig = "stable" /\ r.s.settled = m.tag
          /\ r.out = <<Message("answer", r.s.epoch, m.tag)>>
      BY <2>4, <3>2, <3>3
    <3>5. r.s.epoch >= s.epoch /\ m.epoch >= r.s.epoch /\ r.s.epoch # s.epoch
      BY <1>0, <1>3, <3>4
    <3> QED BY <2>6, <3>4, <3>5 DEF Answering, r
  <2>7. CASE m.kind = "candidate"
    <3>1. d = [s |-> f.s, out |-> <<>>]
      BY <2>7 DEF ApplyDescription, Silently
    <3> HIDE DEF d
    <3>2. r.s = f.s /\ r.out = f.out
      BY <1>0, <1>3, <1>a, <2>5, <3>1
    <3>3. HasOffered(p, f.s, f.out)
      BY <1>i, <2>4, <2>7
    <3> QED BY <1>0, <1>3, <2>4, <2>7, <3>2, <3>3 DEF r
  <2> QED BY <2>1, <2>6, <2>7
<1> QED BY <1>0, <1>1, <1>2, <1>3

-----------------------------------------------------------------------------
(* What a step does to the signals under way.                               *)

Signals(s) == {i \in DOMAIN s : s[i].kind \in {"offer", "answer"}}

\* The signals of t are those of s behind place `from`, in the same order, and then `new`.
Carries(s, t, from, new) ==
    \E f \in [Nat -> Nat] :
        /\ \A i \in Signals(t) :
             /\ f[i] > from
             /\ \/ f[i] \in Signals(s) /\ t[i] = s[f[i]]
                \/ f[i] = Len(s) + 1 /\ t[i] = new
        /\ \A i, j \in Signals(t) : i < j => f[i] < f[j]

\* No signal.
NoSignal == [kind |-> "rebuild"]

LEMMA CarriesSame ==
    ASSUME NEW s \in Seq(Item), NEW new
    PROVE  Carries(s, s, 0, new)
<1> DEFINE f == [i \in Nat |-> i]
<1>1. f \in [Nat -> Nat] /\ \A i \in Nat : f[i] = i
  OBVIOUS
<1>2. \A i \in Signals(s) : i \in Nat /\ i > 0
  BY DEF Signals
<1> HIDE DEF f
<1> QED BY <1>1, <1>2 DEF Carries

LEMMA CarriesTail ==
    ASSUME NEW s \in Seq(Item), s # <<>>, NEW new
    PROVE  Carries(s, Tail(s), 1, new)
<1> DEFINE f == [i \in Nat |-> i + 1]
           t == Tail(s)
<1>1. f \in [Nat -> Nat] /\ \A i \in Nat : f[i] = i + 1
  OBVIOUS
<1>2. \A i \in DOMAIN t : /\ i \in Nat /\ i > 0 /\ i + 1 \in DOMAIN s /\ t[i] = s[i + 1]
  OBVIOUS
<1> HIDE DEF f, t
<1>3. \A i \in Signals(t) : /\ i \in Nat /\ i > 0 /\ i + 1 \in Signals(s) /\ t[i] = s[i + 1]
  BY <1>2 DEF Signals
<1>4. \A i \in Signals(t) : f[i] > 1 /\ f[i] \in Signals(s) /\ t[i] = s[f[i]]
  <2> SUFFICES ASSUME NEW i \in Signals(t)
               PROVE  f[i] > 1 /\ f[i] \in Signals(s) /\ t[i] = s[f[i]]
    OBVIOUS
  <2>1. i \in Nat /\ i > 0 /\ i + 1 \in Signals(s) /\ t[i] = s[i + 1]
    BY <1>3
  <2>2. f[i] = i + 1 /\ i + 1 > 1
    BY <1>1, <2>1
  <2> QED BY <2>1, <2>2
<1>5. \A i, j \in Signals(t) : i < j => f[i] < f[j]
  BY <1>1, <1>3
<1>6. Carries(s, t, 1, new)
  BY <1>1, <1>4, <1>5 DEF Carries
<1> QED BY <1>6 DEF t

\* Nothing new comes with what is no signal.
LEMMA CarriesMore ==
    ASSUME NEW s \in Seq(Item), NEW x \in Item, x.kind \notin {"offer", "answer"}, NEW new
    PROVE  Carries(s, Append(s, x), 0, new)
<1> DEFINE f == [i \in Nat |-> i]
           t == Append(s, x)
<1>1. f \in [Nat -> Nat] /\ \A i \in Nat : f[i] = i
  OBVIOUS
<1>2. \A i \in DOMAIN t : /\ i \in Nat /\ i > 0
                          /\ \/ i \in DOMAIN s /\ t[i] = s[i]
                             \/ t[i] = x
  OBVIOUS
<1> HIDE DEF f, t
<1>3. \A i \in Signals(t) : i \in Nat /\ i > 0 /\ i \in Signals(s) /\ t[i] = s[i]
  BY <1>2 DEF Signals
<1>6. Carries(s, t, 0, new)
  BY <1>1, <1>3 DEF Carries
<1> QED BY <1>6 DEF t

\* Where the items are after one was put behind the first k.
LEMMA InsertShape ==
    ASSUME NEW s \in Seq(Item), NEW x \in Item, NEW k \in 0..Len(s)
    PROVE  /\ InsertAt(s, k + 1, x) \in Seq(Item)
           /\ Len(InsertAt(s, k + 1, x)) = Len(s) + 1
           /\ \A i \in 1..Len(s) + 1 :
                InsertAt(s, k + 1, x)[i]
                  = IF i <= k THEN s[i] ELSE IF i = k + 1 THEN x ELSE s[i - 1]
<1> DEFINE n == Len(s)
           a == SubSeq(s, 1, k)
           b == SubSeq(s, k + 1, n)
           ax == a \o <<x>>
           t == ax \o b
<1>0. n \in Nat /\ k \in Nat /\ k <= n /\ DOMAIN s = 1..n /\ \A i \in 1..n : s[i] \in Item
  OBVIOUS
<1>1. InsertAt(s, k + 1, x) = t
  <2> DEFINE m == k + 1
  <2>1. InsertAt(s, m, x) = SubSeq(s, 1, m - 1) \o <<x>> \o SubSeq(s, m, Len(s))
    BY DEF InsertAt
  <2>2. m - 1 = k
    BY <1>0
  <2>3. InsertAt(s, m, x) = SubSeq(s, 1, k) \o <<x>> \o SubSeq(s, m, Len(s))
    <3> HIDE DEF m
    <3> QED BY <2>1, <2>2
  <2> QED BY <2>3
<1>2. a \in Seq(Item) /\ Len(a) = k /\ \A i \in 1..k : a[i] = s[i]
  BY <1>0
<1>3. b \in Seq(Item) /\ Len(b) = n - k /\ \A i \in 1..n - k : b[i] = s[k + i]
  <2>1. /\ b \in Seq(Item) /\ Len(b) = n - k
        /\ \A i \in 1..n - k : b[i] = s[k + 1 + i - 1]
    <3> DEFINE m == k + 1
    <3>1. m \in Int /\ n \in Int /\ (\A i \in m..n : s[i] \in Item) /\ n - m + 1 = n - k
      BY <1>0
    <3>2. m <= n \/ n - k = 0
      <4>1. n \in Nat /\ k \in Nat /\ k <= n
        BY <1>0
      <4> HIDE DEF n
      <4> QED BY <4>1
    <3> HIDE DEF m, n
    <3>3. /\ SubSeq(s, m, n) \in Seq(Item)
          /\ Len(SubSeq(s, m, n)) = IF m <= n THEN n - m + 1 ELSE 0
          /\ \A i \in 1..n - m + 1 : SubSeq(s, m, n)[i] = s[m + i - 1]
      BY <3>1, SubSeqProperties
    <3>4. /\ SubSeq(s, m, n) \in Seq(Item) /\ Len(SubSeq(s, m, n)) = n - k
          /\ \A i \in 1..n - k : SubSeq(s, m, n)[i] = s[m + i - 1]
      BY <3>1, <3>2, <3>3
    <3> QED BY <3>4 DEF m
  <2>2. \A i \in 1..n - k : k + 1 + i - 1 = k + i
    BY <1>0
  <2> QED BY <2>1, <2>2
<1> HIDE DEF a, b, n
<1>4. ax \in Seq(Item) /\ Len(ax) = k + 1 /\ ax[k + 1] = x /\ \A i \in 1..k : ax[i] = s[i]
  BY <1>0, <1>2
<1> HIDE DEF ax
<1>5. /\ t \in Seq(Item) /\ Len(t) = n + 1
      /\ \A i \in 1..k + 1 : t[i] = ax[i]
      /\ \A i \in 1..n - k : t[k + 1 + i] = b[i]
  <2>1. /\ t \in Seq(Item) /\ Len(t) = Len(ax) + Len(b)
        /\ \A i \in 1..Len(ax) + Len(b) :
              t[i] = IF i <= Len(ax) THEN ax[i] ELSE b[i - Len(ax)]
    BY <1>3, <1>4, ConcatProperties
  <2> HIDE DEF t
  <2>2. Len(t) = n + 1 /\ \A i \in 1..k + 1 : t[i] = ax[i]
    BY <1>0, <1>3, <1>4, <2>1
  <2>3. ASSUME NEW i \in 1..n - k PROVE t[k + 1 + i] = b[i]
    <3>1. /\ k + 1 + i \in 1..Len(ax) + Len(b) /\ ~(k + 1 + i <= Len(ax))
          /\ k + 1 + i - Len(ax) = i
      BY <1>0, <1>3, <1>4
    <3> QED BY <2>1, <3>1
  <2> QED BY <2>1, <2>2, <2>3
<1>6. DOMAIN t = 1..n + 1
  BY <1>5
<1> HIDE DEF t
<1>7. \A i \in 1..n + 1 : t[i] = IF i <= k THEN s[i] ELSE IF i = k + 1 THEN x ELSE s[i - 1]
  <2> SUFFICES ASSUME NEW i \in 1..n + 1
               PROVE  t[i] = IF i <= k THEN s[i] ELSE IF i = k + 1 THEN x ELSE s[i - 1]
    OBVIOUS
  <2>1. CASE i <= k + 1
    BY <1>0, <1>4, <1>5, <2>1
  <2>2. CASE i > k + 1
    <3>1. i - k - 1 \in 1..n - k /\ k + 1 + (i - k - 1) = i /\ k + (i - k - 1) = i - 1
      BY <1>0, <2>2
    <3>2. t[i] = b[i - k - 1] /\ b[i - k - 1] = s[i - 1]
      BY <1>3, <1>5, <3>1
    <3> QED BY <1>0, <2>2, <3>2
  <2> QED BY <1>0, <2>1, <2>2
<1> QED BY <1>1, <1>5, <1>7 DEF n

LEMMA CarriesInsert ==
    ASSUME NEW s \in Seq(Item), NEW x \in Item, x.kind \notin {"offer", "answer"}, NEW new,
           NEW k \in 0..Len(s)
    PROVE  Carries(s, InsertAt(s, k + 1, x), 0, new)
<1> DEFINE n == Len(s)
           f == [i \in Nat |-> IF i <= k THEN i ELSE i - 1]
           t == InsertAt(s, k + 1, x)
<1>0. n \in Nat /\ k \in Nat /\ k <= n /\ DOMAIN s = 1..n
  OBVIOUS
<1>5. t \in Seq(Item) /\ Len(t) = n + 1
  BY InsertShape
<1>7. \A i \in 1..n + 1 : t[i] = IF i <= k THEN s[i] ELSE IF i = k + 1 THEN x ELSE s[i - 1]
  BY InsertShape
<1> HIDE DEF t, n
<1>6. DOMAIN t = 1..n + 1
  BY <1>5
<1>8. \A i \in Signals(t) : /\ i \in 1..n + 1 /\ i # k + 1
                            /\ i <= k => i \in Signals(s) /\ t[i] = s[i]
                            /\ i > k => i - 1 \in Signals(s) /\ t[i] = s[i - 1]
  BY <1>0, <1>6, <1>7 DEF Signals
<1>9. f \in [Nat -> Nat] /\ \A i \in Nat : f[i] = IF i <= k THEN i ELSE i - 1
  BY <1>0
<1> HIDE DEF f
<1>10. \A i \in Signals(t) : f[i] > 0 /\ f[i] \in Signals(s) /\ t[i] = s[f[i]]
  <2> SUFFICES ASSUME NEW i \in Signals(t)
               PROVE  f[i] > 0 /\ f[i] \in Signals(s) /\ t[i] = s[f[i]]
    OBVIOUS
  <2>1. i \in Nat /\ (i <= k \/ i > k) /\ i # k + 1 /\ i > 0
    BY <1>0, <1>8
  <2>2. CASE i <= k
    BY <1>8, <1>9, <2>1, <2>2
  <2>3. CASE i > k
    <3>1. i - 1 > 0
      BY <1>0, <2>1, <2>3
    <3>2. f[i] = i - 1
      BY <1>0, <1>9, <2>1, <2>3
    <3> QED BY <1>8, <2>3, <3>1, <3>2
  <2> QED BY <2>1, <2>2, <2>3
<1>11. \A i, j \in Signals(t) : i < j => f[i] < f[j]
  <2> SUFFICES ASSUME NEW i \in Signals(t), NEW j \in Signals(t), i < j PROVE f[i] < f[j]
    OBVIOUS
  <2>1. i \in Nat /\ j \in Nat /\ i # k + 1 /\ j # k + 1
    BY <1>0, <1>8
  <2>2. f[i] = (IF i <= k THEN i ELSE i - 1) /\ f[j] = IF j <= k THEN j ELSE j - 1
    BY <1>9, <2>1
  <2> QED BY <1>0, <2>1, <2>2
<1>12. Carries(s, t, 0, new)
  BY <1>9, <1>10, <1>11 DEF Carries
<1> QED BY <1>12 DEF t

\* What an operation sends brings at most one signal.
LEMMA CarriesOut ==
    ASSUME NEW s \in Seq(Item), NEW out \in Seq(Item), NEW new,
           \/ out = <<>>
           \/ out = <<new>>
           \/ \E c : out = <<new, c>> /\ c.kind = "candidate"
    PROVE  /\ Carries(s, s \o out, 0, new) /\ s \o out \in Seq(Item)
           /\ Len(s \o out) = Len(s) + Len(out)
           /\ \A i \in 1..Len(s) : (s \o out)[i] = s[i]
           /\ \A i \in 1..Len(out) : (s \o out)[Len(s) + i] = out[i]
<1> DEFINE f == [i \in Nat |-> i]
           t == s \o out
           n == Len(s)
<1>1. f \in [Nat -> Nat] /\ \A i \in Nat : f[i] = i
  OBVIOUS
<1>2. /\ t \in Seq(Item) /\ Len(t) = n + Len(out) /\ \A i \in 1..n : t[i] = s[i]
      /\ \A i \in 1..Len(out) : t[n + i] = out[i]
      /\ n \in Nat /\ DOMAIN s = 1..n /\ DOMAIN t = 1..Len(t)
  OBVIOUS
<1>3. /\ Len(out) \in {0, 1, 2} /\ (Len(out) >= 1 => out[1] = new)
      /\ (Len(out) = 2 => out[2].kind = "candidate")
  OBVIOUS
<1> HIDE DEF f, t, n
<1>4. \A i \in Signals(t) : \/ i \in Signals(s) /\ t[i] = s[i]
                            \/ i = n + 1 /\ t[i] = new
  <2> SUFFICES ASSUME NEW i \in Signals(t)
               PROVE  (i \in Signals(s) /\ t[i] = s[i]) \/ (i = n + 1 /\ t[i] = new)
    OBVIOUS
  <2>1. i \in 1..n + Len(out) /\ t[i].kind \in {"offer", "answer"}
    BY <1>2 DEF Signals
  <2>2. CASE i \in 1..n
    <3>1. t[i] = s[i] /\ i \in DOMAIN s
      BY <1>2, <2>2
    <3> QED BY <2>1, <3>1 DEF Signals
  <2>3. CASE i = n + 1
    BY <1>2, <1>3, <2>1, <2>3
  <2>4. CASE i = n + 2
    BY <1>2, <1>3, <2>1, <2>4
  <2> QED BY <1>2, <1>3, <2>1, <2>2, <2>3, <2>4
<1>5. \A i \in Signals(t) : i \in Nat /\ i > 0
  BY <1>2 DEF Signals
<1>6. Carries(s, t, 0, new)
  BY <1>1, <1>4, <1>5 DEF Carries, n
<1> QED BY <1>2, <1>6 DEF t, n

\* The signals of s behind place `from` are still in t, in the same order, and `new`, if it
\* is a signal, is behind all of them.
Brings(s, t, from, new) ==
    \E g \in [Nat -> Nat] :
        /\ \A i \in Signals(s) : i > from => g[i] \in Signals(t) /\ t[g[i]] = s[i]
        /\ \A i, j \in Signals(s) : from < i /\ i < j => g[i] < g[j]
        /\ new.kind \in {"offer", "answer"} =>
             \E k \in Signals(t) : /\ t[k] = new
                                   /\ \A i \in Signals(s) : i > from => g[i] < k

LEMMA BringsSame ==
    ASSUME NEW s \in Seq(Item)
    PROVE  Brings(s, s, 0, NoSignal)
<1> DEFINE g == [i \in Nat |-> i]
<1>1. g \in [Nat -> Nat] /\ \A i \in Nat : g[i] = i
  OBVIOUS
<1>2. \A i \in Signals(s) : i \in Nat
  BY DEF Signals
<1> HIDE DEF g
<1> QED BY <1>1, <1>2 DEF Brings, NoSignal

LEMMA BringsTail ==
    ASSUME NEW s \in Seq(Item), s # <<>>
    PROVE  Brings(s, Tail(s), 1, NoSignal)
<1> DEFINE g == [i \in Nat |-> IF i = 0 THEN 0 ELSE i - 1]
           t == Tail(s)
<1>1. g \in [Nat -> Nat] /\ \A i \in Nat : i > 1 => g[i] = i - 1
  OBVIOUS
<1>2. \A i \in DOMAIN s : i \in Nat /\ (i > 1 => i - 1 \in DOMAIN t /\ t[i - 1] = s[i])
  OBVIOUS
<1> HIDE DEF g, t
<1>3. \A i \in Signals(s) : i \in Nat /\ (i > 1 => i - 1 \in Signals(t) /\ t[i - 1] = s[i])
  BY <1>2 DEF Signals
<1>4. \A i \in Signals(s) : i > 1 => g[i] \in Signals(t) /\ t[g[i]] = s[i]
  BY <1>1, <1>3
<1>5. \A i, j \in Signals(s) : 1 < i /\ i < j => g[i] < g[j]
  <2> SUFFICES ASSUME NEW i \in Signals(s), NEW j \in Signals(s), 1 < i, i < j
               PROVE  g[i] < g[j]
    OBVIOUS
  <2>1. i \in Nat /\ j \in Nat /\ i > 1 /\ j > 1
    BY <1>3
  <2>2. g[i] = i - 1 /\ g[j] = j - 1
    BY <1>1, <2>1
  <2> QED BY <2>1, <2>2
<1>6. Brings(s, t, 1, NoSignal)
  BY <1>1, <1>4, <1>5 DEF Brings, NoSignal
<1> QED BY <1>6 DEF t

LEMMA BringsInsert ==
    ASSUME NEW s \in Seq(Item), NEW x \in Item, NEW k \in 0..Len(s)
    PROVE  Brings(s, InsertAt(s, k + 1, x), 0, NoSignal)
<1> DEFINE n == Len(s)
           g == [i \in Nat |-> IF i <= k THEN i ELSE i + 1]
           t == InsertAt(s, k + 1, x)
<1>0. n \in Nat /\ k \in Nat /\ k <= n /\ DOMAIN s = 1..n
  OBVIOUS
<1>1. t \in Seq(Item) /\ Len(t) = n + 1
  BY InsertShape
<1>2. \A i \in 1..n + 1 : t[i] = IF i <= k THEN s[i] ELSE IF i = k + 1 THEN x ELSE s[i - 1]
  BY InsertShape
<1>3. g \in [Nat -> Nat] /\ \A i \in Nat : g[i] = IF i <= k THEN i ELSE i + 1
  BY <1>0
<1> HIDE DEF t, n, g
<1>4. DOMAIN t = 1..n + 1
  BY <1>1
<1>5. \A i \in Signals(s) : i \in Nat /\ g[i] \in Signals(t) /\ t[g[i]] = s[i]
  <2> SUFFICES ASSUME NEW i \in Signals(s)
               PROVE  i \in Nat /\ g[i] \in Signals(t) /\ t[g[i]] = s[i]
    OBVIOUS
  <2>1. i \in 1..n /\ s[i].kind \in {"offer", "answer"}
    BY <1>0 DEF Signals
  <2>2. CASE i <= k
    <3>1. g[i] = i /\ i \in 1..n + 1
      BY <1>0, <1>3, <2>1, <2>2
    <3>2. t[i] = s[i]
      BY <1>2, <2>2, <3>1
    <3> QED BY <1>4, <2>1, <3>1, <3>2 DEF Signals
  <2>3. CASE ~(i <= k)
    <3>1. /\ g[i] = i + 1 /\ i + 1 \in 1..n + 1 /\ ~(i + 1 <= k) /\ i + 1 # k + 1
          /\ i + 1 - 1 = i
      BY <1>0, <1>3, <2>1, <2>3
    <3>2. PICK j : j = i + 1
      OBVIOUS
    <3>3. j \in 1..n + 1 /\ ~(j <= k) /\ j # k + 1 /\ j - 1 = i
      BY <1>0, <2>1, <2>3, <3>2
    <3>4. t[j] = s[j - 1]
      BY <1>2, <3>3
    <3>5. t[j] = s[i] /\ g[i] = j
      BY <3>1, <3>2, <3>3, <3>4
    <3> QED BY <1>4, <2>1, <3>3, <3>5 DEF Signals
  <2> QED BY <2>2, <2>3
<1>6. \A i, j \in Signals(s) : i < j => g[i] < g[j]
  <2> SUFFICES ASSUME NEW i \in Signals(s), NEW j \in Signals(s), i < j PROVE g[i] < g[j]
    OBVIOUS
  <2>1. i \in Nat /\ j \in Nat
    BY <1>5
  <2>2. g[i] = (IF i <= k THEN i ELSE i + 1) /\ g[j] = (IF j <= k THEN j ELSE j + 1)
    BY <1>3, <2>1
  <2> QED BY <1>0, <2>1, <2>2
<1>7. Brings(s, t, 0, NoSignal)
  BY <1>3, <1>5, <1>6 DEF Brings, NoSignal
<1> QED BY <1>7 DEF t

\* What is sent comes behind what is under way.
LEMMA BringsOut ==
    ASSUME NEW s \in Seq(Item), NEW out \in Seq(Item), NEW new,
           \/ out = <<>> /\ new = NoSignal
           \/ out # <<>> /\ out[1] = new
    PROVE  Brings(s, s \o out, 0, new)
<1> DEFINE g == [i \in Nat |-> i]
           t == s \o out
           n == Len(s)
<1>1. g \in [Nat -> Nat] /\ \A i \in Nat : g[i] = i
  OBVIOUS
<1>2. /\ \A i \in 1..n : i \in DOMAIN t /\ t[i] = s[i]
      /\ out # <<>> => n + 1 \in DOMAIN t /\ t[n + 1] = out[1]
      /\ n \in Nat /\ DOMAIN s = 1..n
  OBVIOUS
<1> HIDE DEF g, t, n
<1>3. \A i \in Signals(s) : i \in 1..n /\ i \in Signals(t) /\ t[i] = s[i]
  BY <1>2 DEF Signals
<1>4. \A i \in Signals(s) : i \in Nat /\ i < n + 1
  BY <1>2, <1>3
<1>5. new.kind \in {"offer", "answer"} => n + 1 \in Signals(t) /\ t[n + 1] = new
  BY <1>2 DEF Signals, NoSignal
<1>6. Brings(s, t, 0, new)
  BY <1>1, <1>3, <1>4, <1>5 DEF Brings
<1> QED BY <1>6 DEF t

LEMMA BringsMore ==
    ASSUME NEW s \in Seq(Item), NEW x \in Item, x.kind \notin {"offer", "answer"}
    PROVE  Brings(s, Append(s, x), 0, NoSignal)
<1>1. PICK out : out = <<x>>
  OBVIOUS
<1>2. out \in Seq(Item) /\ out # <<>> /\ out[1] = x /\ Append(s, x) = s \o out
  BY <1>1
<1>3. Brings(s, s \o out, 0, x)
  BY <1>2, BringsOut
<1>4. Brings(s, s \o out, 0, NoSignal)
  BY <1>3 DEF Brings, NoSignal
<1> QED BY <1>2, <1>4

-----------------------------------------------------------------------------
(* Exchanges: what one step does to the signals under way.                  *)

\* The places of the signals under way to q after a step, and before it.
Moves(f, q, from, new) ==
    /\ \A i \in Offers(q)' :
         \/ f[i] \in Offers(q) /\ chan[q]'[i] = chan[q][f[i]] /\ f[i] > from
         \/ new.kind = "offer" /\ chan[q]'[i] = new /\ f[i] = Len(chan[q]) + 1
    /\ \A i \in Answers(q)' :
         \/ f[i] \in Answers(q) /\ chan[q]'[i] = chan[q][f[i]] /\ f[i] > from
         \/ new.kind = "answer" /\ chan[q]'[i] = new /\ f[i] = Len(chan[q]) + 1
    /\ \A i, j \in Offers(q)' \cup Answers(q)' : i < j => f[i] < f[j]

LEMMA CarriesMoves ==
    ASSUME NEW q \in Peer, NEW from, NEW new, Carries(chan[q], chan[q]', from, new)
    PROVE  \E f \in [Nat -> Nat] : Moves(f, q, from, new)
<1>1. Signals(chan[q]) = Offers(q) \cup Answers(q)
  BY DEF Signals, Offers, Answers
<1>2. Signals(chan[q]') = Offers(q)' \cup Answers(q)'
  BY DEF Signals, Offers, Answers
<1>3. PICK f \in [Nat -> Nat] :
        /\ \A i \in Signals(chan[q]') :
             /\ f[i] > from
             /\ \/ f[i] \in Signals(chan[q]) /\ chan[q]'[i] = chan[q][f[i]]
                \/ f[i] = Len(chan[q]) + 1 /\ chan[q]'[i] = new
        /\ \A i, j \in Signals(chan[q]') : i < j => f[i] < f[j]
  BY DEF Carries
<1>4. ASSUME NEW i \in Offers(q)'
      PROVE  \/ f[i] \in Offers(q) /\ chan[q]'[i] = chan[q][f[i]] /\ f[i] > from
             \/ new.kind = "offer" /\ chan[q]'[i] = new /\ f[i] = Len(chan[q]) + 1
  BY <1>2, <1>3 DEF Signals, Offers
<1>5. ASSUME NEW i \in Answers(q)'
      PROVE  \/ f[i] \in Answers(q) /\ chan[q]'[i] = chan[q][f[i]] /\ f[i] > from
             \/ new.kind = "answer" /\ chan[q]'[i] = new /\ f[i] = Len(chan[q]) + 1
  BY <1>2, <1>3 DEF Signals, Answers
<1>6. \A i, j \in Offers(q)' \cup Answers(q)' : i < j => f[i] < f[j]
  BY <1>2, <1>3
<1>7. Moves(f, q, from, new)
  BY <1>4, <1>5, <1>6 DEF Moves
<1> QED BY <1>7

LEMMA SignalsTyped ==
    ASSUME TypeOK, NEW q \in Peer
    PROVE  /\ peer[q] \in PeerState /\ peer[q].epoch \in Nat /\ peer[q].offers \in Nat
           /\ Len(chan[q]) \in Nat
           /\ \A i \in Offers(q) \cup Answers(q) :
                /\ i \in Nat /\ i >= 1 /\ i <= Len(chan[q])
                /\ chan[q][i].epoch \in Nat
                /\ chan[q][i].tag # None =>
                     /\ chan[q][i].tag[2] \in Nat /\ chan[q][i].tag[3] \in Nat
                     /\ chan[q][i].tag = <<chan[q][i].tag[1], chan[q][i].tag[2],
                                           chan[q][i].tag[3]>>
<1>1. peer[q] \in PeerState /\ chan[q] \in Seq(Item)
  BY DEF TypeOK
<1>2. peer[q].epoch \in Nat /\ peer[q].offers \in Nat
  BY <1>1 DEF PeerState
<1>3. ASSUME NEW i \in Offers(q) \cup Answers(q)
      PROVE  /\ i \in Nat /\ i >= 1 /\ i <= Len(chan[q])
             /\ chan[q][i] \in Item /\ chan[q][i].kind \in {"offer", "answer"}
  BY <1>1 DEF Offers, Answers
<1>4. ASSUME NEW i \in Offers(q) \cup Answers(q)
      PROVE  chan[q][i].epoch \in Nat /\ chan[q][i].tag \in Tag
  BY <1>3, ItemFields
<1> QED BY <1>1, <1>2, <1>3, <1>4, TagParts

LEMMA PlacesNat ==
    ASSUME TypeOK', NEW q \in Peer
    PROVE  \A i \in Offers(q)' \cup Answers(q)' : i \in Nat
BY DEF TypeOK, Offers, Answers

\* The step of an operation of p: what is under way to p is left behind its first `from`
\* items, and `new` is sent.
Stepping(p, q, from, new, f, g) ==
    /\ TypeOK /\ TypeOK' /\ q = Other(p)
    /\ Exchange(p, q) /\ Exchange(q, p)
    /\ SameExchange(peer[q], peer[q]')
    /\ Moves(f, p, from, NoSignal) /\ Moves(g, q, 0, new)

\* The peer that makes no step: only what is under way may tell.
LEMMA StepMoves ==
    ASSUME NEW p \in Peer, NEW q, NEW from, NEW new, NEW f, NEW g,
           Stepping(p, q, from, new, f, g)
    PROVE  /\ \A i \in Offers(p)' :
                f[i] \in Offers(p) /\ chan[p]'[i] = chan[p][f[i]] /\ f[i] > from
           /\ \A i \in Answers(p)' :
                f[i] \in Answers(p) /\ chan[p]'[i] = chan[p][f[i]] /\ f[i] > from
           /\ \A i, j \in Offers(p)' \cup Answers(p)' : i < j => f[i] < f[j]
           /\ \A i \in Offers(q)' :
                \/ g[i] \in Offers(q) /\ chan[q]'[i] = chan[q][g[i]]
                \/ new.kind = "offer" /\ chan[q]'[i] = new /\ g[i] = Len(chan[q]) + 1
           /\ \A i \in Answers(q)' :
                \/ g[i] \in Answers(q) /\ chan[q]'[i] = chan[q][g[i]]
                \/ new.kind = "answer" /\ chan[q]'[i] = new /\ g[i] = Len(chan[q]) + 1
           /\ \A i, j \in Offers(q)' \cup Answers(q)' : i < j => g[i] < g[j]
           /\ q \in Peer /\ q # p /\ Other(q) = p
           /\ peer[q]'.epoch = peer[q].epoch /\ peer[q]'.sig = peer[q].sig
           /\ peer[q]'.offer = peer[q].offer /\ peer[q]'.offers = peer[q].offers
BY TwoPeers DEF Stepping, Moves, NoSignal, SameExchange

\* Nothing new: every part of an exchange holds of what is left of it.
LEMMA StepSame ==
    ASSUME NEW p \in Peer, NEW q, NEW from, NEW f, NEW g,
           Stepping(p, q, from, NoSignal, f, g), SameExchange(peer[p], peer[p]')
    PROVE  Exchange(p, q)' /\ Exchange(q, p)'
<1> DEFINE P == peer[p]
           Q == peer[q]
<1>1. /\ \A i \in Offers(p)' : f[i] \in Offers(p) /\ chan[p]'[i] = chan[p][f[i]]
      /\ \A i \in Answers(p)' : f[i] \in Answers(p) /\ chan[p]'[i] = chan[p][f[i]]
      /\ \A i, j \in Offers(p)' \cup Answers(p)' : i < j => f[i] < f[j]
      /\ \A i \in Offers(q)' : g[i] \in Offers(q) /\ chan[q]'[i] = chan[q][g[i]]
      /\ \A i \in Answers(q)' : g[i] \in Answers(q) /\ chan[q]'[i] = chan[q][g[i]]
      /\ \A i, j \in Offers(q)' \cup Answers(q)' : i < j => g[i] < g[j]
      /\ q \in Peer
  BY StepMoves DEF NoSignal
<1>2. /\ \A i \in Offers(p)' \cup Answers(p)' : i \in Nat
      /\ \A i \in Offers(q)' \cup Answers(q)' : i \in Nat
  BY <1>1, PlacesNat DEF Stepping
<1>3. /\ peer[p]'.epoch = P.epoch /\ peer[p]'.sig = P.sig /\ peer[p]'.offer = P.offer
      /\ peer[p]'.offers = P.offers
      /\ peer[q]'.epoch = Q.epoch /\ peer[q]'.sig = Q.sig /\ peer[q]'.offer = Q.offer
      /\ peer[q]'.offers = Q.offers
  BY DEF Stepping, SameExchange
<1>4. Exchange(p, q) /\ Exchange(q, p)
  BY DEF Stepping
<1>5. OffersTagged(p, q)' /\ OffersTagged(q, p)'
  BY <1>1, <1>3, <1>4 DEF Exchange, OffersTagged
<1>6. AnswersTagged(p)' /\ AnswersTagged(q)'
  BY <1>1, <1>3, <1>4 DEF Exchange, AnswersTagged
<1>7. OfferIsLast(p)' /\ OfferIsLast(q)'
  BY <1>3, <1>4 DEF Exchange, OfferIsLast
<1>8. OffersOrdered(p)' /\ OffersOrdered(q)'
  BY <1>1, <1>3, <1>4 DEF Exchange, OffersOrdered
<1>9. OffersOut(p, q)' /\ OffersOut(q, p)'
  BY <1>1, <1>3, <1>4 DEF Exchange, OffersOut, RolledBack
<1>10. AnswersOut(p, q)' /\ AnswersOut(q, p)'
  <2>1. /\ \A i \in Answers(p) : i \in Nat
        /\ \A i \in Answers(q) : i \in Nat
    BY <1>1, SignalsTyped DEF Stepping
  <2>2. ASSUME NEW i \in Answers(p)', NEW j \in Answers(p)', f[i] = f[j] PROVE i = j
    BY <1>1, <1>2, <2>1, <2>2
  <2>3. ASSUME NEW i \in Answers(q)', NEW j \in Answers(q)', g[i] = g[j] PROVE i = j
    BY <1>1, <1>2, <2>1, <2>3
  <2>4. AnswersOut(p, q)'
    BY <1>1, <1>3, <1>4, <2>2 DEF Exchange, AnswersOut
  <2>5. AnswersOut(q, p)'
    BY <1>1, <1>3, <1>4, <2>3 DEF Exchange, AnswersOut
  <2> QED BY <2>4, <2>5
<1> QED BY <1>5, <1>6, <1>7, <1>8, <1>9, <1>10 DEF Exchange

\* p makes an offer in the generation it is in: what it offered before in this generation
\* was rolled back.
LEMMA StepOffers ==
    ASSUME NEW p \in Peer, NEW q, NEW from, NEW f, NEW g, NEW new,
           new = Message("offer", peer[p]'.epoch, peer[p]'.offer),
           Stepping(p, q, from, new, f, g),
           Offers1(p, peer[p], peer[p]', OfferItems(peer[p]'))
    PROVE  Exchange(p, q)' /\ Exchange(q, p)'
<1> DEFINE P == peer[p]
           Q == peer[q]
<1>0. /\ P.sig = "stable" /\ peer[p]'.sig = "have-local-offer" /\ peer[p]'.epoch = P.epoch
      /\ peer[p]'.offers = P.offers + 1
      /\ peer[p]'.offer = <<p, P.epoch, P.offers + 1>>
      /\ new.kind = "offer" /\ new.epoch = P.epoch /\ new.tag = <<p, P.epoch, P.offers + 1>>
      /\ new.tag # None
  BY TagMade, SignalsTyped DEF Offers1, HasOffered, Message, Stepping
<1>1. /\ \A i \in Offers(p)' : f[i] \in Offers(p) /\ chan[p]'[i] = chan[p][f[i]]
      /\ \A i \in Answers(p)' : f[i] \in Answers(p) /\ chan[p]'[i] = chan[p][f[i]]
      /\ \A i, j \in Offers(p)' \cup Answers(p)' : i < j => f[i] < f[j]
      /\ \A i \in Offers(q)' : \/ g[i] \in Offers(q) /\ chan[q]'[i] = chan[q][g[i]]
                               \/ chan[q]'[i] = new /\ g[i] = Len(chan[q]) + 1
      /\ \A i \in Answers(q)' : g[i] \in Answers(q) /\ chan[q]'[i] = chan[q][g[i]]
      /\ \A i, j \in Offers(q)' \cup Answers(q)' : i < j => g[i] < g[j]
      /\ q \in Peer /\ q # p
  BY <1>0, StepMoves
<1>2. /\ \A i \in Offers(p)' \cup Answers(p)' : i \in Nat
      /\ \A i \in Offers(q)' \cup Answers(q)' : i \in Nat
  BY <1>1, PlacesNat DEF Stepping
<1>3. /\ peer[q]'.epoch = Q.epoch /\ peer[q]'.sig = Q.sig /\ peer[q]'.offer = Q.offer
      /\ peer[q]'.offers = Q.offers
  BY DEF Stepping, SameExchange
<1>4. Exchange(p, q) /\ Exchange(q, p)
  BY DEF Stepping
<1>t. /\ P.epoch \in Nat /\ P.offers \in Nat /\ Q.epoch \in Nat /\ Len(chan[q]) \in Nat
      /\ \A i \in Offers(q) \cup Answers(q) : i \in Nat /\ i <= Len(chan[q])
      /\ \A i \in Offers(p) \cup Answers(p) : i \in Nat
      /\ \A i \in Offers(q) : chan[q][i].epoch \in Nat /\ chan[q][i].tag[3] \in Nat
      /\ \A i \in Answers(p) : chan[p][i].epoch \in Nat
  <2>1. \A i \in Offers(q) : chan[q][i].tag # None
    BY <1>4 DEF Exchange, OffersTagged
  <2> QED BY <1>1, <2>1, SignalsTyped DEF Stepping
<1>5. OffersTagged(p, q)'
  <2> SUFFICES ASSUME NEW i \in Offers(q)'
               PROVE  LET m == chan[q]'[i] IN
                      /\ m.tag # None /\ m.tag[1] = p /\ m.tag[2] = m.epoch
                      /\ m.epoch <= peer[p]'.epoch
                      /\ m.epoch = peer[p]'.epoch => m.tag[3] <= peer[p]'.offers
    BY DEF OffersTagged
  <2>1. CASE chan[q]'[i] = new
    BY <1>0, <1>t, <2>1
  <2>2. CASE g[i] \in Offers(q) /\ chan[q]'[i] = chan[q][g[i]]
    <3>1. LET m == chan[q][g[i]] IN
          /\ m.tag # None /\ m.tag[1] = p /\ m.tag[2] = m.epoch
          /\ m.epoch <= P.epoch
          /\ m.epoch = P.epoch => m.tag[3] <= P.offers
      BY <1>4, <2>2 DEF Exchange, OffersTagged
    <3>2. \A n \in Nat : n <= P.offers => n <= P.offers + 1
      BY <1>t
    <3>3. chan[q][g[i]].tag[3] \in Nat
      BY <1>t, <2>2
    <3> QED BY <1>0, <2>2, <3>1, <3>2, <3>3
  <2> QED BY <1>1, <2>1, <2>2
<1>6. OffersTagged(q, p)' /\ AnswersTagged(p)' /\ AnswersTagged(q)'
  BY <1>0, <1>1, <1>3, <1>4 DEF Exchange, AnswersTagged, OffersTagged
<1>7. OfferIsLast(p)' /\ OfferIsLast(q)'
  BY <1>0, <1>3, <1>4 DEF Exchange, OfferIsLast
<1>8. OffersOrdered(p)'
  BY <1>1, <1>4 DEF Exchange, OffersOrdered
<1>9. OffersOrdered(q)'
  <2> SUFFICES ASSUME NEW i \in Offers(q)', NEW j \in Offers(q)', i < j,
                      chan[q]'[i].epoch = chan[q]'[j].epoch
               PROVE  chan[q]'[i].tag[3] < chan[q]'[j].tag[3]
    BY DEF OffersOrdered
  <2>1. g[i] < g[j]
    BY <1>1
  <2>2. g[i] \in Offers(q) /\ chan[q]'[i] = chan[q][g[i]]
    BY <1>1, <1>t, <2>1
  <2>3. CASE g[j] \in Offers(q) /\ chan[q]'[j] = chan[q][g[j]]
    BY <1>4, <2>1, <2>2, <2>3 DEF Exchange, OffersOrdered
  <2>4. CASE chan[q]'[j] = new
    <3>1. chan[q][g[i]].tag[3] <= P.offers /\ new.tag[3] = P.offers + 1
      BY <1>0, <1>4, <2>2, <2>4 DEF Exchange, OffersTagged
    <3> QED BY <1>t, <2>2, <2>4, <3>1
  <2> QED BY <1>1, <2>3, <2>4
<1>10. OffersOut(p, q)'
  <2> SUFFICES ASSUME NEW i \in Offers(q)', chan[q]'[i].epoch = peer[p]'.epoch
               PROVE  \/ peer[p]'.sig = "have-local-offer" /\ chan[q]'[i].tag = peer[p]'.offer
                      \/ RolledBack(p, q, i)'
    BY DEF OffersOut
  <2>1. CASE chan[q]'[i] = new
    BY <1>0, <2>1
  <2>2. CASE g[i] \in Offers(q) /\ chan[q]'[i] = chan[q][g[i]]
    <3>1. RolledBack(p, q, g[i])
      BY <1>0, <1>4, <2>2 DEF Exchange, OffersOut
    <3> QED BY <1>0, <1>1, <1>3, <3>1 DEF RolledBack
  <2> QED BY <1>1, <2>1, <2>2
<1>11. OffersOut(q, p)'
  BY <1>0, <1>1, <1>3, <1>4, <1>t DEF Exchange, OffersOut, RolledBack
<1>12. AnswersOut(p, q)'
  BY <1>0, <1>1, <1>4 DEF Exchange, AnswersOut
<1>13. AnswersOut(q, p)'
  <2>1. ASSUME NEW i \in Answers(q)', NEW j \in Answers(q)', g[i] = g[j] PROVE i = j
    BY <1>1, <1>2, <1>t, <2>1
  <2>2. ASSUME NEW i \in Answers(q)', NEW j \in Offers(q)', j < i
        PROVE  g[j] \in Offers(q) /\ chan[q]'[j] = chan[q][g[j]]
    <3>1. g[j] < g[i] /\ g[i] <= Len(chan[q]) /\ g[i] \in Nat
      BY <1>1, <1>t, <2>2
    <3> QED BY <1>1, <1>t, <3>1
  <2> QED BY <1>1, <1>3, <1>4, <2>1, <2>2 DEF Exchange, AnswersOut
<1> QED BY <1>5, <1>6, <1>7, <1>8, <1>9, <1>10, <1>11, <1>12, <1>13 DEF Exchange

\* p joins, or begins a new generation: nothing of its generation is under way.
LEMMA StepBegins ==
    ASSUME NEW p \in Peer, NEW q, NEW from, NEW f, NEW g, NEW new,
           Stepping(p, q, from, new, f, g),
           \/ peer[p]'.epoch > peer[p].epoch
           \/ peer[p]'.epoch = peer[p].epoch /\ peer[p].sig = "none" /\ Offers(q) = {},
           \/ peer[p]'.sig = "stable" /\ new = NoSignal
           \/ /\ HasOffered(p, peer[p]', OfferItems(peer[p]'))
              /\ new = Message("offer", peer[p]'.epoch, peer[p]'.offer)
    PROVE  Exchange(p, q)' /\ Exchange(q, p)'
<1> DEFINE P == peer[p]
           Q == peer[q]
           e == peer[p]'.epoch
           n == peer[p]'.offers
<1>3. /\ peer[q]'.epoch = Q.epoch /\ peer[q]'.sig = Q.sig /\ peer[q]'.offer = Q.offer
      /\ peer[q]'.offers = Q.offers
  BY DEF Stepping, SameExchange
<1>4. Exchange(p, q) /\ Exchange(q, p)
  BY DEF Stepping
<1>n. e \in Nat /\ n \in Nat
  BY DEF Stepping, TypeOK, PeerState
<1>0. /\ new.kind # "answer"
      /\ new.kind = "offer" =>
           /\ peer[p]'.sig = "have-local-offer" /\ peer[p]'.offer = <<p, e, n>>
           /\ new.epoch = e /\ new.tag = <<p, e, n>> /\ new.tag # None
      /\ peer[p]'.sig = "have-local-offer" => peer[p]'.offer = <<p, e, n>>
  BY <1>n, TagMade DEF HasOffered, Message, NoSignal
<1>1. /\ \A i \in Offers(p)' : f[i] \in Offers(p) /\ chan[p]'[i] = chan[p][f[i]]
      /\ \A i \in Answers(p)' : f[i] \in Answers(p) /\ chan[p]'[i] = chan[p][f[i]]
      /\ \A i, j \in Offers(p)' \cup Answers(p)' : i < j => f[i] < f[j]
      /\ \A i \in Offers(q)' : \/ g[i] \in Offers(q) /\ chan[q]'[i] = chan[q][g[i]]
                               \/ /\ new.kind = "offer" /\ chan[q]'[i] = new
                                  /\ g[i] = Len(chan[q]) + 1
      /\ \A i \in Answers(q)' : g[i] \in Answers(q) /\ chan[q]'[i] = chan[q][g[i]]
      /\ \A i, j \in Offers(q)' \cup Answers(q)' : i < j => g[i] < g[j]
      /\ q \in Peer /\ q # p
  BY <1>0, StepMoves
<1>2. /\ \A i \in Offers(p)' \cup Answers(p)' : i \in Nat
      /\ \A i \in Offers(q)' \cup Answers(q)' : i \in Nat
  BY <1>1, PlacesNat DEF Stepping
<1>t. /\ P.epoch \in Nat /\ Q.epoch \in Nat /\ Len(chan[q]) \in Nat
      /\ \A i \in Offers(q) \cup Answers(q) : i \in Nat /\ i <= Len(chan[q])
      /\ \A i \in Offers(p) \cup Answers(p) : i \in Nat
      /\ \A i \in Offers(q) : chan[q][i].epoch \in Nat
      /\ \A i \in Answers(p) : chan[p][i].epoch \in Nat /\ chan[p][i].tag[2] \in Nat
  <2>1. \A i \in Answers(p) : chan[p][i].tag # None
    BY <1>4 DEF Exchange, AnswersTagged
  <2> QED BY <1>1, <2>1, SignalsTyped DEF Stepping
<1>e. /\ e >= P.epoch
      /\ \A i \in Offers(q) : chan[q][i].epoch < e
      /\ \A i \in Answers(p) : chan[p][i].epoch # e
  <2>1. CASE e > P.epoch
    <3>1. \A i \in Offers(q) : chan[q][i].epoch <= P.epoch
      BY <1>4 DEF Exchange, OffersTagged
    <3>2. \A i \in Answers(p) : /\ chan[p][i].epoch <= chan[p][i].tag[2]
                                /\ chan[p][i].tag[2] <= P.epoch
      BY <1>4 DEF Exchange, AnswersTagged
    <3> QED BY <1>n, <1>t, <2>1, <3>1, <3>2
  <2>2. CASE e = P.epoch /\ P.sig = "none" /\ Offers(q) = {}
    BY <1>4, <1>n, <1>t, <2>2 DEF Exchange, AnswersOut
  <2> QED BY <2>1, <2>2
<1>5. OffersTagged(p, q)'
  <2> SUFFICES ASSUME NEW i \in Offers(q)'
               PROVE  LET m == chan[q]'[i] IN
                      /\ m.tag # None /\ m.tag[1] = p /\ m.tag[2] = m.epoch
                      /\ m.epoch <= e
                      /\ m.epoch = e => m.tag[3] <= n
    BY DEF OffersTagged
  <2>1. CASE new.kind = "offer" /\ chan[q]'[i] = new
    BY <1>0, <1>n, <2>1
  <2>2. CASE g[i] \in Offers(q) /\ chan[q]'[i] = chan[q][g[i]]
    <3>1. LET m == chan[q][g[i]] IN
          m.tag # None /\ m.tag[1] = p /\ m.tag[2] = m.epoch
      BY <1>4, <2>2 DEF Exchange, OffersTagged
    <3>2. chan[q][g[i]].epoch < e /\ chan[q][g[i]].epoch \in Nat
      BY <1>e, <1>t, <2>2
    <3> QED BY <1>n, <2>2, <3>1, <3>2
  <2> QED BY <1>1, <2>1, <2>2
<1>6. AnswersTagged(p)'
  <2> SUFFICES ASSUME NEW i \in Answers(p)'
               PROVE  LET m == chan[p]'[i] IN
                      m.tag # None /\ m.tag[1] = p /\ m.epoch <= m.tag[2] /\ m.tag[2] <= e
    BY DEF AnswersTagged
  <2>1. LET m == chan[p][f[i]] IN
        m.tag # None /\ m.tag[1] = p /\ m.epoch <= m.tag[2] /\ m.tag[2] <= P.epoch
    BY <1>1, <1>4 DEF Exchange, AnswersTagged
  <2>2. f[i] \in Answers(p) /\ chan[p]'[i] = chan[p][f[i]] /\ chan[p][f[i]].tag[2] \in Nat
    BY <1>1, <1>t
  <2> QED BY <1>e, <1>n, <1>t, <2>1, <2>2
<1>6a. OffersTagged(q, p)' /\ AnswersTagged(q)'
  BY <1>1, <1>3, <1>4 DEF Exchange, AnswersTagged, OffersTagged
<1>7. OfferIsLast(p)' /\ OfferIsLast(q)'
  BY <1>0, <1>3, <1>4 DEF Exchange, OfferIsLast
<1>8. OffersOrdered(p)'
  BY <1>1, <1>4 DEF Exchange, OffersOrdered
<1>9. OffersOrdered(q)'
  <2> SUFFICES ASSUME NEW i \in Offers(q)', NEW j \in Offers(q)', i < j,
                      chan[q]'[i].epoch = chan[q]'[j].epoch
               PROVE  chan[q]'[i].tag[3] < chan[q]'[j].tag[3]
    BY DEF OffersOrdered
  <2>1. g[i] < g[j]
    BY <1>1
  <2>2. g[i] \in Offers(q) /\ chan[q]'[i] = chan[q][g[i]]
    BY <1>1, <1>t, <2>1
  <2>3. g[j] \in Offers(q) /\ chan[q]'[j] = chan[q][g[j]]
    BY <1>0, <1>1, <1>e, <1>n, <1>t, <2>2
  <2> QED BY <1>4, <2>1, <2>2, <2>3 DEF Exchange, OffersOrdered
<1>10. OffersOut(p, q)'
  <2> SUFFICES ASSUME NEW i \in Offers(q)', chan[q]'[i].epoch = peer[p]'.epoch
               PROVE  peer[p]'.sig = "have-local-offer" /\ chan[q]'[i].tag = peer[p]'.offer
    BY DEF OffersOut
  <2>1. CASE g[i] \in Offers(q) /\ chan[q]'[i] = chan[q][g[i]]
    <3>1. chan[q][g[i]].epoch < e /\ chan[q][g[i]].epoch \in Nat
      BY <1>e, <1>t, <2>1
    <3>2. chan[q][g[i]].epoch = e
      BY <2>1
    <3> QED BY <1>n, <3>1, <3>2
  <2>2. CASE new.kind = "offer" /\ chan[q]'[i] = new
    BY <1>0, <2>2
  <2> QED BY <1>1, <2>1, <2>2
<1>11. OffersOut(q, p)'
  <2> SUFFICES ASSUME NEW i \in Offers(p)', chan[p]'[i].epoch = peer[q]'.epoch
               PROVE  \/ peer[q]'.sig = "have-local-offer" /\ chan[p]'[i].tag = peer[q]'.offer
                      \/ RolledBack(q, p, i)'
    BY DEF OffersOut
  <2>1. f[i] \in Offers(p) /\ chan[p]'[i] = chan[p][f[i]]
    BY <1>1
  <2>2. CASE Q.sig = "have-local-offer" /\ chan[p][f[i]].tag = Q.offer
    BY <1>3, <2>1, <2>2
  <2>3. CASE RolledBack(q, p, f[i])
    <3>1. e > Q.epoch
      BY <1>n, <1>t, <2>3 DEF RolledBack
    <3> QED BY <1>3, <1>n, <1>t, <2>3, <3>1 DEF RolledBack
  <2> QED BY <1>3, <1>4, <2>1, <2>2, <2>3 DEF Exchange, OffersOut
<1>12. AnswersOut(p, q)'
  BY <1>1, <1>e DEF AnswersOut
<1>13. AnswersOut(q, p)'
  <2>1. ASSUME NEW i \in Answers(q)', NEW j \in Answers(q)', g[i] = g[j] PROVE i = j
    BY <1>1, <1>2, <1>t, <2>1
  <2>2. ASSUME NEW i \in Answers(q)', NEW j \in Offers(q)', j < i
        PROVE  g[j] \in Offers(q) /\ chan[q]'[j] = chan[q][g[j]]
    <3>1. g[j] < g[i] /\ g[i] <= Len(chan[q]) /\ g[i] \in Nat
      BY <1>1, <1>t, <2>2
    <3> QED BY <1>1, <1>t, <3>1
  <2> QED BY <1>1, <1>3, <1>4, <2>1, <2>2 DEF Exchange, AnswersOut
<1> QED BY <1>5, <1>6, <1>6a, <1>7, <1>8, <1>9, <1>10, <1>11, <1>12, <1>13 DEF Exchange

\* p answers the offer that comes first.  An answer of q's generation is to the offer that q
\* waits with: p would not answer one that q has rolled back.
LEMMA StepAnswers ==
    ASSUME NEW p \in Peer, NEW q, NEW from, NEW f, NEW g, NEW new, NEW m,
           Stepping(p, q, from, new, f, g),
           from = 1, 1 \in DOMAIN chan[p], m = chan[p][1],
           Answering(p, peer[p], peer[p]', m, <<new>>),
           new = Message("answer", peer[p]'.epoch, m.tag)
    PROVE  Exchange(p, q)' /\ Exchange(q, p)'
<1> DEFINE P == peer[p]
           Q == peer[q]
           e == peer[p]'.epoch
<1>3. /\ peer[q]'.epoch = Q.epoch /\ peer[q]'.sig = Q.sig /\ peer[q]'.offer = Q.offer
      /\ peer[q]'.offers = Q.offers
  BY DEF Stepping, SameExchange
<1>4. Exchange(p, q) /\ Exchange(q, p)
  BY DEF Stepping
<1>0. /\ m.kind = "offer" /\ e >= P.epoch /\ m.epoch >= e /\ peer[p]'.sig = "stable"
      /\ e = P.epoch => peer[p]'.offers = P.offers /\ (p = Answerer \/ P.sig = "stable")
      /\ new.kind = "answer" /\ new.epoch = e /\ new.tag = m.tag
      /\ 1 \in Offers(p)
  BY DEF Answering, Message, Offers
<1>n. e \in Nat /\ peer[p]'.offers \in Nat
  BY DEF Stepping, TypeOK, PeerState
<1>1. /\ \A i \in Offers(p)' :
           f[i] \in Offers(p) /\ chan[p]'[i] = chan[p][f[i]] /\ f[i] > 1
      /\ \A i \in Answers(p)' :
           f[i] \in Answers(p) /\ chan[p]'[i] = chan[p][f[i]] /\ f[i] > 1
      /\ \A i, j \in Offers(p)' \cup Answers(p)' : i < j => f[i] < f[j]
      /\ \A i \in Offers(q)' : g[i] \in Offers(q) /\ chan[q]'[i] = chan[q][g[i]]
      /\ \A i \in Answers(q)' : \/ g[i] \in Answers(q) /\ chan[q]'[i] = chan[q][g[i]]
                                \/ chan[q]'[i] = new /\ g[i] = Len(chan[q]) + 1
      /\ \A i, j \in Offers(q)' \cup Answers(q)' : i < j => g[i] < g[j]
      /\ q \in Peer /\ q # p /\ Peer = {p, q}
  BY <1>0, StepMoves, TwoPeers DEF Stepping
<1>2. /\ \A i \in Offers(p)' \cup Answers(p)' : i \in Nat
      /\ \A i \in Offers(q)' \cup Answers(q)' : i \in Nat
  BY <1>1, PlacesNat DEF Stepping
<1>t. /\ P.epoch \in Nat /\ P.offers \in Nat /\ Q.epoch \in Nat /\ Q.offers \in Nat
      /\ Len(chan[q]) \in Nat /\ m.epoch \in Nat
      /\ \A i \in Offers(q) \cup Answers(q) : i \in Nat /\ i <= Len(chan[q])
      /\ \A i \in Offers(p) \cup Answers(p) : i \in Nat
      /\ \A i \in Offers(q) : chan[q][i].epoch \in Nat
      /\ \A i \in Offers(p) : chan[p][i].epoch \in Nat /\ chan[p][i].tag[3] \in Nat
      /\ \A i \in Answers(p) : chan[p][i].epoch \in Nat /\ chan[p][i].tag[2] \in Nat
      /\ \A i \in Answers(q) : chan[q][i].epoch \in Nat /\ chan[q][i].tag[2] \in Nat
  <2>1. /\ \A i \in Answers(p) : chan[p][i].tag # None
        /\ \A i \in Answers(q) : chan[q][i].tag # None
        /\ \A i \in Offers(p) : chan[p][i].tag # None
    BY <1>4 DEF Exchange, AnswersTagged, OffersTagged
  <2> QED BY <1>0, <1>1, <2>1, SignalsTyped DEF Stepping
<1>m. /\ m.tag # None /\ m.tag[1] = q /\ m.tag[2] = m.epoch /\ m.epoch <= Q.epoch
      /\ m.epoch = Q.epoch => m.tag[3] <= Q.offers
  BY <1>0, <1>4 DEF Exchange, OffersTagged
\* Facts about an answer that q may apply.
<1>q. ASSUME e = Q.epoch
      PROVE  /\ m.epoch = Q.epoch
             /\ Q.sig = "have-local-offer" /\ m.tag = Q.offer
             /\ \A j \in Answers(q) : chan[q][j].epoch # Q.epoch
             /\ \A j \in Offers(p) : j > 1 => chan[p][j].epoch # Q.epoch
             /\ q = Answerer => \A j \in Offers(q) : chan[q][j].epoch < Q.epoch
  <2>1. m.epoch = Q.epoch
    BY <1>0, <1>m, <1>n, <1>t, <1>q
  <2>2. ~RolledBack(q, p, 1)
    <3> SUFFICES ASSUME RolledBack(q, p, 1) PROVE FALSE
      OBVIOUS
    <3>1. q = Answerer /\ p # Answerer /\ P.epoch = Q.epoch /\ P.sig = "have-local-offer"
      BY <1>0, <1>1, <1>n, <1>t, <1>q DEF RolledBack
    <3> QED BY <1>0, <1>q, <3>1
  <2>3. Q.sig = "have-local-offer" /\ m.tag = Q.offer
    BY <1>0, <1>4, <2>1, <2>2 DEF Exchange, OffersOut
  <2>4. \A j \in Answers(q) : chan[q][j].epoch # Q.epoch
    BY <1>0, <1>4, <2>1 DEF Exchange, AnswersOut
  <2>5. ASSUME NEW j \in Offers(p), j > 1 PROVE chan[p][j].epoch # Q.epoch
    <3> SUFFICES ASSUME chan[p][j].epoch = Q.epoch PROVE FALSE
      OBVIOUS
    <3>1. m.tag[3] < chan[p][j].tag[3]
      BY <1>0, <1>4, <2>1, <2>5 DEF Exchange, OffersOrdered
    <3>2. chan[p][j].tag[3] <= Q.offers
      BY <1>4 DEF Exchange, OffersTagged
    <3>3. m.tag[3] = Q.offers
      <4>1. Q.offer = <<q, Q.epoch, Q.offers>>
        BY <1>4, <2>3 DEF Exchange, OfferIsLast
      <4> QED BY <2>3, <4>1
    <3> QED BY <1>t, <3>1, <3>2, <3>3
  <2>6. ASSUME q = Answerer, NEW j \in Offers(q) PROVE chan[q][j].epoch < Q.epoch
    <3>1. chan[q][j].epoch <= P.epoch
      BY <1>4 DEF Exchange, OffersTagged
    <3> SUFFICES ASSUME chan[q][j].epoch = Q.epoch PROVE FALSE
      BY <1>0, <1>n, <1>q, <1>t, <3>1
    <3>2. P.epoch = Q.epoch
      BY <1>0, <1>n, <1>q, <1>t, <3>1
    <3>3. P.sig = "stable" /\ p # Answerer
      BY <1>0, <1>1, <1>q, <2>6, <3>2
    <3> QED BY <1>4, <3>2, <3>3 DEF Exchange, OffersOut, RolledBack
  <2> QED BY <2>1, <2>3, <2>4, <2>5, <2>6
<1>5. OffersTagged(p, q)'
  <2> SUFFICES ASSUME NEW i \in Offers(q)'
               PROVE  LET x == chan[q]'[i] IN
                      /\ x.tag # None /\ x.tag[1] = p /\ x.tag[2] = x.epoch
                      /\ x.epoch <= e
                      /\ x.epoch = e => x.tag[3] <= peer[p]'.offers
    BY DEF OffersTagged
  <2>1. LET x == chan[q][g[i]] IN
        /\ x.tag # None /\ x.tag[1] = p /\ x.tag[2] = x.epoch
        /\ x.epoch <= P.epoch
        /\ x.epoch = P.epoch => x.tag[3] <= P.offers
    BY <1>1, <1>4 DEF Exchange, OffersTagged
  <2>2. g[i] \in Offers(q) /\ chan[q]'[i] = chan[q][g[i]] /\ chan[q][g[i]].epoch \in Nat
    BY <1>1, <1>t
  <2>3. chan[q][g[i]].epoch = e => e = P.epoch
    BY <1>0, <1>n, <1>t, <2>1, <2>2
  <2>4. chan[q][g[i]].epoch <= e
    BY <1>0, <1>n, <1>t, <2>1, <2>2
  <2> QED BY <1>0, <2>1, <2>2, <2>3, <2>4
<1>5a. OffersTagged(q, p)'
  BY <1>1, <1>3, <1>4 DEF Exchange, OffersTagged
<1>6. AnswersTagged(p)'
  <2> SUFFICES ASSUME NEW i \in Answers(p)'
               PROVE  LET x == chan[p]'[i] IN
                      x.tag # None /\ x.tag[1] = p /\ x.epoch <= x.tag[2] /\ x.tag[2] <= e
    BY DEF AnswersTagged
  <2>1. LET x == chan[p][f[i]] IN
        x.tag # None /\ x.tag[1] = p /\ x.epoch <= x.tag[2] /\ x.tag[2] <= P.epoch
    BY <1>1, <1>4 DEF Exchange, AnswersTagged
  <2>2. f[i] \in Answers(p) /\ chan[p]'[i] = chan[p][f[i]] /\ chan[p][f[i]].tag[2] \in Nat
    BY <1>1, <1>t
  <2> QED BY <1>0, <1>n, <1>t, <2>1, <2>2
<1>6a. AnswersTagged(q)'
  <2> SUFFICES ASSUME NEW i \in Answers(q)'
               PROVE  LET x == chan[q]'[i] IN
                      x.tag # None /\ x.tag[1] = q /\ x.epoch <= x.tag[2] /\ x.tag[2] <= Q.epoch
    BY <1>3 DEF AnswersTagged
  <2>1. CASE g[i] \in Answers(q) /\ chan[q]'[i] = chan[q][g[i]]
    BY <1>4, <2>1 DEF Exchange, AnswersTagged
  <2>2. CASE chan[q]'[i] = new
    BY <1>0, <1>m, <2>2
  <2> QED BY <1>1, <2>1, <2>2
<1>7. OfferIsLast(p)' /\ OfferIsLast(q)'
  BY <1>0, <1>3, <1>4 DEF Exchange, OfferIsLast
<1>8. OffersOrdered(p)' /\ OffersOrdered(q)'
  BY <1>1, <1>4 DEF Exchange, OffersOrdered
<1>10. OffersOut(p, q)'
  <2> SUFFICES ASSUME NEW i \in Offers(q)', chan[q]'[i].epoch = e
               PROVE  RolledBack(p, q, i)'
    BY DEF OffersOut
  <2>1. g[i] \in Offers(q) /\ chan[q][g[i]].epoch = e /\ chan[q][g[i]].epoch <= P.epoch
    BY <1>1, <1>4 DEF Exchange, OffersTagged
  <2>2. e = P.epoch
    BY <1>0, <1>n, <1>t, <2>1
  <2>3. p = Answerer
    <3> SUFFICES ASSUME p # Answerer PROVE FALSE
      OBVIOUS
    <3>1. P.sig = "stable"
      BY <1>0, <2>2
    <3> QED BY <1>4, <2>1, <2>2, <3>1 DEF Exchange, OffersOut, RolledBack
  <2>4. Q.epoch >= e
    BY <1>0, <1>m, <1>n, <1>t
  <2>5. ASSUME Q.epoch = e, NEW j \in Answers(q)', j < i
        PROVE  chan[q]'[j].epoch # Q.epoch
    <3>1. g[j] < g[i] /\ g[i] <= Len(chan[q]) /\ g[i] \in Nat
      BY <1>1, <1>t, <2>1, <2>5
    <3>2. g[j] \in Answers(q) /\ chan[q]'[j] = chan[q][g[j]]
      BY <1>1, <1>t, <3>1
    <3> QED BY <1>q, <2>5, <3>2
  <2> QED BY <1>3, <1>q, <2>2, <2>3, <2>4, <2>5 DEF RolledBack
<1>11. OffersOut(q, p)'
  <2> SUFFICES ASSUME NEW i \in Offers(p)', chan[p]'[i].epoch = Q.epoch
               PROVE  \/ Q.sig = "have-local-offer" /\ chan[p]'[i].tag = Q.offer
                      \/ RolledBack(q, p, i)'
    BY <1>3 DEF OffersOut
  <2>1. f[i] \in Offers(p) /\ chan[p]'[i] = chan[p][f[i]]
    BY <1>1
  <2>2. CASE Q.sig = "have-local-offer" /\ chan[p][f[i]].tag = Q.offer
    BY <2>1, <2>2
  <2>3. CASE RolledBack(q, p, f[i])
    <3>1. q = Answerer /\ p # Answerer /\ P.epoch >= Q.epoch
      BY <1>1, <2>3 DEF RolledBack
    <3>2. e # Q.epoch
      <4> SUFFICES ASSUME e = Q.epoch PROVE FALSE
        OBVIOUS
      <4>1. P.epoch = Q.epoch
        BY <1>0, <1>n, <1>t, <3>1
      <4> QED BY <1>0, <2>3, <3>1, <4>1 DEF RolledBack
    <3>3. e > Q.epoch
      BY <1>0, <1>n, <1>t, <3>1, <3>2
    <3> QED BY <1>3, <1>n, <1>t, <3>1, <3>3 DEF RolledBack
  <2> QED BY <1>4, <2>1, <2>2, <2>3 DEF Exchange, OffersOut
<1>12. AnswersOut(p, q)'
  <2> SUFFICES ASSUME NEW i \in Answers(p)', chan[p]'[i].epoch = e PROVE FALSE
    BY DEF AnswersOut
  <2>1. /\ f[i] \in Answers(p) /\ chan[p][f[i]].epoch = e /\ f[i] > 1
        /\ chan[p][f[i]].epoch <= P.epoch
    <3>1. /\ f[i] \in Answers(p) /\ chan[p][f[i]].epoch = e /\ f[i] > 1
      BY <1>1
    <3>2. /\ chan[p][f[i]].epoch <= chan[p][f[i]].tag[2]
          /\ chan[p][f[i]].tag[2] <= P.epoch
      BY <1>4, <3>1 DEF Exchange, AnswersTagged
    <3>3. chan[p][f[i]].tag[2] \in Nat
      BY <1>t, <3>1
    <3> QED BY <1>n, <1>t, <3>1, <3>2, <3>3
  <2>2. e = P.epoch
    BY <1>0, <1>n, <1>t, <2>1
  <2>3. P.sig = "have-local-offer" /\ p = Answerer
    BY <1>0, <1>4, <2>1, <2>2 DEF Exchange, AnswersOut
  <2>4. m.epoch < P.epoch
    BY <1>0, <1>4, <2>1, <2>2, <2>3 DEF Exchange, AnswersOut
  <2> QED BY <1>0, <1>t, <2>2, <2>4
<1>13. AnswersOut(q, p)'
  <2> SUFFICES ASSUME NEW i \in Answers(q)', chan[q]'[i].epoch = Q.epoch
               PROVE  /\ Q.sig = "have-local-offer" /\ chan[q]'[i].tag = Q.offer
                      /\ \A j \in Offers(p)' : chan[p]'[j].epoch # Q.epoch
                      /\ \A j \in Answers(q)' : chan[q]'[j].epoch = Q.epoch => j = i
                      /\ q = Answerer =>
                           \A j \in Offers(q)' : j < i => chan[q]'[j].epoch < Q.epoch
    BY <1>3 DEF AnswersOut
  <2>0. ASSUME NEW j \in Answers(q)', g[i] = g[j] PROVE j = i
    <3>1. i \in Nat /\ j \in Nat
      BY <1>2
    <3>2. g[i] \in Nat /\ g[j] \in Nat
      BY <1>1, <1>t
    <3> QED BY <1>1, <2>0, <3>1, <3>2
  <2>1. CASE g[i] \in Answers(q) /\ chan[q]'[i] = chan[q][g[i]]
    <3>1. e # Q.epoch
      BY <1>q, <2>1
    <3>2. /\ Q.sig = "have-local-offer" /\ chan[q][g[i]].tag = Q.offer
          /\ \A j \in Offers(p) : chan[p][j].epoch # Q.epoch
          /\ \A j \in Answers(q) : chan[q][j].epoch = Q.epoch => j = g[i]
          /\ q = Answerer => \A j \in Offers(q) : j < g[i] => chan[q][j].epoch < Q.epoch
      BY <1>4, <2>1 DEF Exchange, AnswersOut
    <3>3. \A j \in Answers(q)' : chan[q]'[j].epoch = Q.epoch => j = i
      BY <1>0, <1>1, <2>0, <3>1, <3>2
    <3> QED BY <1>1, <2>1, <3>2, <3>3
  <2>2. CASE chan[q]'[i] = new /\ g[i] = Len(chan[q]) + 1
    <3>1. e = Q.epoch
      BY <1>0, <2>2
    <3>2. /\ Q.sig = "have-local-offer" /\ m.tag = Q.offer
          /\ \A j \in Answers(q) : chan[q][j].epoch # Q.epoch
          /\ \A j \in Offers(p) : j > 1 => chan[p][j].epoch # Q.epoch
          /\ q = Answerer => \A j \in Offers(q) : chan[q][j].epoch < Q.epoch
      BY <1>q, <3>1
    <3>3. \A j \in Answers(q)' : chan[q]'[j].epoch = Q.epoch => j = i
      BY <1>1, <2>0, <2>2, <3>2
    <3> QED BY <1>0, <1>1, <2>2, <3>2, <3>3
  <2> QED BY <1>1, <2>1, <2>2
<1> QED BY <1>5, <1>5a, <1>6, <1>6a, <1>7, <1>8, <1>10, <1>11, <1>12, <1>13 DEF Exchange

\* p takes the answer that comes first, and its exchange is complete.
LEMMA StepCompletes ==
    ASSUME NEW p \in Peer, NEW q, NEW from, NEW f, NEW g, NEW m,
           Stepping(p, q, from, NoSignal, f, g),
           from = 1, 1 \in DOMAIN chan[p], m = chan[p][1],
           Completing(peer[p], peer[p]', m, <<>>)
    PROVE  Exchange(p, q)' /\ Exchange(q, p)' /\ m.tag = peer[p].offer
<1> DEFINE P == peer[p]
           Q == peer[q]
<1>3. /\ peer[q]'.epoch = Q.epoch /\ peer[q]'.sig = Q.sig /\ peer[q]'.offer = Q.offer
      /\ peer[q]'.offers = Q.offers
  BY DEF Stepping, SameExchange
<1>4. Exchange(p, q) /\ Exchange(q, p)
  BY DEF Stepping
<1>0. /\ m.kind = "answer" /\ m.epoch = P.epoch /\ P.sig = "have-local-offer"
      /\ peer[p]'.sig = "stable" /\ peer[p]'.epoch = P.epoch
      /\ peer[p]'.offer = P.offer /\ peer[p]'.offers = P.offers
      /\ 1 \in Answers(p)
  BY DEF Completing, Answers
<1>1. /\ \A i \in Offers(p)' :
           f[i] \in Offers(p) /\ chan[p]'[i] = chan[p][f[i]] /\ f[i] > 1
      /\ \A i \in Answers(p)' :
           f[i] \in Answers(p) /\ chan[p]'[i] = chan[p][f[i]] /\ f[i] > 1
      /\ \A i, j \in Offers(p)' \cup Answers(p)' : i < j => f[i] < f[j]
      /\ \A i \in Offers(q)' : g[i] \in Offers(q) /\ chan[q]'[i] = chan[q][g[i]]
      /\ \A i \in Answers(q)' : g[i] \in Answers(q) /\ chan[q]'[i] = chan[q][g[i]]
      /\ \A i, j \in Offers(q)' \cup Answers(q)' : i < j => g[i] < g[j]
      /\ q \in Peer /\ q # p
  BY StepMoves DEF NoSignal
<1>2. /\ \A i \in Offers(p)' \cup Answers(p)' : i \in Nat
      /\ \A i \in Offers(q)' \cup Answers(q)' : i \in Nat
  BY <1>1, PlacesNat DEF Stepping
<1>t. /\ P.epoch \in Nat /\ Q.epoch \in Nat
      /\ \A i \in Offers(q) \cup Answers(q) : i \in Nat
      /\ \A i \in Offers(p) \cup Answers(p) : i \in Nat
  BY <1>1, SignalsTyped DEF Stepping
\* Nothing else of this generation is under way.
<1>p. /\ m.tag = P.offer
      /\ \A j \in Offers(q) : chan[q][j].epoch # P.epoch
      /\ \A j \in Answers(p) : j > 1 => chan[p][j].epoch # P.epoch
  BY <1>0, <1>4, <1>t DEF Exchange, AnswersOut
<1>5. OffersTagged(p, q)' /\ OffersTagged(q, p)'
  BY <1>0, <1>1, <1>3, <1>4 DEF Exchange, OffersTagged
<1>6. AnswersTagged(p)' /\ AnswersTagged(q)'
  BY <1>0, <1>1, <1>3, <1>4 DEF Exchange, AnswersTagged
<1>7. OfferIsLast(p)' /\ OfferIsLast(q)'
  BY <1>0, <1>3, <1>4 DEF Exchange, OfferIsLast
<1>8. OffersOrdered(p)' /\ OffersOrdered(q)'
  BY <1>1, <1>4 DEF Exchange, OffersOrdered
<1>9. OffersOut(p, q)'
  BY <1>0, <1>1, <1>p DEF OffersOut
<1>10. OffersOut(q, p)'
  <2> SUFFICES ASSUME NEW i \in Offers(p)', chan[p]'[i].epoch = Q.epoch
               PROVE  \/ Q.sig = "have-local-offer" /\ chan[p]'[i].tag = Q.offer
                      \/ RolledBack(q, p, i)'
    BY <1>3 DEF OffersOut
  <2>1. f[i] \in Offers(p) /\ chan[p]'[i] = chan[p][f[i]] /\ f[i] > 1
    BY <1>1
  <2>2. CASE Q.sig = "have-local-offer" /\ chan[p][f[i]].tag = Q.offer
    BY <2>1, <2>2
  <2>3. CASE RolledBack(q, p, f[i])
    <3>1. P.epoch # Q.epoch
      BY <1>0, <1>t, <2>1, <2>3 DEF RolledBack
    <3> QED BY <1>0, <1>3, <2>3, <3>1 DEF RolledBack
  <2> QED BY <1>4, <2>1, <2>2, <2>3 DEF Exchange, OffersOut
<1>11. AnswersOut(p, q)'
  BY <1>0, <1>1, <1>p DEF AnswersOut
<1>12. AnswersOut(q, p)'
  <2>1. ASSUME NEW i \in Answers(q)', NEW j \in Answers(q)', g[i] = g[j] PROVE i = j
    BY <1>1, <1>2, <1>t, <2>1
  <2> QED BY <1>1, <1>3, <1>4, <2>1 DEF Exchange, AnswersOut
<1> QED BY <1>p, <1>5, <1>6, <1>7, <1>8, <1>9, <1>10, <1>11, <1>12 DEF Exchange

-----------------------------------------------------------------------------
(* Towards one exchange.                                                    *)

\* The offer p waits with is at place i of what is under way to q; the answer to it is at
\* place i of what is under way to p.
OfferAt(p, q, i) ==
    /\ i \in Offers(q)
    /\ chan[q][i].epoch = peer[p].epoch /\ chan[q][i].tag = peer[p].offer

AnswerAt(p, i) ==
    /\ i \in Answers(p)
    /\ chan[p][i].epoch = peer[p].epoch /\ chan[p][i].tag = peer[p].offer

Offered(p, q) == \E i \in Offers(q) : OfferAt(p, q, i)

\* q has completed the exchange p waits in, and says so before any new offer of its own.
Answered(p, q) ==
    /\ peer[q].settled = peer[p].offer
    /\ \E i \in Answers(p) :
         /\ AnswerAt(p, i)
         /\ peer[q].sig = "have-local-offer" =>
              \E j \in Offers(p) : j > i /\ OfferAt(q, p, j)

\* p's offer was ignored; q's, which made q ignore it, will make p roll back.
Yields(p, q) ==
    p = Answerer /\ peer[q].sig = "have-local-offer" /\ Offered(q, p)

\* Who is a generation ahead has made its offer in it.
Ahead(p, q) ==
    peer[p].epoch > peer[q].epoch => peer[p].sig = "have-local-offer" /\ Offered(p, q)

\* Nobody waits in vain.
Awaits(p, q) ==
    peer[p].epoch = peer[q].epoch /\ peer[p].sig = "have-local-offer" =>
        Offered(p, q) \/ Answered(p, q) \/ Yields(p, q)

Agree(p, q) ==
    peer[p].epoch = peer[q].epoch /\ peer[p].sig = "stable" /\ peer[q].sig = "stable" =>
        peer[p].settled # None /\ peer[p].settled = peer[q].settled

\* The offerer has made its first offer when it has joined.
Joins(p, q) ==
    /\ ~peer[p].joined => peer[p].epoch = 0
    /\ peer[p].joined => peer[p].sig # "none"
    /\ p = Offerer /\ peer[p].joined /\ ~peer[q].joined /\ peer[p].epoch = 0 =>
         peer[p].sig = "have-local-offer"

Converges(p, q) == Ahead(p, q) /\ Awaits(p, q) /\ Agree(p, q) /\ Joins(p, q)

Converging == ~lost => \A p \in Peer : Converges(p, Other(p))

\* Where the signals under way to q are after a step.
Arrives(f, q, from, new) ==
    /\ \A i \in Offers(q) : i > from => f[i] \in Offers(q)' /\ chan[q]'[f[i]] = chan[q][i]
    /\ \A i \in Answers(q) : i > from => f[i] \in Answers(q)' /\ chan[q]'[f[i]] = chan[q][i]
    /\ \A i, j \in Offers(q) \cup Answers(q) : from < i /\ i < j => f[i] < f[j]
    /\ new.kind = "offer" =>
         \E k \in Offers(q)' : /\ chan[q]'[k] = new
                               /\ \A i \in Offers(q) \cup Answers(q) : i > from => f[i] < k
    /\ new.kind = "answer" =>
         \E k \in Answers(q)' : /\ chan[q]'[k] = new
                                /\ \A i \in Offers(q) \cup Answers(q) : i > from => f[i] < k

LEMMA BringsArrives ==
    ASSUME NEW q \in Peer, NEW from, NEW new, Brings(chan[q], chan[q]', from, new)
    PROVE  \E f : Arrives(f, q, from, new)
<1>1. Signals(chan[q]) = Offers(q) \cup Answers(q)
  BY DEF Signals, Offers, Answers
<1>2. Signals(chan[q]') = Offers(q)' \cup Answers(q)'
  BY DEF Signals, Offers, Answers
<1>3. PICK f \in [Nat -> Nat] :
        /\ \A i \in Signals(chan[q]) :
             i > from => f[i] \in Signals(chan[q]') /\ chan[q]'[f[i]] = chan[q][i]
        /\ \A i, j \in Signals(chan[q]) : from < i /\ i < j => f[i] < f[j]
        /\ new.kind \in {"offer", "answer"} =>
             \E k \in Signals(chan[q]') : /\ chan[q]'[k] = new
                                          /\ \A i \in Signals(chan[q]) : i > from => f[i] < k
  BY DEF Brings
<1>4. \A i \in Offers(q) : i > from => f[i] \in Offers(q)' /\ chan[q]'[f[i]] = chan[q][i]
  BY <1>1, <1>3 DEF Signals, Offers
<1>5. \A i \in Answers(q) : i > from => f[i] \in Answers(q)' /\ chan[q]'[f[i]] = chan[q][i]
  BY <1>1, <1>3 DEF Signals, Answers
<1>6. \A i, j \in Offers(q) \cup Answers(q) : from < i /\ i < j => f[i] < f[j]
  BY <1>1, <1>3
<1>7. ASSUME new.kind = "offer"
      PROVE  \E k \in Offers(q)' : /\ chan[q]'[k] = new
                                   /\ \A i \in Offers(q) \cup Answers(q) : i > from => f[i] < k
  <2>1. PICK k \in Signals(chan[q]') : /\ chan[q]'[k] = new
                                       /\ \A i \in Signals(chan[q]) : i > from => f[i] < k
    BY <1>3, <1>7
  <2>2. k \in Offers(q)'
    BY <1>7, <2>1 DEF Signals, Offers
  <2> QED BY <1>1, <2>1, <2>2
<1>8. ASSUME new.kind = "answer"
      PROVE  \E k \in Answers(q)' : /\ chan[q]'[k] = new
                                    /\ \A i \in Offers(q) \cup Answers(q) : i > from => f[i] < k
  <2>1. PICK k \in Signals(chan[q]') : /\ chan[q]'[k] = new
                                       /\ \A i \in Signals(chan[q]) : i > from => f[i] < k
    BY <1>3, <1>8
  <2>2. k \in Answers(q)'
    BY <1>8, <2>1 DEF Signals, Answers
  <2> QED BY <1>1, <2>1, <2>2
<1>9. Arrives(f, q, from, new)
  BY <1>4, <1>5, <1>6, <1>7, <1>8 DEF Arrives
<1> QED BY <1>9

\* A step of p that takes what is under way to p up to place `from`, and sends `new`.
Landing(p, q, from, new, f, g) ==
    /\ TypeOK /\ TypeOK' /\ q = Other(p)
    /\ Exchange(p, q) /\ Exchange(q, p) /\ Fresh(p, q) /\ Fresh(q, p)
    /\ Converges(p, q) /\ Converges(q, p)
    /\ SameExchange(peer[q], peer[q]') /\ peer[q]'.joined = peer[q].joined
    /\ Arrives(f, p, from, NoSignal) /\ Arrives(g, q, 0, new)

\* What is left under way to p, and everything under way to q, is still what it was.
LEMMA LandKeeps ==
    ASSUME NEW p \in Peer, NEW q, NEW from, NEW new, NEW f, NEW g,
           Landing(p, q, from, new, f, g)
    PROVE  /\ q \in Peer /\ q # p /\ Other(q) = p /\ Peer = {p, q}
           /\ peer[p].epoch \in Nat /\ peer[q].epoch \in Nat /\ peer[p]'.epoch \in Nat
           /\ peer[q]'.epoch = peer[q].epoch /\ peer[q]'.sig = peer[q].sig
           /\ peer[q]'.offer = peer[q].offer /\ peer[q]'.settled = peer[q].settled
           /\ peer[q]'.joined = peer[q].joined
           /\ \A i \in Offers(p) \cup Answers(p) : i \in Nat /\ i >= 1 /\ chan[p][i].epoch \in Nat
           /\ \A i \in Offers(q) \cup Answers(q) : i \in Nat /\ i >= 1 /\ chan[q][i].epoch \in Nat
           /\ \A i \in Offers(p) : i > from /\ OfferAt(q, p, i) => OfferAt(q, p, f[i])'
           /\ \A i \in Offers(q) :
                /\ peer[p]'.epoch = peer[p].epoch /\ peer[p]'.offer = peer[p].offer
                /\ OfferAt(p, q, i)
                => OfferAt(p, q, g[i])'
           /\ \A i \in Answers(p) :
                /\ peer[p]'.epoch = peer[p].epoch /\ peer[p]'.offer = peer[p].offer
                /\ i > from /\ AnswerAt(p, i)
                => AnswerAt(p, f[i])'
           /\ \A i \in Answers(q) : AnswerAt(q, i) => AnswerAt(q, g[i])'
           /\ \A i, j \in Offers(p) \cup Answers(p) : from < i /\ i < j => f[i] < f[j]
           /\ \A i, j \in Offers(q) \cup Answers(q) : i < j => g[i] < g[j]
<1>1. q \in Peer /\ q # p /\ Other(q) = p /\ Peer = {p, q}
  BY TwoPeers DEF Landing
<1>2. /\ peer[p].epoch \in Nat /\ peer[q].epoch \in Nat /\ peer[p]'.epoch \in Nat
      /\ \A i \in Offers(p) \cup Answers(p) : i \in Nat /\ i >= 1 /\ chan[p][i].epoch \in Nat
      /\ \A i \in Offers(q) \cup Answers(q) : i \in Nat /\ i >= 1 /\ chan[q][i].epoch \in Nat
  BY <1>1, SignalsTyped DEF Landing, TypeOK, PeerState
<1>3. /\ peer[q]'.epoch = peer[q].epoch /\ peer[q]'.sig = peer[q].sig
      /\ peer[q]'.offer = peer[q].offer /\ peer[q]'.settled = peer[q].settled
      /\ peer[q]'.joined = peer[q].joined
  BY DEF Landing, SameExchange
<1>4. \A i \in Offers(q) \cup Answers(q) : i > 0
  BY <1>2
<1>5. \A i \in Offers(p) : i > from => f[i] \in Offers(p)' /\ chan[p]'[f[i]] = chan[p][i]
  BY DEF Landing, Arrives
<1>6. \A i \in Answers(p) : i > from => f[i] \in Answers(p)' /\ chan[p]'[f[i]] = chan[p][i]
  BY DEF Landing, Arrives
<1>7. \A i \in Offers(q) : g[i] \in Offers(q)' /\ chan[q]'[g[i]] = chan[q][i]
  BY <1>4 DEF Landing, Arrives
<1>8. \A i \in Answers(q) : g[i] \in Answers(q)' /\ chan[q]'[g[i]] = chan[q][i]
  BY <1>4 DEF Landing, Arrives
<1>9. \A i \in Offers(p) : i > from /\ OfferAt(q, p, i) => OfferAt(q, p, f[i])'
  BY <1>3, <1>5 DEF OfferAt
<1>10. \A i \in Offers(q) :
         /\ peer[p]'.epoch = peer[p].epoch /\ peer[p]'.offer = peer[p].offer
         /\ OfferAt(p, q, i)
         => OfferAt(p, q, g[i])'
  BY <1>7 DEF OfferAt
<1>11. \A i \in Answers(p) :
         /\ peer[p]'.epoch = peer[p].epoch /\ peer[p]'.offer = peer[p].offer
         /\ i > from /\ AnswerAt(p, i)
         => AnswerAt(p, f[i])'
  BY <1>6 DEF AnswerAt
<1>12. \A i \in Answers(q) : AnswerAt(q, i) => AnswerAt(q, g[i])'
  BY <1>3, <1>8 DEF AnswerAt
<1>13. \A i, j \in Offers(p) \cup Answers(p) : from < i /\ i < j => f[i] < f[j]
  BY DEF Landing, Arrives
<1>14. \A i, j \in Offers(q) \cup Answers(q) : i < j => g[i] < g[j]
  BY <1>4 DEF Landing, Arrives
<1> QED BY <1>1, <1>2, <1>3, <1>9, <1>10, <1>11, <1>12, <1>13, <1>14

LEMMA OfferMade ==
    ASSUME TypeOK, NEW p \in Peer, OfferIsLast(p), peer[p].sig = "have-local-offer"
    PROVE  peer[p].offer # None
<1>1. peer[p].epoch \in Nat /\ peer[p].offers \in Nat
  BY SignalsTyped
<1> QED BY <1>1, TagMade DEF OfferIsLast

\* The other side of a new offer of p, in a generation that is not older.
LEMMA LandOffered ==
    ASSUME NEW p \in Peer, NEW q, NEW from, NEW f, NEW g, NEW new,
           Landing(p, q, from, new, f, g),
           new = Message("offer", peer[p]'.epoch, peer[p]'.offer),
           peer[p]'.sig = "have-local-offer", peer[p]'.joined
    PROVE  /\ \E k \in Offers(q)' :
                OfferAt(p, q, k)' /\ \A i \in Offers(q) \cup Answers(q) : g[i] < k
           /\ Converges(p, q)' /\ Agree(q, p)'
<1>1. new.kind = "offer" /\ new.epoch = peer[p]'.epoch /\ new.tag = peer[p]'.offer
  BY DEF Message
<1>2. \A i \in Offers(q) \cup Answers(q) : i > 0
  BY LandKeeps
<1>3. PICK k \in Offers(q)' : /\ chan[q]'[k] = new
                              /\ \A i \in Offers(q) \cup Answers(q) : g[i] < k
  BY <1>1, <1>2 DEF Landing, Arrives
<1>4. OfferAt(p, q, k)'
  BY <1>1, <1>3 DEF OfferAt
<1>5. Offered(p, q)'
  BY <1>4 DEF Offered
<1>6. Ahead(p, q)' /\ Awaits(p, q)' /\ Agree(p, q)' /\ Joins(p, q)' /\ Agree(q, p)'
  BY <1>5 DEF Ahead, Awaits, Agree, Joins
<1> QED BY <1>3, <1>4, <1>6 DEF Converges

\* p renegotiates.
LEMMA LandOffers ==
    ASSUME NEW p \in Peer, NEW q, NEW f, NEW g, NEW new,
           Landing(p, q, 0, new, f, g),
           new = Message("offer", peer[p]'.epoch, peer[p]'.offer),
           Offers1(p, peer[p], peer[p]', OfferItems(peer[p]')), peer[p]'.joined, peer[p].joined
    PROVE  Converges(p, q)' /\ Converges(q, p)'
<1>1. /\ q \in Peer /\ q # p /\ peer[q]'.epoch = peer[q].epoch /\ peer[q]'.sig = peer[q].sig
      /\ peer[q]'.offer = peer[q].offer /\ peer[q]'.settled = peer[q].settled
      /\ peer[q]'.joined = peer[q].joined
      /\ \A i \in Offers(p) : OfferAt(q, p, i) => OfferAt(q, p, f[i])'
      /\ \A i \in Answers(q) : AnswerAt(q, i) => AnswerAt(q, g[i])'
  <2>1. \A i \in Offers(p) : i > 0
    BY LandKeeps
  <2> QED BY <2>1, LandKeeps
<1>2. /\ peer[p].sig = "stable" /\ peer[p]'.sig = "have-local-offer"
      /\ peer[p]'.epoch = peer[p].epoch /\ peer[p]'.settled = peer[p].settled
  BY DEF Offers1, HasOffered
<1>3. PICK k \in Offers(q)' :
        OfferAt(p, q, k)' /\ \A i \in Offers(q) \cup Answers(q) : g[i] < k
  BY <1>2, LandOffered
<1>4. Converges(p, q)' /\ Agree(q, p)'
  BY <1>2, LandOffered
<1>5. Ahead(q, p) /\ Awaits(q, p) /\ Joins(q, p)
  BY DEF Landing, Converges
<1>6. Offered(q, p) => Offered(q, p)'
  <2> SUFFICES ASSUME NEW i \in Offers(p), OfferAt(q, p, i) PROVE Offered(q, p)'
    BY DEF Offered
  <2>1. OfferAt(q, p, f[i])'
    BY <1>1
  <2> QED BY <2>1 DEF Offered, OfferAt
<1>7. Ahead(q, p)'
  BY <1>1, <1>2, <1>5, <1>6 DEF Ahead
<1>8. Joins(q, p)'
  BY <1>1, <1>5 DEF Joins
<1>9. Answered(q, p) => Answered(q, p)'
  <2> SUFFICES ASSUME NEW i \in Answers(q), AnswerAt(q, i), peer[p].settled = peer[q].offer
               PROVE  Answered(q, p)'
    BY DEF Answered
  <2>1. AnswerAt(q, g[i])' /\ g[i] < k
    BY <1>1, <1>3
  <2>2. g[i] \in Answers(q)'
    BY <2>1 DEF AnswerAt
  <2>3. k > g[i]
    BY <2>1, <2>2, <1>3, <1>1, PlacesNat DEF Landing
  <2> QED BY <1>1, <1>2, <1>3, <2>1, <2>2, <2>3 DEF Answered
<1>10. ~Yields(q, p)
  BY <1>2 DEF Yields
<1>11. Awaits(q, p)'
  BY <1>1, <1>2, <1>5, <1>6, <1>9, <1>10 DEF Awaits
<1> QED BY <1>4, <1>7, <1>8, <1>11 DEF Converges

\* p begins a later generation, with an offer.  It did not do so over an offer of one.
LEMMA LandBegins ==
    ASSUME NEW p \in Peer, NEW q, NEW from, NEW f, NEW g, NEW new,
           Landing(p, q, from, new, f, g), from \in {0, 1},
           new = Message("offer", peer[p]'.epoch, peer[p]'.offer),
           peer[p]'.epoch > peer[p].epoch, peer[p]'.sig = "have-local-offer", peer[p]'.joined,
           from = 1 /\ chan[p][1].kind = "offer" => chan[p][1].epoch = peer[p].epoch
    PROVE  Converges(p, q)' /\ Converges(q, p)'
<1>1. /\ q \in Peer /\ q # p /\ peer[q]'.epoch = peer[q].epoch /\ peer[q]'.sig = peer[q].sig
      /\ peer[q]'.offer = peer[q].offer /\ peer[q]'.joined = peer[q].joined
      /\ peer[p].epoch \in Nat /\ peer[q].epoch \in Nat /\ peer[p]'.epoch \in Nat
      /\ \A i \in Offers(p) : i \in Nat /\ i >= 1
      /\ \A i \in Offers(p) : i > from /\ OfferAt(q, p, i) => OfferAt(q, p, f[i])'
  BY LandKeeps
<1>2. Converges(p, q)' /\ Agree(q, p)'
  BY LandOffered
<1>3. Ahead(q, p) /\ Joins(q, p)
  BY DEF Landing, Converges
<1>4. ASSUME peer[q].epoch > peer[p].epoch
      PROVE  peer[q].sig = "have-local-offer" /\ Offered(q, p)'
  <2>1. PICK i \in Offers(p) : OfferAt(q, p, i)
    BY <1>3, <1>4 DEF Ahead, Offered
  <2>2. peer[q].sig = "have-local-offer"
    BY <1>3, <1>4 DEF Ahead
  <2>3. chan[p][i].epoch = peer[q].epoch /\ chan[p][i].kind = "offer"
    BY <2>1 DEF OfferAt, Offers
  <2>4. i > from
    <3>1. from = 1 => i # 1
      BY <1>1, <1>4, <2>3
    <3> QED BY <1>1, <3>1
  <2>5. OfferAt(q, p, f[i])'
    BY <1>1, <2>1, <2>4
  <2> QED BY <2>2, <2>5 DEF Offered, OfferAt
<1>5. Ahead(q, p)'
  BY <1>1, <1>4 DEF Ahead
<1>6. Awaits(q, p)'
  BY <1>1, <1>4 DEF Awaits
<1>7. Joins(q, p)'
  BY <1>1, <1>3 DEF Joins
<1> QED BY <1>2, <1>5, <1>6, <1>7 DEF Converges

\* p joins: the offerer with its offer.
LEMMA LandJoins ==
    ASSUME NEW p \in Peer, NEW q, NEW f, NEW g, NEW new,
           Landing(p, q, 0, new, f, g),
           ~peer[p].joined, peer[p]'.joined, peer[p]'.epoch = peer[p].epoch,
           peer[p]'.settled = None,
           IF p = Offerer
           THEN /\ peer[p]'.sig = "have-local-offer"
                /\ new = Message("offer", peer[p]'.epoch, peer[p]'.offer)
           ELSE peer[p]'.sig = "stable"
    PROVE  Converges(p, q)' /\ Converges(q, p)'
<1>1. /\ q \in Peer /\ q # p /\ peer[q]'.epoch = peer[q].epoch /\ peer[q]'.sig = peer[q].sig
      /\ peer[q]'.offer = peer[q].offer /\ peer[q]'.settled = peer[q].settled
      /\ peer[q]'.joined = peer[q].joined /\ Peer = {p, q}
      /\ peer[p].epoch \in Nat /\ peer[q].epoch \in Nat
      /\ \A i \in Offers(p) : i \in Nat /\ i >= 1
      /\ \A i \in Offers(p) : i > 0 /\ OfferAt(q, p, i) => OfferAt(q, p, f[i])'
  BY LandKeeps
<1>2. /\ peer[p].epoch = 0 /\ peer[p].sig = "none" /\ peer[p].settled = None
      /\ Ahead(q, p) /\ Awaits(q, p) /\ Joins(q, p)
  BY DEF Landing, Converges, Joins, Fresh
<1>3. Offered(q, p) => Offered(q, p)'
  <2> SUFFICES ASSUME NEW i \in Offers(p), OfferAt(q, p, i) PROVE Offered(q, p)'
    BY DEF Offered
  <2>1. OfferAt(q, p, f[i])'
    BY <1>1
  <2> QED BY <2>1 DEF Offered, OfferAt
<1>4. Ahead(q, p)'
  BY <1>1, <1>2, <1>3 DEF Ahead
<1>5. peer[q].sig = "have-local-offer" => peer[q].offer # None
  BY <1>1, OfferMade DEF Landing, Exchange
<1>6. Awaits(q, p)'
  BY <1>1, <1>2, <1>3, <1>5 DEF Awaits, Answered, Yields
<1>7. Joins(q, p)'
  BY <1>1, <1>2 DEF Joins
<1>8. CASE p = Offerer
  BY <1>4, <1>6, <1>7, <1>8, LandOffered DEF Converges
<1>9. CASE p # Offerer
  <2>1. q = Offerer
    BY <1>1, <1>9 DEF Peer
  <2>2. ~(peer[q].sig = "stable" /\ peer[q].epoch = 0)
    BY <1>2, <2>1 DEF Joins, Landing, Fresh
  <2>3. Agree(q, p)' /\ Agree(p, q)'
    BY <1>1, <1>2, <2>2 DEF Agree
  <2>4. Ahead(p, q)' /\ Awaits(p, q)' /\ Joins(p, q)'
    BY <1>1, <1>2, <1>9 DEF Ahead, Awaits, Joins
  <2> QED BY <1>4, <1>6, <1>7, <2>3, <2>4 DEF Converges
<1> QED BY <1>8, <1>9

\* p answers the offer that comes first, in its generation.
LEMMA LandAnswers ==
    ASSUME NEW p \in Peer, NEW q, NEW f, NEW g, NEW new, NEW m,
           Landing(p, q, 1, new, f, g), 1 \in DOMAIN chan[p], m = chan[p][1],
           Answering(p, peer[p], peer[p]', m, <<new>>), peer[p]'.epoch = m.epoch,
           new = Message("answer", peer[p]'.epoch, m.tag),
           peer[p].joined, peer[p]'.joined
    PROVE  Converges(p, q)' /\ Converges(q, p)'
<1>1. /\ q \in Peer /\ q # p /\ peer[q]'.epoch = peer[q].epoch /\ peer[q]'.sig = peer[q].sig
      /\ peer[q]'.offer = peer[q].offer /\ peer[q]'.settled = peer[q].settled
      /\ peer[q]'.joined = peer[q].joined /\ Peer = {p, q}
      /\ peer[p].epoch \in Nat /\ peer[q].epoch \in Nat /\ peer[p]'.epoch \in Nat
      /\ \A i \in Offers(p) : i \in Nat /\ i >= 1
      /\ \A i \in Offers(q) \cup Answers(q) : i > 0
      /\ \A i \in Offers(p) : i > 1 /\ OfferAt(q, p, i) => OfferAt(q, p, f[i])'
  BY LandKeeps
<1>2. /\ m.kind = "offer" /\ m.epoch >= peer[p].epoch /\ peer[p]'.sig = "stable"
      /\ peer[p]'.settled = m.tag
      /\ m.epoch = peer[p].epoch => p = Answerer \/ peer[p].sig = "stable"
      /\ new.kind = "answer" /\ new.epoch = m.epoch /\ new.tag = m.tag
      /\ 1 \in Offers(p)
  BY DEF Answering, Message, Offers
<1>3. m.tag # None /\ m.epoch <= peer[q].epoch
  BY <1>2 DEF Landing, Exchange, OffersTagged
<1>4. /\ Ahead(q, p) /\ Joins(q, p) /\ OffersOut(q, p) /\ Fresh(q, p)
  BY DEF Landing, Converges, Exchange
<1>5. peer[q].joined
  BY <1>2, <1>4 DEF Fresh
<1>6. ASSUME m.epoch = peer[q].epoch
      PROVE  peer[q].sig = "have-local-offer" /\ m.tag = peer[q].offer
  <2>1. ~RolledBack(q, p, 1)
    BY <1>1, <1>2, <1>6 DEF RolledBack
  <2> QED BY <1>2, <1>4, <1>6, <2>1 DEF OffersOut
<1>7. Ahead(p, q)' /\ Awaits(p, q)' /\ Joins(p, q)' /\ Joins(q, p)'
  BY <1>1, <1>2, <1>3, <1>4, <1>5 DEF Ahead, Awaits, Joins
<1>8. Agree(p, q)' /\ Agree(q, p)'
  BY <1>1, <1>6 DEF Agree
<1>9. Ahead(q, p)'
  <2> SUFFICES ASSUME peer[q].epoch > m.epoch
               PROVE  peer[q].sig = "have-local-offer" /\ Offered(q, p)'
    BY <1>1 DEF Ahead
  <2>1. peer[q].epoch > peer[p].epoch
    BY <1>1, <1>2
  <2>2. PICK i \in Offers(p) : OfferAt(q, p, i)
    BY <1>4, <2>1 DEF Ahead, Offered
  <2>3. i # 1
    BY <1>1, <2>2 DEF OfferAt
  <2>4. OfferAt(q, p, f[i])'
    BY <1>1, <2>2, <2>3
  <2> QED BY <1>4, <2>1, <2>4 DEF Ahead, Offered, OfferAt
<1>10. Awaits(q, p)'
  <2> SUFFICES ASSUME peer[q].epoch = m.epoch, peer[q].sig = "have-local-offer"
               PROVE  Answered(q, p)'
    BY <1>1 DEF Awaits
  <2>1. PICK k \in Answers(q)' : chan[q]'[k] = new
    BY <1>1, <1>2 DEF Landing, Arrives
  <2>2. AnswerAt(q, k)'
    BY <1>1, <1>2, <1>6, <2>1 DEF AnswerAt
  <2>3. peer[p]'.settled = peer[q]'.offer /\ peer[p]'.sig = "stable"
    BY <1>1, <1>2, <1>6
  <2> QED BY <2>1, <2>2, <2>3 DEF Answered
<1> QED BY <1>7, <1>8, <1>9, <1>10 DEF Converges

\* p takes the answer that comes first: it and q have completed the same exchange.
LEMMA LandCompletes ==
    ASSUME NEW p \in Peer, NEW q, NEW f, NEW g, NEW m,
           Landing(p, q, 1, NoSignal, f, g), 1 \in DOMAIN chan[p], m = chan[p][1],
           Completing(peer[p], peer[p]', m, <<>>), peer[p].joined, peer[p]'.joined
    PROVE  Converges(p, q)' /\ Converges(q, p)'
<1>1. /\ q \in Peer /\ q # p /\ peer[q]'.epoch = peer[q].epoch /\ peer[q]'.sig = peer[q].sig
      /\ peer[q]'.offer = peer[q].offer /\ peer[q]'.settled = peer[q].settled
      /\ peer[q]'.joined = peer[q].joined /\ Peer = {p, q}
      /\ peer[p].epoch \in Nat /\ peer[q].epoch \in Nat
      /\ \A i \in Offers(p) : i \in Nat /\ i >= 1
      /\ \A i \in Offers(p) : i > 1 /\ OfferAt(q, p, i) => OfferAt(q, p, f[i])'
  BY LandKeeps
<1>2. /\ m.kind = "answer" /\ m.epoch = peer[p].epoch /\ peer[p].sig = "have-local-offer"
      /\ peer[p]'.sig = "stable" /\ peer[p]'.epoch = peer[p].epoch
      /\ peer[p]'.settled = m.tag
      /\ 1 \in Answers(p) /\ 1 \notin Offers(p)
  BY DEF Completing, Offers, Answers
<1>3. m.tag = peer[p].offer /\ \A j \in Offers(q) : chan[q][j].epoch # peer[p].epoch
  BY <1>2 DEF Landing, Exchange, AnswersOut
<1>4. peer[p].offer # None
  BY <1>2, OfferMade DEF Landing, Exchange
<1>5. ~Offered(p, q)
  BY <1>3 DEF Offered, OfferAt
<1>6. /\ Ahead(p, q) /\ Awaits(p, q) /\ Ahead(q, p) /\ Awaits(q, p)
      /\ Joins(p, q) /\ Joins(q, p) /\ Fresh(q, p)
  BY DEF Landing, Converges
<1>7. Offered(q, p) => Offered(q, p)'
  <2> SUFFICES ASSUME NEW i \in Offers(p), OfferAt(q, p, i) PROVE Offered(q, p)'
    BY DEF Offered
  <2>1. i # 1
    BY <1>2
  <2>2. OfferAt(q, p, f[i])'
    BY <1>1, <2>1
  <2> QED BY <2>2 DEF Offered, OfferAt
<1>8. Ahead(p, q)' /\ Ahead(q, p)'
  BY <1>1, <1>2, <1>5, <1>6, <1>7 DEF Ahead
<1>9. peer[p].epoch = peer[q].epoch =>
        \/ peer[q].settled = peer[p].offer /\ Answered(p, q)
        \/ peer[q].sig = "have-local-offer"
  BY <1>2, <1>5, <1>6 DEF Awaits, Answered, Yields
<1>10. Agree(p, q)' /\ Agree(q, p)'
  BY <1>1, <1>2, <1>3, <1>4, <1>9 DEF Agree
<1>11. Awaits(p, q)'
  BY <1>2 DEF Awaits
<1>12. ~Answered(q, p) /\ ~Yields(q, p)
  <2>1. ~Yields(q, p)
    BY <1>5 DEF Yields
  <2>2. ASSUME NEW j \in Offers(q) PROVE ~OfferAt(p, q, j)
    BY <1>5, <2>2 DEF Offered
  <2> QED BY <1>2, <2>1, <2>2 DEF Answered
<1>13. Awaits(q, p)'
  BY <1>1, <1>2, <1>6, <1>7, <1>12 DEF Awaits
<1>14. Joins(q, p)'
  BY <1>1, <1>6 DEF Joins
<1>15. Joins(p, q)'
  <2> SUFFICES ASSUME ~peer[q].joined, peer[p].epoch = 0 PROVE FALSE
    BY <1>1, <1>2 DEF Joins
  <2>1. peer[q].epoch = 0 /\ peer[q].settled = None /\ peer[q].sig = "none"
    BY <1>6 DEF Joins, Fresh
  <2> QED BY <1>4, <1>9, <2>1
<1> QED BY <1>8, <1>10, <1>11, <1>13, <1>14, <1>15 DEF Converges

\* p is left as it is, by a signal that is idle or by anything else.
LEMMA LandSame ==
    ASSUME NEW p \in Peer, NEW q, NEW from, NEW f, NEW g,
           Landing(p, q, from, NoSignal, f, g), from \in {0, 1},
           SameExchange(peer[p], peer[p]'), peer[p]'.joined = peer[p].joined,
           from = 1 /\ chan[p][1].kind \in {"offer", "answer"} =>
             peer[p].joined /\ Idle(p, peer[p], chan[p][1])
    PROVE  Converges(p, q)' /\ Converges(q, p)'
<1> DEFINE P == peer[p]
           Q == peer[q]
<1>1. /\ q \in Peer /\ q # p /\ Other(q) = p /\ Peer = {p, q}
      /\ peer[q]'.epoch = Q.epoch /\ peer[q]'.sig = Q.sig
      /\ peer[q]'.offer = Q.offer /\ peer[q]'.settled = Q.settled
      /\ peer[q]'.joined = Q.joined
      /\ P.epoch \in Nat /\ Q.epoch \in Nat
  BY LandKeeps
<1>2. /\ peer[p]'.epoch = P.epoch /\ peer[p]'.sig = P.sig /\ peer[p]'.offer = P.offer
      /\ peer[p]'.settled = P.settled /\ peer[p]'.joined = P.joined
  BY DEF SameExchange
<1>3. /\ Ahead(p, q) /\ Awaits(p, q) /\ Agree(p, q) /\ Joins(p, q)
      /\ Ahead(q, p) /\ Awaits(q, p) /\ Agree(q, p) /\ Joins(q, p)
  BY DEF Landing, Converges
<1>4. /\ \A i \in Offers(p) \cup Answers(p) : i \in Nat /\ i >= 1 /\ chan[p][i].epoch \in Nat
      /\ \A i \in Offers(q) \cup Answers(q) : i \in Nat /\ i >= 1
  BY LandKeeps
<1>5. /\ \A i \in Offers(p) : i > from /\ OfferAt(q, p, i) => OfferAt(q, p, f[i])'
      /\ \A i \in Offers(q) : OfferAt(p, q, i) => OfferAt(p, q, g[i])'
      /\ \A i \in Answers(p) : i > from /\ AnswerAt(p, i) => AnswerAt(p, f[i])'
      /\ \A i \in Answers(q) : AnswerAt(q, i) => AnswerAt(q, g[i])'
  BY <1>2, LandKeeps
<1>6. /\ \A i, j \in Offers(p) \cup Answers(p) : from < i /\ i < j => f[i] < f[j]
      /\ \A i, j \in Offers(q) \cup Answers(q) : i < j => g[i] < g[j]
  BY LandKeeps
<1>n. /\ \A i \in Offers(p)' \cup Answers(p)' : i \in Nat
      /\ \A i \in Offers(q)' \cup Answers(q)' : i \in Nat
  BY <1>1, PlacesNat DEF Landing
<1>7. Offered(p, q) => Offered(p, q)'
  BY <1>5 DEF Offered, OfferAt
\* Of what p takes, nothing counts but an offer that the impolite peer ignores.
<1>8. ASSUME NEW i \in Offers(p), OfferAt(q, p, i), ~(i > from)
      PROVE  /\ P.epoch >= Q.epoch
             /\ P.epoch = Q.epoch => p # Answerer /\ P.sig = "have-local-offer"
  <2>1. from = 1 /\ i = 1
    BY <1>4, <1>8
  <2>2. chan[p][1].kind = "offer" /\ chan[p][1].epoch = Q.epoch
    BY <1>8, <2>1 DEF OfferAt, Offers
  <2>3. P.joined /\ Idle(p, P, chan[p][1])
    BY <2>1, <2>2
  <2>4. P.sig # "none" /\ P.sig \in {"none", "stable", "have-local-offer"}
    BY <1>3, <2>3, PeerTyped DEF Joins, Landing, PeerState
  <2> QED BY <1>1, <2>2, <2>3, <2>4 DEF Idle
<1>9. ASSUME NEW i \in Answers(p), AnswerAt(p, i), P.sig = "have-local-offer"
      PROVE  i > from
  <2> SUFFICES ASSUME ~(i > from) PROVE FALSE
    OBVIOUS
  <2>1. from = 1 /\ i = 1
    BY <1>4, <1>9
  <2>2. chan[p][1].kind = "answer" /\ chan[p][1].epoch = P.epoch
    BY <1>9, <2>1 DEF AnswerAt, Answers
  <2> QED BY <1>1, <1>9, <2>1, <2>2 DEF Idle
<1>10. Ahead(p, q)' /\ Ahead(q, p)'
  <2>1. Ahead(p, q)'
    BY <1>1, <1>2, <1>3, <1>7 DEF Ahead
  <2>2. ASSUME Q.epoch > P.epoch PROVE Offered(q, p)'
    <3>1. PICK i \in Offers(p) : OfferAt(q, p, i)
      BY <1>3, <2>2 DEF Ahead, Offered
    <3>2. i > from
      BY <1>1, <1>8, <2>2, <3>1
    <3> QED BY <1>5, <3>1, <3>2 DEF Offered, OfferAt
  <2> QED BY <1>1, <1>2, <1>3, <2>1, <2>2 DEF Ahead
<1>11. Agree(p, q)' /\ Agree(q, p)' /\ Joins(p, q)' /\ Joins(q, p)'
  BY <1>1, <1>2, <1>3 DEF Agree, Joins
\* The answer p waits for is left, and so is an offer of q behind it.
<1>12. ASSUME Answered(p, q), P.sig = "have-local-offer" PROVE Answered(p, q)'
  <2>1. PICK i \in Answers(p) :
          /\ AnswerAt(p, i)
          /\ Q.sig = "have-local-offer" => \E j \in Offers(p) : j > i /\ OfferAt(q, p, j)
    BY <1>12 DEF Answered
  <2>2. i > from
    BY <1>9, <1>12, <2>1
  <2>3. AnswerAt(p, f[i])'
    BY <1>5, <2>1, <2>2
  <2>4. ASSUME Q.sig = "have-local-offer"
        PROVE  \E j \in Offers(p)' : j > f[i] /\ OfferAt(q, p, j)'
    <3>1. PICK j \in Offers(p) : j > i /\ OfferAt(q, p, j)
      BY <2>1, <2>4
    <3>2. j > from /\ i < j
      BY <1>4, <2>2, <3>1
    <3>3. OfferAt(q, p, f[j])' /\ f[i] < f[j]
      BY <1>5, <1>6, <2>2, <3>1, <3>2
    <3>4. f[j] \in Offers(p)' /\ f[i] \in Answers(p)'
      BY <2>3, <3>3 DEF OfferAt, AnswerAt
    <3>5. f[j] > f[i]
      BY <1>n, <3>3, <3>4
    <3> QED BY <3>3, <3>4, <3>5
  <2>5. peer[q]'.settled = peer[p]'.offer
    BY <1>1, <1>2, <1>12 DEF Answered
  <2> QED BY <1>1, <2>3, <2>4, <2>5 DEF Answered, AnswerAt
<1>13. ASSUME Answered(q, p) PROVE Answered(q, p)'
  <2>1. PICK i \in Answers(q) :
          /\ AnswerAt(q, i)
          /\ P.sig = "have-local-offer" => \E j \in Offers(q) : j > i /\ OfferAt(p, q, j)
    BY <1>13 DEF Answered
  <2>2. AnswerAt(q, g[i])'
    BY <1>5, <2>1
  <2>3. ASSUME P.sig = "have-local-offer"
        PROVE  \E j \in Offers(q)' : j > g[i] /\ OfferAt(p, q, j)'
    <3>1. PICK j \in Offers(q) : j > i /\ OfferAt(p, q, j)
      BY <2>1, <2>3
    <3>2. i < j
      BY <1>4, <3>1
    <3>3. OfferAt(p, q, g[j])' /\ g[i] < g[j]
      BY <1>5, <1>6, <3>1, <3>2
    <3>4. g[j] \in Offers(q)' /\ g[i] \in Answers(q)'
      BY <2>2, <3>3 DEF OfferAt, AnswerAt
    <3>5. g[j] > g[i]
      BY <1>n, <3>3, <3>4
    <3> QED BY <3>3, <3>4, <3>5
  <2>4. peer[p]'.settled = peer[q]'.offer
    BY <1>1, <1>2, <1>13 DEF Answered
  <2> QED BY <1>2, <2>2, <2>3, <2>4 DEF Answered, AnswerAt
<1>14. Awaits(p, q)'
  <2> SUFFICES ASSUME P.epoch = Q.epoch, P.sig = "have-local-offer"
               PROVE  Offered(p, q)' \/ Answered(p, q)' \/ Yields(p, q)'
    BY <1>1, <1>2 DEF Awaits
  <2>1. CASE Yields(p, q)
    <3>1. PICK i \in Offers(p) : OfferAt(q, p, i)
      BY <2>1 DEF Yields, Offered
    <3>2. i > from
      BY <1>8, <2>1, <3>1 DEF Yields
    <3>3. Offered(q, p)'
      BY <1>5, <3>1, <3>2 DEF Offered, OfferAt
    <3> QED BY <1>1, <2>1, <3>3 DEF Yields
  <2> QED BY <1>3, <1>7, <1>12, <2>1 DEF Awaits
<1>15. Awaits(q, p)'
  <2> SUFFICES ASSUME Q.epoch = P.epoch, Q.sig = "have-local-offer"
               PROVE  Offered(q, p)' \/ Answered(q, p)' \/ Yields(q, p)'
    BY <1>1, <1>2 DEF Awaits
  <2>1. CASE Yields(q, p)
    BY <1>2, <1>7, <2>1 DEF Yields
  <2>2. CASE Offered(q, p)
    <3>1. PICK i \in Offers(p) : OfferAt(q, p, i)
      BY <2>2 DEF Offered
    <3>2. CASE i > from
      BY <1>5, <3>1, <3>2 DEF Offered, OfferAt
    <3>3. CASE ~(i > from)
      <4>1. p # Answerer /\ P.sig = "have-local-offer" /\ q = Answerer
        BY <1>1, <1>8, <3>1, <3>3 DEF Peer
      <4>2. CASE Offered(p, q)
        BY <1>2, <1>7, <4>1, <4>2 DEF Yields
      <4>3. CASE Answered(p, q)
        <5>1. PICK k \in Answers(p) :
                /\ AnswerAt(p, k) /\ \E j \in Offers(p) : j > k /\ OfferAt(q, p, j)
          BY <4>3 DEF Answered
        <5>2. PICK j \in Offers(p) : j > k /\ OfferAt(q, p, j)
          BY <5>1
        <5>3. j > from
          BY <1>4, <5>1, <5>2
        <5> QED BY <1>5, <5>2, <5>3 DEF Offered, OfferAt
      <4> QED BY <1>3, <4>1, <4>2, <4>3 DEF Awaits, Yields
    <3> QED BY <3>2, <3>3
  <2> QED BY <1>3, <1>13, <2>1, <2>2 DEF Awaits
<1> QED BY <1>10, <1>11, <1>14, <1>15 DEF Converges

-----------------------------------------------------------------------------
(* The epoch of a resume is a number: what is under way is finite.          *)

LEMMA NatMin ==
    ASSUME NEW T, T \subseteq Nat, T # {}
    PROVE  \E x \in T : \A y \in T : x <= y
<1>1. PICK x \in T : \A y \in T : <<y, x>> \notin OpToRel(<, Nat)
  BY NatLessThanWellFounded, WFMin
<1>2. \A y \in T : ~(y < x)
  BY <1>1 DEF OpToRel
<1> QED BY <1>2

LEMMA NatMax ==
    ASSUME NEW T, T \subseteq Nat, T # {}, NEW b \in Nat, \A y \in T : y <= b
    PROVE  Max(T) \in T
<1> DEFINE D == {b - y : y \in T}
<1>1. D \subseteq Nat /\ D # {}
  <2>1. \A y \in T : b - y \in Nat
    OBVIOUS
  <2>2. D \subseteq Nat
    BY <2>1
  <2>3. PICK y \in T : TRUE
    OBVIOUS
  <2>4. b - y \in D
    OBVIOUS
  <2> QED BY <2>2, <2>4
<1>2. PICK d \in D : \A z \in D : d <= z
  BY <1>1, NatMin
<1>3. PICK x \in T : d = b - x
  BY <1>2
<1>4. \A y \in T : b - x <= b - y
  BY <1>2, <1>3
<1>5. \A y \in T : x >= y
  BY <1>4
<1> QED BY <1>5 DEF Max

LEMMA SeqBound ==
    ASSUME NEW s \in Seq(Nat)
    PROVE  \E b \in Nat : \A i \in DOMAIN s : s[i] <= b
<1> DEFINE Bad == {n \in 0..Len(s) : \A b \in Nat : \E i \in 1..n : ~(s[i] <= b)}
<1>0. Len(s) \in Nat /\ DOMAIN s = 1..Len(s) /\ \A i \in 1..Len(s) : s[i] \in Nat
  OBVIOUS
<1>1. Bad = {}
  <2> SUFFICES ASSUME Bad # {} PROVE FALSE
    OBVIOUS
  <2>1. PICK n \in Bad : \A k \in Bad : n <= k
    <3>1. Bad \subseteq Nat
      BY <1>0
    <3> HIDE DEF Bad
    <3> QED BY <3>1, NatMin
  <2>2. n \in Nat /\ n <= Len(s) /\ \A b \in Nat : \E i \in 1..n : ~(s[i] <= b)
    BY <1>0
  <2>3. n # 0
    BY <2>2
  <2>4. n - 1 \in 0..Len(s) /\ ~(n <= n - 1)
    BY <1>0, <2>2, <2>3
  <2>5. PICK b \in Nat : \A i \in 1..n - 1 : s[i] <= b
    BY <2>1, <2>4
  <2>6. PICK x \in Nat : x = s[n]
    BY <1>0, <2>2, <2>3
  <2>7. b + x \in Nat /\ x <= b + x /\ \A y \in Nat : y <= b => y <= b + x
    OBVIOUS
  <2>8. PICK i \in 1..n : ~(s[i] <= b + x)
    BY <2>2, <2>7
  <2>9. i # n
    BY <2>6, <2>7, <2>8
  <2>10. i \in 1..n - 1 /\ i \in 1..Len(s)
    BY <1>0, <2>2, <2>8, <2>9
  <2>11. s[i] <= b /\ s[i] \in Nat
    BY <1>0, <2>5, <2>10
  <2> QED BY <2>7, <2>8, <2>11
<1>2. Len(s) \notin Bad
  BY <1>1
<1> QED BY <1>0, <1>2

LEMMA NextEpochNat ==
    ASSUME TypeOK
    PROVE  NextEpoch \in Nat
<1> DEFINE Under(p) == {m.epoch : m \in {n \in Range(chan[p]) : "epoch" \in DOMAIN n}}
           E == {peer[p].epoch : p \in Peer} \cup UNION {Under(p) : p \in Peer}
<1>1. ASSUME NEW p \in Peer
      PROVE  Under(p) \subseteq Nat /\ \E b \in Nat : \A x \in Under(p) : x <= b
  <2> DEFINE of(m) == IF "epoch" \in DOMAIN m THEN m.epoch ELSE 0
             s == [i \in DOMAIN chan[p] |-> of(chan[p][i])]
  <2>1. chan[p] \in Seq(Item)
    BY DEF TypeOK
  <2>2. \A m \in Item : of(m) \in Nat
    BY DEF Item
  <2>3. s \in Seq(Nat)
    <3>1. DOMAIN chan[p] = 1..Len(chan[p]) /\ Len(chan[p]) \in Nat
      BY <2>1
    <3>2. \A i \in 1..Len(chan[p]) : of(chan[p][i]) \in Nat
      BY <2>1, <2>2
    <3> HIDE DEF of
    <3>3. s = [i \in 1..Len(chan[p]) |-> of(chan[p][i])]
      BY <3>1
    <3> QED BY <3>1, <3>2, <3>3
  <2>4. \A x \in Under(p) : \E i \in DOMAIN s : x = s[i]
    BY DEF Range
  <2>5. PICK b \in Nat : \A i \in DOMAIN s : s[i] <= b
    <3> HIDE DEF s
    <3> QED BY <2>3, SeqBound
  <2>6. \A i \in DOMAIN s : s[i] \in Nat
    <3> HIDE DEF s
    <3> QED BY <2>3
  <2> HIDE DEF s
  <2> QED BY <2>4, <2>5, <2>6
<1>2. ASSUME NEW p \in Peer PROVE peer[p].epoch \in Nat
  BY DEF TypeOK, PeerState
<1>3. Offerer \in Peer /\ Answerer \in Peer /\ Peer = {Offerer, Answerer}
  BY DEF Peer
<1> HIDE DEF Under
<1>4. E \subseteq Nat /\ E # {}
  BY <1>1, <1>2, <1>3
<1>5. PICK b1 \in Nat : \A x \in Under(Offerer) : x <= b1
  BY <1>1, <1>3
<1>6. PICK b2 \in Nat : \A x \in Under(Answerer) : x <= b2
  BY <1>1, <1>3
<1>7. \A x \in E : x <= peer[Offerer].epoch + peer[Answerer].epoch + b1 + b2
  BY <1>1, <1>2, <1>3, <1>5, <1>6
<1>8. peer[Offerer].epoch + peer[Answerer].epoch + b1 + b2 \in Nat
  BY <1>2, <1>3, <1>5, <1>6
<1>9. Max(E) \in Nat
  <2> HIDE DEF E
  <2> QED BY <1>4, <1>7, <1>8, NatMax
<1>10. NextEpoch = 1 + Max(E)
  BY DEF NextEpoch, Under
<1> HIDE DEF E
<1> QED BY <1>9, <1>10

-----------------------------------------------------------------------------
(* An operation of p, as a step.                                            *)

\* What an operation may give, so that the exchanges stay what they are.
Legal(p, r, taken) ==
    \/ SameExchange(peer[p], r.s) /\ r.out = <<>>
    \/ Offers1(p, peer[p], r.s, r.out)
    \/ Begins(p, peer[p], r.s, r.out)
    \/ /\ r.s.epoch = peer[p].epoch /\ r.s.settled = None
       /\ peer[p].sig = "none" /\ Offers(Other(p)) = {}
       /\ (r.s.sig = "stable" /\ r.out = <<>>) \/ HasOffered(p, r.s, r.out)
    \/ taken /\ Answering(p, peer[p], r.s, chan[p][1], r.out)
    \/ taken /\ Completing(peer[p], r.s, chan[p][1], r.out)

\* What an operation in which p does not give up brings closer to one exchange.
Lands(p, r, taken) ==
    \/ /\ SameExchange(peer[p], r.s) /\ r.out = <<>> /\ r.s.joined = peer[p].joined
       /\ taken /\ chan[p][1].kind \in {"offer", "answer"} =>
            peer[p].joined /\ Idle(p, peer[p], chan[p][1])
    \/ /\ r.s.epoch > peer[p].epoch /\ HasOffered(p, r.s, r.out) /\ r.s.joined
       /\ taken /\ chan[p][1].kind = "offer" => chan[p][1].epoch = peer[p].epoch
    \/ ~taken /\ Offers1(p, peer[p], r.s, r.out) /\ r.s.joined /\ peer[p].joined
    \/ /\ ~taken /\ ~peer[p].joined /\ r.s.joined
       /\ r.s.epoch = peer[p].epoch /\ r.s.settled = None
       /\ IF p = Offerer THEN HasOffered(p, r.s, r.out) ELSE r.s.sig = "stable" /\ r.out = <<>>
    \/ /\ taken /\ Answering(p, peer[p], r.s, chan[p][1], r.out)
       /\ r.s.epoch = chan[p][1].epoch /\ r.s.joined /\ peer[p].joined
    \/ /\ taken /\ Completing(peer[p], r.s, chan[p][1], r.out)
       /\ r.s.joined /\ peer[p].joined

LEMMA DoesShape ==
    ASSUME TypeOK, NEW p \in Peer, NEW q, q = Other(p), NEW r, Typed(r),
           NEW taken \in BOOLEAN, taken => chan[p] # <<>>, Does(p, r, taken)
    PROVE  /\ TypeOK'
           /\ peer[p]' = r.s /\ peer[q]' = peer[q]
           /\ chan[p]' = IF taken THEN Tail(chan[p]) ELSE chan[p]
           /\ chan[q]' = chan[q] \o r.out
<1>1. q \in Peer /\ q # p /\ Peer = {p, q}
  BY TwoPeers
<1>2. /\ peer \in [Peer -> PeerState] /\ chan \in [Peer -> Seq(Item)]
      /\ chan[p] \in Seq(Item) /\ chan[q] \in Seq(Item)
  BY <1>1 DEF TypeOK
<1>3. /\ peer' = [peer EXCEPT ![p] = r.s]
      /\ chan' = [chan EXCEPT ![p] = IF taken THEN Tail(@) ELSE @, ![q] = @ \o r.out]
      /\ lost' = (lost \/ r.s.gaveUp) /\ faults' = faults
  BY DEF Does
<1>4. r.s \in PeerState /\ r.out \in Seq(Item)
  BY DEF Typed
<1>5. /\ peer[p]' = r.s /\ peer[q]' = peer[q]
      /\ chan[p]' = IF taken THEN Tail(chan[p]) ELSE chan[p]
      /\ chan[q]' = chan[q] \o r.out
  BY <1>1, <1>2, <1>3
<1>6. chan[p]' \in Seq(Item) /\ chan[q]' \in Seq(Item)
  BY <1>2, <1>4, <1>5
<1>7. peer' \in [Peer -> PeerState]
  BY <1>2, <1>3, <1>4
<1>8. chan' \in [Peer -> Seq(Item)]
  BY <1>1, <1>2, <1>3, <1>5, <1>6
<1>9. faults' \in 0..MaxFaults
  BY <1>3 DEF TypeOK
<1>10. lost' \in BOOLEAN
  BY <1>3 DEF TypeOK
<1> QED BY <1>5, <1>7, <1>8, <1>9, <1>10 DEF TypeOK

LEMMA BothExchanges ==
    ASSUME NEW p \in Peer, Exchange(p, Other(p))', Exchange(Other(p), p)'
    PROVE  Exchanges'
BY TwoPeers DEF Exchanges

LEMMA DoesStepping ==
    ASSUME TypeOK, Exchanges, NEW p \in Peer, NEW q, q = Other(p), NEW r, Typed(r),
           NEW taken \in BOOLEAN, taken => chan[p] # <<>>, Does(p, r, taken), NEW new,
           \/ r.out = <<>>
           \/ r.out = <<new>>
           \/ \E c : r.out = <<new, c>> /\ c.kind = "candidate"
    PROVE  \E f, g : Stepping(p, q, IF taken THEN 1 ELSE 0, new, f, g)
<1> DEFINE from == IF taken THEN 1 ELSE 0
<1>1. q \in Peer /\ q # p /\ Peer = {p, q} /\ Other(q) = p
  BY TwoPeers
<1>2. /\ TypeOK' /\ peer[q]' = peer[q]
      /\ chan[p]' = IF taken THEN Tail(chan[p]) ELSE chan[p]
      /\ chan[q]' = chan[q] \o r.out
  <2>1. TypeOK' /\ peer[q]' = peer[q]
    BY DoesShape
  <2>2. chan[p]' = IF taken THEN Tail(chan[p]) ELSE chan[p]
    BY DoesShape
  <2>3. chan[q]' = chan[q] \o r.out
    <3> DEFINE out == chan[q] \o r.out
    <3>1. chan' = [chan EXCEPT ![p] = IF taken THEN Tail(@) ELSE @, ![q] = out]
      BY <1>1 DEF Does
    <3>2. chan \in [Peer -> Seq(Item)]
      BY DEF TypeOK
    <3> HIDE DEF out
    <3>3. chan[q]' = out
      BY <1>1, <3>1, <3>2
    <3> QED BY <3>3 DEF out
  <2> QED BY <2>1, <2>2, <2>3
<1>3. chan[p] \in Seq(Item) /\ chan[q] \in Seq(Item) /\ r.out \in Seq(Item)
  BY <1>1 DEF TypeOK, Typed
<1>4. Carries(chan[p], chan[p]', from, NoSignal)
  <2>1. CASE taken
    BY <1>2, <1>3, <2>1, CarriesTail
  <2>2. CASE ~taken
    BY <1>2, <1>3, <2>2, CarriesSame
  <2> QED BY <2>1, <2>2
<1>5. Carries(chan[q], chan[q]', 0, new)
  <2>1. Carries(chan[q], chan[q] \o r.out, 0, new)
    BY <1>3, CarriesOut
  <2> QED BY <1>2, <2>1
<1> HIDE DEF from
<1>6. PICK f \in [Nat -> Nat] : Moves(f, p, from, NoSignal)
  BY <1>4, CarriesMoves
<1>7. PICK g \in [Nat -> Nat] : Moves(g, q, 0, new)
  BY <1>1, <1>5, CarriesMoves
<1>8. Exchange(p, q) /\ Exchange(q, p)
  BY <1>1 DEF Exchanges
<1>9. SameExchange(peer[q], peer[q]')
  BY <1>2 DEF SameExchange
<1>10. Stepping(p, q, from, new, f, g)
  BY <1>2, <1>6, <1>7, <1>8, <1>9 DEF Stepping
<1> QED BY <1>10 DEF from

LEMMA DoesExchanges ==
    ASSUME TypeOK, Exchanges, NEW p \in Peer, NEW r, Typed(r),
           NEW taken \in BOOLEAN, taken => chan[p] # <<>>, Does(p, r, taken), Legal(p, r, taken)
    PROVE  Exchanges'
<1> DEFINE q == Other(p)
           from == IF taken THEN 1 ELSE 0
<1>1. peer[p]' = r.s
  BY DoesShape
<1>2. chan[p] \in Seq(Item) /\ (taken => 1 \in DOMAIN chan[p])
  BY DEF TypeOK
<1>3. CASE SameExchange(peer[p], r.s) /\ r.out = <<>>
  <2>1. PICK f, g : Stepping(p, q, from, NoSignal, f, g)
    BY <1>3, DoesStepping
  <2> QED BY <1>1, <1>3, <2>1, StepSame, BothExchanges
<1>4. CASE Offers1(p, peer[p], r.s, r.out)
  <2>1. PICK new : new = Message("offer", r.s.epoch, r.s.offer)
    OBVIOUS
  <2>2. \E c : r.out = <<new, c>> /\ c.kind = "candidate"
    BY <1>4, <2>1 DEF Offers1, HasOffered, OfferItems, Message
  <2>3. PICK f, g : Stepping(p, q, from, new, f, g)
    BY <2>2, DoesStepping
  <2>4. r.out = OfferItems(r.s)
    BY <1>4 DEF Offers1, HasOffered
  <2>5. Offers1(p, peer[p], peer[p]', OfferItems(peer[p]'))
    BY <1>1, <1>4, <2>4
  <2>6. new = Message("offer", peer[p]'.epoch, peer[p]'.offer)
    BY <1>1, <2>1
  <2> QED BY <2>3, <2>5, <2>6, StepOffers, BothExchanges
<1>5. CASE /\ \/ Begins(p, peer[p], r.s, r.out)
              \/ r.s.epoch = peer[p].epoch /\ peer[p].sig = "none" /\ Offers(q) = {}
           /\ r.s.sig = "stable" /\ r.out = <<>>
  <2>1. PICK f, g : Stepping(p, q, from, NoSignal, f, g)
    BY <1>5, DoesStepping
  <2>2. PICK new : new = NoSignal
    OBVIOUS
  <2>3. Stepping(p, q, from, new, f, g)
    BY <2>1, <2>2
  <2> QED BY <1>1, <1>5, <2>2, <2>3, StepBegins, BothExchanges DEF Begins
<1>6. CASE /\ \/ Begins(p, peer[p], r.s, r.out)
              \/ r.s.epoch = peer[p].epoch /\ peer[p].sig = "none" /\ Offers(q) = {}
           /\ HasOffered(p, r.s, r.out)
  <2>1. PICK new : new = Message("offer", r.s.epoch, r.s.offer)
    OBVIOUS
  <2>2. \E c : r.out = <<new, c>> /\ c.kind = "candidate"
    BY <1>6, <2>1 DEF HasOffered, OfferItems, Message
  <2>3. PICK f, g : Stepping(p, q, from, new, f, g)
    BY <2>2, DoesStepping
  <2>4. HasOffered(p, peer[p]', OfferItems(peer[p]'))
    BY <1>1, <1>6 DEF HasOffered
  <2>5. new = Message("offer", peer[p]'.epoch, peer[p]'.offer)
    BY <1>1, <2>1
  <2> QED BY <1>1, <1>6, <2>3, <2>4, <2>5, StepBegins, BothExchanges DEF Begins
<1>7. CASE taken /\ Answering(p, peer[p], r.s, chan[p][1], r.out)
  <2>1. PICK m : m = chan[p][1]
    OBVIOUS
  <2>2. PICK new : new = Message("answer", r.s.epoch, m.tag)
    OBVIOUS
  <2>3. r.out = <<new>>
    BY <1>7, <2>1, <2>2 DEF Answering
  <2>4. PICK f, g : Stepping(p, q, from, new, f, g)
    BY <2>3, DoesStepping
  <2>5. Answering(p, peer[p], peer[p]', m, <<new>>)
    BY <1>1, <1>7, <2>1, <2>3
  <2>6. from = 1 /\ new = Message("answer", peer[p]'.epoch, m.tag)
    BY <1>1, <1>7, <2>2
  <2> QED BY <1>2, <1>7, <2>1, <2>4, <2>5, <2>6, StepAnswers, BothExchanges
<1>8. CASE taken /\ Completing(peer[p], r.s, chan[p][1], r.out)
  <2>1. PICK m : m = chan[p][1]
    OBVIOUS
  <2>2. r.out = <<>>
    BY <1>8 DEF Completing
  <2>3. PICK f, g : Stepping(p, q, from, NoSignal, f, g)
    BY <2>2, DoesStepping
  <2>4. Completing(peer[p], peer[p]', m, <<>>)
    BY <1>1, <1>8, <2>1, <2>2
  <2>5. from = 1
    BY <1>8
  <2> QED BY <1>2, <1>8, <2>1, <2>3, <2>4, <2>5, StepCompletes, BothExchanges
<1> QED BY <1>3, <1>4, <1>5, <1>6, <1>7, <1>8 DEF Legal, Begins

\* An operation of p: it leaves the exchanges legal, brings the two peers closer to one of
\* them or gives up, is of a peer that has joined or does nothing, and keeps the tracks in
\* order.
Operation(p, r, taken) ==
    /\ Typed(r) /\ (taken => chan[p] # <<>>) /\ Legal(p, r, taken)
    /\ r.s.gaveUp \/ Lands(p, r, taken)
    /\ r.s.joined \/ (r.s = peer[p] /\ r.out = <<>>)
    /\ LaidOut(peer[p]) => LaidOut(r.s)
    /\ r.s.track = peer[p].track
    /\ IF taken /\ chan[p][1].kind = "replace"
       THEN r.s.sending = IF peer[p].sending = NoSender THEN NoSender ELSE chan[p][1].track
       ELSE Sends(peer[p], r.s)

LEMMA JoinOperates ==
    ASSUME Negotiated, NEW p \in Peer, Join(p)
    PROVE  \E r, taken : taken \in BOOLEAN /\ Does(p, r, taken) /\ Operation(p, r, taken)
<1> DEFINE s == [peer[p] EXCEPT !.joined = TRUE]
           initiate == p = Offerer
<1>1. /\ peer[p] \in PeerState /\ ~peer[p].joined /\ peer[p].track # NoSender
      /\ peer[p].sig = "none" /\ Offers(Other(p)) = {}
  BY PeerTyped DEF Negotiated, Freshes, Fresh, Join
<1>2. /\ s \in PeerState /\ s.joined /\ s.epoch = peer[p].epoch /\ s.track = peer[p].track
  BY <1>1 DEF PeerState
<1>3. initiate \in BOOLEAN
  OBVIOUS
<1>4. Does(p, CreatePeer(p, s, initiate), FALSE)
  BY DEF Join
<1> HIDE DEF s, initiate
<1>5. PICK r : r = CreatePeer(p, s, initiate)
  OBVIOUS
<1>6. Does(p, r, FALSE)
  BY <1>4, <1>5
<1>7. /\ Typed(r) /\ Rest(s, r.s)
      /\ r.s.epoch = s.epoch /\ r.s.settled = None /\ r.s.conn = "new" /\ ~r.s.need
      /\ IF initiate THEN HasOffered(p, r.s, r.out) /\ r.s.sending = s.track
         ELSE r.s.sig = "stable" /\ r.out = <<>> /\ r.s.sending = NoSender
  BY <1>2, <1>3, <1>5, CreatePeerGives
<1>8. Legal(p, r, FALSE)
  BY <1>1, <1>2, <1>7 DEF Legal
<1>9. LaidOut(r.s)
  BY <1>1, <1>2, <1>7 DEF LaidOut, HasOffered
<1>10. Lands(p, r, FALSE)
  <2>1. IF p = Offerer THEN HasOffered(p, r.s, r.out) ELSE r.s.sig = "stable" /\ r.out = <<>>
    BY <1>7 DEF initiate
  <2> QED BY <1>1, <1>2, <1>7, <2>1 DEF Lands, Rest
<1>11. Operation(p, r, FALSE)
  BY <1>2, <1>7, <1>8, <1>9, <1>10 DEF Operation, Sends, Rest
<1> QED BY <1>6, <1>11

LEMMA SignalOperates ==
    ASSUME Negotiated, NEW p \in Peer, ReceiveSignal(p)
    PROVE  \E r, taken : taken \in BOOLEAN /\ Does(p, r, taken) /\ Operation(p, r, taken)
<1>1. PICK applied \in BOOLEAN :
        /\ applied \/ MayRefuse(peer[p], Head(chan[p]))
        /\ Does(p, Process(p, peer[p], Head(chan[p]), applied), TRUE)
  BY DEF ReceiveSignal
<1>2. PICK m : m = Head(chan[p])
  OBVIOUS
<1>3. /\ chan[p] # <<>> /\ peer[p].joined /\ m.kind \in {"offer", "answer", "candidate"}
      /\ m \in Item /\ m = chan[p][1] /\ 1 \in DOMAIN chan[p]
  BY <1>2, HeadOfKind, HeadItem DEF ReceiveSignal, Negotiated
<1>4. /\ m.kind = "answer" => m.tag # None /\ m.epoch <= m.tag[2] /\ m.tag[2] <= peer[p].epoch
      /\ m.kind = "offer" => m.tag # None
  <2>1. Exchange(p, Other(p)) /\ Exchange(Other(p), p)
    BY TwoPeers DEF Negotiated, Exchanges
  <2>2. m.kind = "answer" => 1 \in Answers(p)
    BY <1>3 DEF Answers
  <2>3. m.kind = "offer" => 1 \in Offers(p)
    BY <1>3 DEF Offers
  <2> QED BY <1>3, <2>1, <2>2, <2>3 DEF Exchange, OffersTagged, AnswersTagged
<1>5. peer[p] \in PeerState /\ peer[p].epoch \in Nat /\ peer[p].track # NoSender
  BY PeerTyped DEF Negotiated
<1>6. m.kind = "answer" => m.epoch <= peer[p].epoch
  <2>1. m.epoch \in Nat /\ m.tag \in Tag
    BY <1>3, ItemFields
  <2>2. m.tag # None => m.tag[2] \in Nat
    BY <2>1, TagParts
  <2> QED BY <1>4, <1>5, <2>1, <2>2
<1>7. PICK r : r = Process(p, peer[p], m, applied)
  OBVIOUS
<1>8. Does(p, r, TRUE)
  BY <1>1, <1>2, <1>7
<1>9. /\ Typed(r) /\ Rest(peer[p], r.s) /\ Sends(peer[p], r.s)
      /\ LaidOut(peer[p]) /\ (m.kind # "candidate" => m.tag # None) => LaidOut(r.s)
      /\ \/ SameExchange(peer[p], r.s) /\ r.out = <<>>
         \/ Begins(p, peer[p], r.s, r.out)
         \/ Answering(p, peer[p], r.s, m, r.out)
         \/ Completing(peer[p], r.s, m, r.out)
  BY <1>3, <1>5, <1>6, <1>7, ProcessGives
<1>10. Legal(p, r, TRUE)
  BY <1>3, <1>9 DEF Legal
<1>11. r.s.gaveUp \/ Lands(p, r, TRUE)
  <2> SUFFICES ASSUME ~r.s.gaveUp PROVE Lands(p, r, TRUE)
    OBVIOUS
  <2>1. applied \/ MayRefuse(peer[p], m)
    BY <1>1, <1>2
  <2>2. ~Process(p, peer[p], m, applied).s.gaveUp
    BY <1>7
  <2>3. \/ SameExchange(peer[p], r.s) /\ r.out = <<>> /\ Idle(p, peer[p], m)
        \/ /\ r.s.epoch > peer[p].epoch /\ r.s.settled = None /\ HasOffered(p, r.s, r.out)
           /\ m.kind = "offer" => m.epoch = peer[p].epoch
        \/ Answering(p, peer[p], r.s, m, r.out) /\ r.s.epoch = m.epoch
        \/ Completing(peer[p], r.s, m, r.out)
    BY <1>3, <1>5, <1>6, <1>7, <2>1, <2>2, ProcessLands
  <2> QED BY <1>3, <1>9, <2>3 DEF Lands, Rest
<1>12. Operation(p, r, TRUE)
  BY <1>3, <1>4, <1>9, <1>10, <1>11 DEF Operation, Rest
<1> QED BY <1>8, <1>12

\* A rebuild, from a state that differs from p's in what the exchange does not read.
LEMMA RebuildOperates ==
    ASSUME TypeOK, NEW p \in Peer, peer[p].joined, NEW s \in PeerState, NEW e \in Nat,
           Unmoved(peer[p], s), NEW r, r = RebuildTo(p, s, e, TRUE),
           chan[p] # <<>>, chan[p][1].kind \in {"resume", "rebuild"}
    PROVE  Operation(p, r, TRUE)
<1>0. peer[p].track # NoSender
  BY PeerTyped
<1>1. /\ s.epoch = peer[p].epoch /\ s.joined /\ s.track = peer[p].track
      /\ s.sending = peer[p].sending
  BY DEF Unmoved, SameExchange, Rest
<1>2. \A i \in BOOLEAN :
        LET x == RebuildTo(p, s, e, i) IN
        /\ Typed(x) /\ Rest(s, x.s)
        /\ \/ Unmoved(s, x.s) /\ x.out = <<>>
           \/ /\ e > s.epoch /\ x.s.epoch = e /\ x.s.settled = None
              /\ x.s.conn = "new" /\ ~x.s.need
              /\ i => HasOffered(p, x.s, x.out) /\ x.s.sending = s.track
  BY RebuildToGives
<1>3. /\ Typed(r) /\ Rest(s, r.s)
      /\ \/ Unmoved(s, r.s) /\ r.out = <<>>
         \/ /\ e > s.epoch /\ r.s.epoch = e /\ r.s.settled = None
            /\ r.s.conn = "new" /\ ~r.s.need
            /\ HasOffered(p, r.s, r.out) /\ r.s.sending = s.track
  BY <1>2
<1>4. CASE Unmoved(s, r.s) /\ r.out = <<>>
  <2>1. Unmoved(peer[p], r.s)
    BY <1>4 DEF Unmoved, SameExchange, Rest
  <2>2. Lands(p, r, TRUE)
    BY <1>4, <2>1 DEF Lands, Unmoved, Rest
  <2> QED BY <1>1, <1>3, <1>4, <2>1, <2>2
          DEF Operation, Legal, Unmoved, LaidOut, Sends, Rest, SameExchange
<1>5. CASE /\ e > s.epoch /\ r.s.epoch = e /\ r.s.settled = None
           /\ r.s.conn = "new" /\ ~r.s.need
           /\ HasOffered(p, r.s, r.out) /\ r.s.sending = s.track
  <2>1. Begins(p, peer[p], r.s, r.out)
    BY <1>1, <1>5 DEF Begins
  <2>2. LaidOut(r.s)
    BY <1>0, <1>1, <1>5 DEF LaidOut
  <2>3. Lands(p, r, TRUE)
    BY <1>1, <1>3, <1>5 DEF Lands, Rest
  <2> QED BY <1>1, <1>3, <1>5, <2>1, <2>2, <2>3 DEF Operation, Legal, Sends, Rest
<1> QED BY <1>3, <1>4, <1>5

LEMMA ResumeOperates ==
    ASSUME Negotiated, NEW p \in Peer, ReceiveResume(p)
    PROVE  \E r, taken : taken \in BOOLEAN /\ Does(p, r, taken) /\ Operation(p, r, taken)
<1>1. /\ chan[p] # <<>> /\ Head(chan[p]) = chan[p][1] /\ chan[p][1].kind = "resume"
      /\ Head(chan[p]).epoch \in Nat
  BY HeadOfKind, HeadItem, ItemFields DEF ReceiveResume, Negotiated
<1>2. peer[p] \in PeerState
  BY PeerTyped DEF Negotiated
<1>3. CASE peer[p].joined /\ peer[p].conn # "connected"
  <2> DEFINE s == [peer[p] EXCEPT !.rebuilds = 0]
             e == Head(chan[p]).epoch
  <2>1. s \in PeerState /\ Unmoved(peer[p], s)
    BY <1>2, PeersAssumption DEF PeerState, Unmoved, SameExchange, Rest
  <2>2. Does(p, RebuildTo(p, s, e, TRUE), TRUE)
    BY <1>3 DEF ReceiveResume
  <2>3. e \in Nat
    BY <1>1
  <2> HIDE DEF s, e
  <2>4. PICK r : r = RebuildTo(p, s, e, TRUE)
    OBVIOUS
  <2>5. Does(p, r, TRUE)
    BY <2>2, <2>4
  <2>6. Operation(p, r, TRUE)
    BY <1>1, <1>3, <2>1, <2>3, <2>4, RebuildOperates DEF Negotiated
  <2> QED BY <2>5, <2>6
<1>4. CASE ~(peer[p].joined /\ peer[p].conn # "connected")
  <2>1. PICK r : r = Silently(peer[p])
    OBVIOUS
  <2>2. Does(p, r, TRUE)
    BY <1>4, <2>1 DEF ReceiveResume
  <2>3. Operation(p, r, TRUE)
    BY <1>1, <1>2, <2>1 DEF Operation, Legal, Lands, Typed, Silently, SameExchange, Sends
  <2> QED BY <2>2, <2>3
<1> QED BY <1>3, <1>4

LEMMA RenegotiateOperates ==
    ASSUME Negotiated, NEW p \in Peer, Renegotiate(p)
    PROVE  \E r, taken : taken \in BOOLEAN /\ Does(p, r, taken) /\ Operation(p, r, taken)
<1>1. peer[p] \in PeerState /\ peer[p].joined \in BOOLEAN
  BY PeerTyped DEF Negotiated
<1>2. peer[p].need /\ peer[p].sig = "stable" /\ peer[p].joined
  BY <1>1 DEF Renegotiate, Negotiated, Freshes, Fresh
<1>3. PICK r : r = MakeOffer(p, peer[p])
  OBVIOUS
<1>4. Does(p, r, FALSE)
  BY <1>3 DEF Renegotiate
<1>5. /\ Typed(r) /\ Rest(peer[p], r.s) /\ Offers1(p, peer[p], r.s, r.out)
      /\ r.s.sending = peer[p].sending /\ r.s.conn = peer[p].conn
      /\ r.s.settled = peer[p].settled
  BY <1>1, <1>2, <1>3, MakeOfferGives
<1>6. LaidOut(peer[p]) => LaidOut(r.s)
  BY <1>2, <1>5 DEF LaidOut
<1>7. Operation(p, r, FALSE)
  BY <1>2, <1>5, <1>6 DEF Operation, Legal, Lands, Rest, Sends
<1> QED BY <1>4, <1>7

LEMMA RunRebuildOperates ==
    ASSUME Negotiated, NEW p \in Peer, RunRebuild(p)
    PROVE  \E r, taken : taken \in BOOLEAN /\ Does(p, r, taken) /\ Operation(p, r, taken)
<1>1. /\ chan[p] # <<>> /\ chan[p][1].kind = "rebuild" /\ 1 \in DOMAIN chan[p]
  BY HeadOfKind, HeadItem DEF RunRebuild, Negotiated
<1>2. /\ peer[p] \in PeerState /\ peer[p].joined \in BOOLEAN /\ peer[p].epoch + 1 \in Nat
  BY PeerTyped DEF Negotiated
<1>3. peer[p].joined
  BY <1>1, <1>2 DEF Negotiated, Freshes, Fresh
<1>4. PICK e : e = peer[p].epoch + 1
  OBVIOUS
<1>5. PICK r : r = RebuildTo(p, peer[p], e, TRUE)
  OBVIOUS
<1>6. Does(p, r, TRUE)
  BY <1>4, <1>5 DEF RunRebuild
<1>7. Unmoved(peer[p], peer[p])
  BY DEF Unmoved, SameExchange, Rest
<1>8. e \in Nat
  BY <1>2, <1>4
<1>9. Operation(p, r, TRUE)
  BY <1>1, <1>2, <1>3, <1>5, <1>7, <1>8, RebuildOperates DEF Negotiated
<1> QED BY <1>6, <1>9

LEMMA ReplaceOperates ==
    ASSUME Negotiated, NEW p \in Peer, ReplaceTrack(p)
    PROVE  \E r, taken : taken \in BOOLEAN /\ Does(p, r, taken) /\ Operation(p, r, taken)
<1>1. /\ chan[p] # <<>> /\ Head(chan[p]) = chan[p][1] /\ 1 \in DOMAIN chan[p]
      /\ chan[p][1].kind = "replace" /\ chan[p][1].track \in 0..MaxToggles
  BY HeadOfKind, HeadItem, ItemFields DEF ReplaceTrack, Negotiated
<1>2. peer[p] \in PeerState /\ peer[p].joined \in BOOLEAN
  BY PeerTyped DEF Negotiated
<1>3. peer[p].joined
  BY <1>1, <1>2 DEF Negotiated, Freshes, Fresh
<1> DEFINE k == IF peer[p].sending = NoSender THEN NoSender ELSE chan[p][1].track
           s == [peer[p] EXCEPT !.sending = k]
<1>4. PICK r : r = Silently(s)
  OBVIOUS
<1>5. Does(p, r, TRUE)
  BY <1>1, <1>4 DEF ReplaceTrack
<1>6. k \in {NoSender} \cup 0..MaxToggles
  BY <1>1
<1>7. peer[p].sending # NoSender => k # NoSender
  BY <1>1, NoSenderTyped
<1>8. /\ s \in PeerState /\ s.sending = k /\ s.joined = peer[p].joined
      /\ s.track = peer[p].track /\ SameExchange(peer[p], s)
      /\ s.need = peer[p].need /\ s.conn = peer[p].conn
  <2> HIDE DEF k
  <2> QED BY <1>2, <1>6 DEF PeerState, SameExchange
<1>9. r.s = s /\ r.out = <<>> /\ Typed(r)
  BY <1>4, <1>8 DEF Silently, Typed
<1>10. LaidOut(peer[p]) => LaidOut(r.s)
  <2> HIDE DEF k, s
  <2> QED BY <1>7, <1>8, <1>9 DEF LaidOut, SameExchange
<1>11. /\ r.s.joined /\ r.s.track = peer[p].track /\ SameExchange(peer[p], r.s)
       /\ r.s.sending = k
  <2> HIDE DEF k, s
  <2> QED BY <1>3, <1>8, <1>9
<1>12. Operation(p, r, TRUE)
  <2> HIDE DEF s
  <2>1. Lands(p, r, TRUE)
    BY <1>1, <1>3, <1>9, <1>11 DEF Lands
  <2> QED BY <1>1, <1>9, <1>10, <1>11, <2>1 DEF Operation, Legal
<1> QED BY <1>5, <1>12

-----------------------------------------------------------------------------
(* Switches of the track in a queue.                                        *)

LEMMA QueuedSends ==
    ASSUME NEW s, NEW old, NEW track, Queued(s, old, track),
           NEW new, new \in {old, track, NoSender}
    PROVE  Queued(s, new, track)
BY DEF Queued

LEMMA QueuedTail ==
    ASSUME NEW s \in Seq(Item), s # <<>>, NEW sending, NEW track, Queued(s, sending, track)
    PROVE  /\ s[1].kind # "replace" => Queued(Tail(s), sending, track)
           /\ s[1].kind = "replace" =>
                Queued(Tail(s), IF sending = NoSender THEN NoSender ELSE s[1].track, track)
<1> DEFINE t == Tail(s)
<1>1. /\ \A i \in DOMAIN t : /\ i \in Nat /\ i >= 1 /\ i + 1 \in DOMAIN s /\ t[i] = s[i + 1]
      /\ \A i \in DOMAIN s : /\ i \in Nat /\ i >= 1
                             /\ i # 1 => i - 1 \in DOMAIN t /\ t[i - 1] = s[i]
      /\ 1 \in DOMAIN s
  OBVIOUS
<1> HIDE DEF t
<1>2. /\ \A i \in Replacing(t) : i \in Nat /\ i >= 1 /\ i + 1 \in Replacing(s) /\ t[i] = s[i + 1]
      /\ \A i \in Replacing(s) : i \in Nat /\ i >= 1 /\ (i # 1 => i - 1 \in Replacing(t))
  BY <1>1 DEF Replacing
<1>3. ASSUME NEW i \in Replacing(t), \A j \in Replacing(t) : j <= i
      PROVE  t[i].track = track
  <2>1. ASSUME NEW j \in Replacing(s) PROVE j <= i + 1
    <3>1. CASE j = 1
      BY <1>2, <3>1
    <3>2. CASE j # 1
      <4>1. j - 1 <= i /\ j \in Nat /\ i \in Nat
        BY <1>2, <1>3, <3>2
      <4> QED BY <4>1
    <3> QED BY <3>1, <3>2
  <2>2. i + 1 \in Replacing(s) /\ t[i] = s[i + 1]
    BY <1>2
  <2> QED BY <2>1, <2>2 DEF Queued
<1>4. CASE s[1].kind # "replace"
  <2>1. Replacing(t) = {} => Replacing(s) = {}
    BY <1>2, <1>4 DEF Replacing
  <2> QED BY <1>3, <1>4, <2>1 DEF Queued, t
<1>5. CASE s[1].kind = "replace"
  <2>1. 1 \in Replacing(s)
    BY <1>1, <1>5 DEF Replacing
  <2>2. Replacing(t) = {} => s[1].track = track
    <3> SUFFICES ASSUME Replacing(t) = {} PROVE s[1].track = track
      OBVIOUS
    <3>1. \A j \in Replacing(s) : j = 1
      BY <1>2
    <3>2. \A j \in Replacing(s) : j <= 1
      BY <3>1
    <3> QED BY <2>1, <3>2 DEF Queued
  <2> QED BY <1>3, <1>5, <2>2 DEF Queued, t
<1> QED BY <1>4, <1>5

\* What is no switch changes nothing, wherever it comes.
LEMMA QueuedMore ==
    ASSUME NEW s \in Seq(Item), NEW out \in Seq(Item), NEW sending, NEW track,
           Queued(s, sending, track), \A i \in DOMAIN out : out[i].kind # "replace"
    PROVE  Queued(s \o out, sending, track)
<1> DEFINE t == s \o out
           n == Len(s)
<1>1. /\ \A i \in DOMAIN t : \/ i \in DOMAIN s /\ t[i] = s[i]
                             \/ i - n \in DOMAIN out /\ t[i] = out[i - n]
      /\ \A i \in DOMAIN s : i \in DOMAIN t /\ t[i] = s[i]
  OBVIOUS
<1> HIDE DEF t, n
<1>2. Replacing(t) = Replacing(s) /\ \A i \in Replacing(t) : t[i] = s[i]
  BY <1>1 DEF Replacing
<1> QED BY <1>2 DEF Queued, t

LEMMA QueuedInsert ==
    ASSUME NEW s \in Seq(Item), NEW k \in 0..Len(s), NEW x \in Item,
           NEW sending, NEW track, NEW old, Queued(s, sending, old),
           \/ x.kind # "replace" /\ track = old
           \/ /\ x.kind = "replace" /\ x.track = track
              /\ \A i \in k + 1..Len(s) : s[i].kind # "replace"
    PROVE  Queued(InsertAt(s, k + 1, x), sending, track)
<1> DEFINE t == InsertAt(s, k + 1, x)
           n == Len(s)
<1>1. /\ t \in Seq(Item) /\ Len(t) = n + 1
      /\ \A i \in 1..n + 1 : t[i] = IF i <= k THEN s[i]
                                    ELSE IF i = k + 1 THEN x ELSE s[i - 1]
  BY InsertShape
<1>2. n \in Nat /\ k \in Nat /\ k <= n /\ DOMAIN s = 1..n /\ DOMAIN t = 1..n + 1
  BY <1>1
<1> HIDE DEF t, n
<1>3. /\ \A i \in 1..n + 1 : i <= k => t[i] = s[i]
      /\ t[k + 1] = x
      /\ \A i \in 1..n + 1 : i > k + 1 => i - 1 \in 1..n /\ i - 1 > k /\ t[i] = s[i - 1]
  <2>1. k + 1 \in 1..n + 1 /\ ~(k + 1 <= k)
    BY <1>2
  <2>2. t[k + 1] = x
    BY <1>1, <2>1
  <2>3. ASSUME NEW i \in 1..n + 1, i > k + 1
        PROVE  i - 1 \in 1..n /\ i - 1 > k /\ t[i] = s[i - 1]
    BY <1>1, <1>2, <2>3
  <2> QED BY <1>1, <2>2, <2>3
<1>3a. \A i \in 1..n : i > k => i + 1 \in 1..n + 1 /\ i + 1 > k + 1 /\ t[i + 1] = s[i]
  <2> SUFFICES ASSUME NEW i \in 1..n, i > k
               PROVE  i + 1 \in 1..n + 1 /\ i + 1 > k + 1 /\ t[i + 1] = s[i]
    OBVIOUS
  <2>1. i + 1 \in 1..n + 1 /\ i + 1 > k + 1 /\ i + 1 - 1 = i
    BY <1>2
  <2> QED BY <1>3, <2>1
<1>4. CASE x.kind = "replace" /\ x.track = track
           /\ \A i \in k + 1..n : s[i].kind # "replace"
  <2>1. k + 1 \in Replacing(t)
    BY <1>2, <1>3, <1>4 DEF Replacing
  <2>2. ASSUME NEW i \in Replacing(t), \A j \in Replacing(t) : j <= i
        PROVE  t[i].track = track
    <3>1. i \in 1..n + 1 /\ t[i].kind = "replace" /\ k + 1 <= i
      BY <1>2, <2>1, <2>2 DEF Replacing
    <3>2. CASE i = k + 1
      BY <1>3, <1>4, <3>2
    <3>3. CASE i > k + 1
      <4>1. i - 1 \in k + 1..n /\ t[i] = s[i - 1]
        BY <1>2, <1>3, <3>1, <3>3
      <4> QED BY <1>4, <3>1, <4>1
    <3> QED BY <1>2, <3>1, <3>2, <3>3
  <2> QED BY <2>1, <2>2 DEF Queued, t
<1>5. CASE x.kind # "replace" /\ track = old
  <2>1. \A i \in Replacing(t) :
          /\ i \in 1..n + 1
          /\ i <= k => i \in Replacing(s) /\ t[i] = s[i]
          /\ ~(i <= k) => /\ i - 1 \in Replacing(s) /\ t[i] = s[i - 1]
                          /\ i - 1 > k
    <3> SUFFICES ASSUME NEW i \in Replacing(t)
                 PROVE  /\ i \in 1..n + 1
                        /\ i <= k => i \in Replacing(s) /\ t[i] = s[i]
                        /\ ~(i <= k) => /\ i - 1 \in Replacing(s) /\ t[i] = s[i - 1]
                                        /\ i - 1 > k
      OBVIOUS
    <3>1. i \in 1..n + 1 /\ t[i].kind = "replace" /\ i # k + 1
      BY <1>2, <1>3, <1>5 DEF Replacing
    <3>2. i <= k => i \in 1..n /\ t[i] = s[i]
      BY <1>2, <1>3, <3>1
    <3>3. ~(i <= k) => i - 1 \in 1..n /\ i - 1 > k /\ t[i] = s[i - 1]
      BY <1>2, <1>3, <3>1
    <3> QED BY <1>2, <3>1, <3>2, <3>3 DEF Replacing
  <2>2. \A i \in Replacing(s) :
          /\ i \in 1..n
          /\ i <= k => i \in Replacing(t)
          /\ ~(i <= k) => i + 1 \in Replacing(t)
    <3> SUFFICES ASSUME NEW i \in Replacing(s)
                 PROVE  /\ i \in 1..n
                        /\ i <= k => i \in Replacing(t)
                        /\ ~(i <= k) => i + 1 \in Replacing(t)
      OBVIOUS
    <3>1. i \in 1..n /\ s[i].kind = "replace"
      BY <1>2 DEF Replacing
    <3>2. i <= k => i \in 1..n + 1 /\ t[i] = s[i]
      BY <1>2, <1>3, <3>1
    <3>3. ~(i <= k) => i + 1 \in 1..n + 1 /\ t[i + 1] = s[i]
      BY <1>2, <1>3a, <3>1
    <3> QED BY <1>2, <3>1, <3>2, <3>3 DEF Replacing
  <2>3. Replacing(t) = {} => Replacing(s) = {}
    BY <2>2
  <2>4. ASSUME NEW i \in Replacing(t), \A j \in Replacing(t) : j <= i
        PROVE  t[i].track = track
    <3>1. CASE i <= k
      <4>1. \A j \in Replacing(s) : j <= i
        BY <1>2, <2>1, <2>2, <2>4, <3>1
      <4> QED BY <1>5, <2>1, <3>1, <4>1 DEF Queued
    <3>2. CASE ~(i <= k)
      <4>1. ASSUME NEW j \in Replacing(s) PROVE j <= i - 1
        <5>1. CASE j <= k
          BY <1>2, <2>1, <2>2, <3>2, <5>1
        <5>2. CASE ~(j <= k)
          <6>1. j + 1 <= i
            BY <2>2, <2>4, <5>2
          <6> QED BY <1>2, <2>1, <2>2, <6>1
        <5> QED BY <5>1, <5>2
      <4> QED BY <1>5, <2>1, <3>2, <4>1 DEF Queued
    <3> QED BY <3>1, <3>2
  <2> QED BY <1>5, <2>3, <2>4 DEF Queued, t
<1> QED BY <1>4, <1>5 DEF n

-----------------------------------------------------------------------------
(* The invariants: operations.                                              *)

LEMMA LegalOut ==
    ASSUME NEW p, NEW r, NEW taken, Legal(p, r, taken)
    PROVE  \A i \in DOMAIN r.out : r.out[i].kind \in {"offer", "answer", "candidate"}
BY DEF Legal, SameExchange, Offers1, Begins, HasOffered, OfferItems, Answering, Completing,
       Message

LEMMA DoesSends ==
    ASSUME TypeOK, NEW p \in Peer, NEW r, NEW taken \in BOOLEAN, Typed(r), Does(p, r, taken)
    PROVE  chan[Other(p)]' = chan[Other(p)] \o r.out
<1>1. Other(p) \in Peer /\ Other(p) # p
  BY TwoPeers
<1> DEFINE out == chan[Other(p)] \o r.out
<1>2. chan' = [chan EXCEPT ![p] = IF taken THEN Tail(@) ELSE @, ![Other(p)] = out]
  BY <1>1 DEF Does
<1>3. chan \in [Peer -> Seq(Item)]
  BY DEF TypeOK
<1> HIDE DEF out
<1>4. chan[Other(p)]' = out
  BY <1>1, <1>2, <1>3
<1> QED BY <1>4 DEF out

LEMMA DoesFresh ==
    ASSUME TypeOK, Freshes, NEW p \in Peer, NEW r, NEW taken \in BOOLEAN,
           Operation(p, r, taken), Does(p, r, taken)
    PROVE  Freshes'
<1> DEFINE q == Other(p)
<1>1. q \in Peer /\ q # p /\ Peer = {p, q} /\ Other(q) = p
  BY TwoPeers
<1>2. Typed(r) /\ (taken => chan[p] # <<>>)
  BY DEF Operation
<1>3. /\ peer[p]' = r.s /\ peer[q]' = peer[q]
      /\ chan[p]' = IF taken THEN Tail(chan[p]) ELSE chan[p]
  BY <1>2, DoesShape
<1>4. chan[q]' = chan[q] \o r.out
  BY <1>2, DoesSends
<1>5. /\ chan[p] \in Seq(Item) /\ chan[q] \in Seq(Item) /\ r.out \in Seq(Item)
  BY <1>1, <1>2 DEF TypeOK, Typed
<1>6. \A i \in DOMAIN chan[p]' : \E j \in DOMAIN chan[p] : chan[p]'[i] = chan[p][j]
  <2>1. CASE taken
    <3>1. chan[p] # <<>> /\ chan[p]' = Tail(chan[p])
      BY <1>2, <1>3, <2>1
    <3>2. \A i \in DOMAIN Tail(chan[p]) : i + 1 \in DOMAIN chan[p]
                                          /\ Tail(chan[p])[i] = chan[p][i + 1]
      BY <1>5, <3>1
    <3> QED BY <3>1, <3>2
  <2>2. CASE ~taken
    BY <1>3, <2>2
  <2> QED BY <2>1, <2>2
<1>7. /\ \A i \in DOMAIN chan[q]' :
           \/ \E j \in DOMAIN chan[q] : chan[q]'[i] = chan[q][j]
           \/ chan[q]'[i].kind \in {"offer", "answer", "candidate"}
      /\ r.out = <<>> => chan[q]' = chan[q]
  <2>1. \A i \in DOMAIN r.out : r.out[i].kind \in {"offer", "answer", "candidate"}
    BY LegalOut DEF Operation
  <2> DEFINE t == chan[q] \o r.out
  <2>2. \A i \in DOMAIN t : \/ \E j \in DOMAIN chan[q] : t[i] = chan[q][j]
                            \/ \E j \in DOMAIN r.out : t[i] = r.out[j]
    <3> SUFFICES ASSUME NEW i \in DOMAIN t
                 PROVE  \/ \E j \in DOMAIN chan[q] : t[i] = chan[q][j]
                        \/ \E j \in DOMAIN r.out : t[i] = r.out[j]
      OBVIOUS
    <3>1. CASE i <= Len(chan[q])
      BY <1>5, <3>1
    <3>2. CASE ~(i <= Len(chan[q]))
      <4>1. PICK n : n = Len(chan[q])
        OBVIOUS
      <4>2. PICK k : k = Len(r.out)
        OBVIOUS
      <4>3. n \in Nat /\ k \in Nat /\ Len(t) = n + k /\ DOMAIN t = 1..(n + k)
        BY <1>5, <4>1, <4>2
      <4>4. i \in Nat /\ i > n /\ i <= n + k
        BY <3>2, <4>1, <4>3
      <4>5. i - n \in 1..k
        BY <4>3, <4>4
      <4>6. t[i] = r.out[i - n]
        BY <1>5, <4>1, <4>2, <4>4, ConcatProperties
      <4>7. i - n \in DOMAIN r.out
        BY <1>5, <4>2, <4>5
      <4> QED BY <4>6, <4>7
    <3> QED BY <3>1, <3>2
  <2>3. r.out = <<>> => t = chan[q]
    BY <1>5
  <2> HIDE DEF t
  <2>4. chan[q]' = t
    BY <1>4 DEF t
  <2> QED BY <2>1, <2>2, <2>3, <2>4
<1>8. r.s.joined \/ (r.s = peer[p] /\ r.out = <<>>)
  BY DEF Operation
<1>9. Fresh(p, q) /\ Fresh(q, p)
  BY <1>1 DEF Freshes
<1>10. Fresh(p, q)'
  <2>1. CASE r.s.joined
    BY <1>3, <2>1 DEF Fresh
  <2>2. CASE r.s = peer[p] /\ chan[q]' = chan[q]
    BY <1>3, <1>6, <1>9, <2>2 DEF Fresh, Offers
  <2> QED BY <1>7, <1>8, <2>1, <2>2
<1>11. Fresh(q, p)'
  BY <1>3, <1>6, <1>7, <1>9 DEF Fresh, Offers
<1> QED BY <1>1, <1>10, <1>11 DEF Freshes

LEMMA OperationKeeps ==
    ASSUME Negotiated, NEW p \in Peer, NEW r, NEW taken \in BOOLEAN,
           Operation(p, r, taken), Does(p, r, taken)
    PROVE  Negotiated'
<1>1. TypeOK /\ Typed(r) /\ (taken => chan[p] # <<>>) /\ Legal(p, r, taken)
  BY DEF Operation, Negotiated
<1>2. PICK q : q = Other(p)
  OBVIOUS
<1>3. TypeOK'
  BY <1>1, <1>2, DoesShape
<1>4. Freshes'
  BY DoesFresh DEF Negotiated
<1>5. Exchanges'
  BY <1>1, DoesExchanges DEF Negotiated
<1> QED BY <1>3, <1>4, <1>5 DEF Negotiated

LEMMA OperationSends ==
    ASSUME Negotiated, Sent, NEW p \in Peer, NEW r, NEW taken \in BOOLEAN,
           Operation(p, r, taken), Does(p, r, taken)
    PROVE  Sent'
<1> DEFINE q == Other(p)
<1>1. q \in Peer /\ q # p /\ Peer = {p, q}
  BY TwoPeers
<1>2. TypeOK /\ Typed(r) /\ (taken => chan[p] # <<>>)
  BY DEF Operation, Negotiated
<1>3. /\ peer[p]' = r.s /\ peer[q]' = peer[q]
      /\ chan[p]' = IF taken THEN Tail(chan[p]) ELSE chan[p]
  BY <1>2, DoesShape
<1>4. chan[q]' = chan[q] \o r.out
  BY <1>2, DoesSends
<1>5. /\ chan[p] \in Seq(Item) /\ chan[q] \in Seq(Item) /\ r.out \in Seq(Item)
  BY <1>1, <1>2 DEF TypeOK, Typed
<1>6. \A i \in DOMAIN r.out : r.out[i].kind # "replace"
  BY LegalOut DEF Operation
<1>7. /\ LaidOut(peer[p]) /\ LaidOut(peer[q])
      /\ Queued(chan[p], peer[p].sending, peer[p].track)
      /\ Queued(chan[q], peer[q].sending, peer[q].track)
  BY <1>1 DEF Sent, TrackQueued
<1>8. LaidOut(r.s) /\ r.s.track = peer[p].track
  BY <1>7 DEF Operation
<1>9. Queued(chan[p]', r.s.sending, r.s.track)
  <2>1. CASE taken /\ chan[p][1].kind = "replace"
    <3>1. r.s.sending = IF peer[p].sending = NoSender THEN NoSender ELSE chan[p][1].track
      BY <2>1 DEF Operation
    <3>2. Queued(Tail(chan[p]), r.s.sending, peer[p].track)
      BY <1>2, <1>5, <1>7, <2>1, <3>1, QueuedTail
    <3> QED BY <1>3, <1>8, <2>1, <3>2
  <2>2. CASE ~(taken /\ chan[p][1].kind = "replace")
    <3>1. r.s.sending \in {peer[p].sending, peer[p].track, NoSender}
      BY <2>2 DEF Operation, Sends
    <3>2. Queued(chan[p]', peer[p].sending, peer[p].track)
      <4>1. CASE taken
        BY <1>2, <1>3, <1>5, <1>7, <2>2, <4>1, QueuedTail
      <4>2. CASE ~taken
        BY <1>3, <1>7, <4>2
      <4> QED BY <4>1, <4>2
    <3>3. PICK s : s = chan[p]'
      OBVIOUS
    <3>4. Queued(s, r.s.sending, peer[p].track)
      BY <3>1, <3>2, <3>3, QueuedSends
    <3> QED BY <1>8, <3>3, <3>4
  <2> QED BY <2>1, <2>2
<1>10. Queued(chan[q]', peer[q].sending, peer[q].track)
  <2>1. Queued(chan[q] \o r.out, peer[q].sending, peer[q].track)
    BY <1>5, <1>6, <1>7, QueuedMore
  <2> QED BY <1>4, <2>1
<1>11. LaidOut(peer[p])' /\ LaidOut(peer[q])'
  BY <1>3, <1>7, <1>8 DEF LaidOut
<1>12. TrackQueued(p)' /\ TrackQueued(q)'
  BY <1>3, <1>9, <1>10 DEF TrackQueued
<1> QED BY <1>1, <1>11, <1>12 DEF Sent

\* What Does does to the signals under way.
LEMMA DoesLanding ==
    ASSUME Negotiated, NEW p \in Peer, NEW q, q = Other(p),
           Converges(p, q), Converges(q, p),
           NEW r, Typed(r), NEW taken \in BOOLEAN, taken => chan[p] # <<>>, Does(p, r, taken),
           NEW new, \/ r.out = <<>> /\ new = NoSignal
                    \/ r.out # <<>> /\ r.out[1] = new
    PROVE  \E f, g : Landing(p, q, IF taken THEN 1 ELSE 0, new, f, g)
<1> DEFINE from == IF taken THEN 1 ELSE 0
<1>1. q \in Peer /\ q # p /\ Peer = {p, q} /\ Other(q) = p
  BY TwoPeers
<1>2. /\ TypeOK /\ TypeOK' /\ peer[q]' = peer[q]
      /\ chan[p]' = IF taken THEN Tail(chan[p]) ELSE chan[p]
  BY DoesShape DEF Negotiated
<1>3. chan[q]' = chan[q] \o r.out
  BY <1>2, DoesSends
<1>4. chan[p] \in Seq(Item) /\ chan[q] \in Seq(Item) /\ r.out \in Seq(Item)
  BY <1>1, <1>2 DEF TypeOK, Typed
<1>5. Brings(chan[p], chan[p]', from, NoSignal)
  <2>1. CASE taken
    BY <1>2, <1>4, <2>1, BringsTail
  <2>2. CASE ~taken
    BY <1>2, <1>4, <2>2, BringsSame
  <2> QED BY <2>1, <2>2
<1>6. Brings(chan[q], chan[q]', 0, new)
  <2>1. Brings(chan[q], chan[q] \o r.out, 0, new)
    BY <1>4, BringsOut
  <2> QED BY <1>3, <2>1
<1> HIDE DEF from
<1>7. PICK f : Arrives(f, p, from, NoSignal)
  BY <1>5, BringsArrives
<1>8. PICK g : Arrives(g, q, 0, new)
  BY <1>1, <1>6, BringsArrives
<1>9. Exchange(p, q) /\ Exchange(q, p) /\ Fresh(p, q) /\ Fresh(q, p)
  BY <1>1 DEF Negotiated, Exchanges, Freshes
<1>10. SameExchange(peer[q], peer[q]') /\ peer[q]'.joined = peer[q].joined
  BY <1>2 DEF SameExchange
<1>11. Landing(p, q, from, new, f, g)
  BY <1>2, <1>7, <1>8, <1>9, <1>10 DEF Landing
<1> QED BY <1>11 DEF from

LEMMA OperationConverges ==
    ASSUME Negotiated, Converging, NEW p \in Peer, NEW r, NEW taken \in BOOLEAN,
           Operation(p, r, taken), Does(p, r, taken)
    PROVE  Converging'
<1> SUFFICES ASSUME ~lost' PROVE \A o \in Peer : Converges(o, Other(o))'
  BY DEF Converging
<1>1. PICK q : q = Other(p)
  OBVIOUS
<1>2. q \in Peer /\ q # p /\ Peer = {p, q} /\ Other(q) = p
  BY <1>1, TwoPeers
<1>3. ~lost /\ ~r.s.gaveUp
  BY DEF Does
<1>4. Converges(p, q) /\ Converges(q, p)
  BY <1>1, <1>2, <1>3 DEF Converging
<1>5. /\ Typed(r) /\ (taken => chan[p] # <<>>) /\ Lands(p, r, taken) /\ TypeOK
  BY <1>3 DEF Operation, Negotiated
<1>6. peer[p]' = r.s
  BY <1>1, <1>5, DoesShape
<1>7. chan[p] \in Seq(Item) /\ (taken => 1 \in DOMAIN chan[p])
  BY <1>5 DEF TypeOK
<1>8. PICK from : from = IF taken THEN 1 ELSE 0
  OBVIOUS
<1>9. ASSUME NEW new, \/ r.out = <<>> /\ new = NoSignal
                      \/ r.out # <<>> /\ r.out[1] = new
      PROVE  \E f, g : Landing(p, q, from, new, f, g)
  BY <1>1, <1>4, <1>5, <1>8, <1>9, DoesLanding
<1>10. ASSUME HasOffered(p, r.s, r.out)
       PROVE  \E f, g : Landing(p, q, from, Message("offer", r.s.epoch, r.s.offer), f, g)
  <2>1. PICK new : new = Message("offer", r.s.epoch, r.s.offer)
    OBVIOUS
  <2>2. r.out # <<>> /\ r.out[1] = new
    BY <1>10, <2>1 DEF HasOffered, OfferItems
  <2>3. \E f, g : Landing(p, q, from, new, f, g)
    BY <1>9, <2>2
  <2> QED BY <2>1, <2>3
<1>11. Converges(p, q)' /\ Converges(q, p)'
  <2>1. CASE /\ SameExchange(peer[p], r.s) /\ r.out = <<>> /\ r.s.joined = peer[p].joined
             /\ taken /\ chan[p][1].kind \in {"offer", "answer"} =>
                  peer[p].joined /\ Idle(p, peer[p], chan[p][1])
    <3>1. PICK f, g : Landing(p, q, from, NoSignal, f, g)
      BY <1>9, <2>1
    <3> QED BY <1>6, <1>8, <2>1, <3>1, LandSame
  <2>2. CASE /\ r.s.epoch > peer[p].epoch /\ HasOffered(p, r.s, r.out) /\ r.s.joined
             /\ taken /\ chan[p][1].kind = "offer" => chan[p][1].epoch = peer[p].epoch
    <3>1. PICK new : new = Message("offer", r.s.epoch, r.s.offer)
      OBVIOUS
    <3>2. PICK f, g : Landing(p, q, from, new, f, g)
      BY <1>10, <2>2, <3>1
    <3>3. /\ new = Message("offer", peer[p]'.epoch, peer[p]'.offer)
          /\ peer[p]'.epoch > peer[p].epoch /\ peer[p]'.sig = "have-local-offer"
          /\ peer[p]'.joined
      BY <1>6, <2>2, <3>1 DEF HasOffered
    <3> QED BY <1>8, <2>2, <3>2, <3>3, LandBegins
  <2>3. CASE ~taken /\ Offers1(p, peer[p], r.s, r.out) /\ r.s.joined /\ peer[p].joined
    <3>1. PICK new : new = Message("offer", r.s.epoch, r.s.offer)
      OBVIOUS
    <3>2. HasOffered(p, r.s, r.out) /\ r.out = OfferItems(r.s)
      BY <2>3 DEF Offers1, HasOffered
    <3>3. PICK f, g : Landing(p, q, 0, new, f, g)
      BY <1>8, <1>10, <2>3, <3>1, <3>2
    <3>4. /\ new = Message("offer", peer[p]'.epoch, peer[p]'.offer) /\ peer[p]'.joined
          /\ Offers1(p, peer[p], peer[p]', OfferItems(peer[p]'))
      BY <1>6, <2>3, <3>1, <3>2
    <3> QED BY <2>3, <3>3, <3>4, LandOffers
  <2>4. CASE /\ ~taken /\ ~peer[p].joined /\ r.s.joined
             /\ r.s.epoch = peer[p].epoch /\ r.s.settled = None
             /\ IF p = Offerer THEN HasOffered(p, r.s, r.out)
                ELSE r.s.sig = "stable" /\ r.out = <<>>
    <3>1. \E new, f, g :
            /\ Landing(p, q, 0, new, f, g)
            /\ IF p = Offerer THEN new = Message("offer", r.s.epoch, r.s.offer)
               ELSE new = NoSignal
      <4>1. CASE p = Offerer
        BY <1>8, <1>10, <2>4, <4>1
      <4>2. CASE p # Offerer
        <5>1. \E f, g : Landing(p, q, from, NoSignal, f, g)
          BY <1>9, <2>4, <4>2
        <5> QED BY <1>8, <2>4, <4>2, <5>1
      <4> QED BY <4>1, <4>2
    <3>2. PICK new, f, g :
            /\ Landing(p, q, 0, new, f, g)
            /\ IF p = Offerer THEN new = Message("offer", r.s.epoch, r.s.offer)
               ELSE new = NoSignal
      BY <3>1
    <3>3. /\ ~peer[p].joined /\ peer[p]'.joined /\ peer[p]'.epoch = peer[p].epoch
          /\ peer[p]'.settled = None
          /\ IF p = Offerer
             THEN /\ peer[p]'.sig = "have-local-offer"
                  /\ new = Message("offer", peer[p]'.epoch, peer[p]'.offer)
             ELSE peer[p]'.sig = "stable"
      BY <1>6, <2>4, <3>2 DEF HasOffered
    <3> QED BY <3>2, <3>3, LandJoins
  <2>5. CASE /\ taken /\ Answering(p, peer[p], r.s, chan[p][1], r.out)
             /\ r.s.epoch = chan[p][1].epoch /\ r.s.joined /\ peer[p].joined
    <3>1. PICK m : m = chan[p][1]
      OBVIOUS
    <3>2. PICK new : new = Message("answer", r.s.epoch, m.tag)
      OBVIOUS
    <3>3. r.out = <<new>> /\ r.out # <<>> /\ r.out[1] = new
      BY <2>5, <3>1, <3>2 DEF Answering
    <3>4. PICK f, g : Landing(p, q, 1, new, f, g)
      BY <1>8, <1>9, <2>5, <3>3
    <3>5. /\ Answering(p, peer[p], peer[p]', m, <<new>>) /\ peer[p]'.epoch = m.epoch
          /\ new = Message("answer", peer[p]'.epoch, m.tag) /\ peer[p]'.joined
      BY <1>6, <2>5, <3>1, <3>2, <3>3
    <3> QED BY <1>7, <2>5, <3>1, <3>4, <3>5, LandAnswers
  <2>6. CASE /\ taken /\ Completing(peer[p], r.s, chan[p][1], r.out)
             /\ r.s.joined /\ peer[p].joined
    <3>1. PICK m : m = chan[p][1]
      OBVIOUS
    <3>2. r.out = <<>>
      BY <2>6 DEF Completing
    <3>3. PICK f, g : Landing(p, q, 1, NoSignal, f, g)
      BY <1>8, <1>9, <2>6, <3>2
    <3>4. Completing(peer[p], peer[p]', m, <<>>) /\ peer[p]'.joined
      BY <1>6, <2>6, <3>1, <3>2
    <3> QED BY <1>7, <2>6, <3>1, <3>3, <3>4, LandCompletes
  <2> QED BY <1>5, <2>1, <2>2, <2>3, <2>4, <2>5, <2>6 DEF Lands
<1> QED BY <1>1, <1>2, <1>11

-----------------------------------------------------------------------------
(* The invariants: events, timers, the relay and the server.                *)

\* A step that leaves p's exchange alone.  It loses no signal, or says so.
Quietly(p) ==
    /\ SameExchange(peer[p], peer[p]') /\ peer[p]'.joined = peer[p].joined
    /\ Carries(chan[p], chan[p]', 0, NoSignal)
    /\ lost' \/ (~lost /\ Brings(chan[p], chan[p]', 0, NoSignal))
    /\ ~peer[p].joined =>
         /\ peer[p]'.armed = {} /\ peer[p]'.conn = "none"
         /\ \A i \in DOMAIN chan[p]' : chan[p]'[i].kind \notin {"rebuild", "replace"}
    /\ LaidOut(peer[p]) => LaidOut(peer[p])'
    /\ TrackQueued(p) => TrackQueued(p)'

LEMMA QuietKeeps ==
    ASSUME Negotiated, TypeOK', \A p \in Peer : Quietly(p)
    PROVE  Negotiated'
<1>1. ASSUME NEW p \in Peer
      PROVE  Fresh(p, Other(p))'
  <2>1. PICK q \in Peer : q = Other(p)
    BY TwoPeers
  <2>2. PICK g \in [Nat -> Nat] : Moves(g, q, 0, NoSignal)
    BY CarriesMoves DEF Quietly
  <2>3. Offers(q) = {} => Offers(q)' = {}
    BY <2>2 DEF Moves, NoSignal
  <2> QED BY <2>1, <2>3 DEF Fresh, Quietly, SameExchange, Negotiated, Freshes
<1>2. ASSUME NEW p \in Peer
      PROVE  Exchange(p, Other(p))'
  <2>1. PICK q \in Peer : q = Other(p) /\ Other(q) = p
    BY TwoPeers
  <2>2. PICK f \in [Nat -> Nat] : Moves(f, p, 0, NoSignal)
    BY CarriesMoves DEF Quietly
  <2>3. PICK g \in [Nat -> Nat] : Moves(g, q, 0, NoSignal)
    BY CarriesMoves DEF Quietly
  <2>4. PICK from : from = 0
    OBVIOUS
  <2>5. Stepping(p, q, from, NoSignal, f, g)
    BY <2>1, <2>2, <2>3, <2>4 DEF Stepping, Quietly, Negotiated, Exchanges
  <2>6. SameExchange(peer[p], peer[p]')
    BY DEF Quietly
  <2> QED BY <2>1, <2>5, <2>6, StepSame
<1> QED BY <1>1, <1>2 DEF Negotiated, Freshes, Exchanges

LEMMA QuietConverges ==
    ASSUME Negotiated, Converging, TypeOK', \A p \in Peer : Quietly(p)
    PROVE  Converging'
<1> SUFFICES ASSUME ~lost', NEW p \in Peer PROVE Converges(p, Other(p))'
  BY DEF Converging
<1>1. PICK q \in Peer : q = Other(p) /\ Other(q) = p
  BY TwoPeers
<1>2. /\ ~lost /\ Brings(chan[p], chan[p]', 0, NoSignal)
      /\ Brings(chan[q], chan[q]', 0, NoSignal)
  BY DEF Quietly
<1>3. PICK f : Arrives(f, p, 0, NoSignal)
  BY <1>2, BringsArrives
<1>4. PICK g : Arrives(g, q, 0, NoSignal)
  BY <1>2, BringsArrives
<1>5. /\ Exchange(p, q) /\ Exchange(q, p) /\ Fresh(p, q) /\ Fresh(q, p)
      /\ Converges(p, q) /\ Converges(q, p)
  BY <1>1, <1>2 DEF Negotiated, Exchanges, Freshes, Converging
<1>6. PICK from : from = 0
  OBVIOUS
<1>7. Landing(p, q, from, NoSignal, f, g)
  BY <1>1, <1>3, <1>4, <1>5, <1>6 DEF Landing, Quietly, Negotiated
<1>8. SameExchange(peer[p], peer[p]') /\ peer[p]'.joined = peer[p].joined
  BY DEF Quietly
<1>9. Converges(p, q)'
  BY <1>6, <1>7, <1>8, LandSame
<1> QED BY <1>1, <1>9

LEMMA UntouchedQuietly ==
    ASSUME Negotiated, NEW p \in Peer, peer[p]' = peer[p], chan[p]' = chan[p],
           lost => lost'
    PROVE  Quietly(p)
<1>1. Carries(chan[p], chan[p]', 0, NoSignal)
  BY CarriesSame, PeerTyped DEF Negotiated
<1>2. peer[p].joined \in BOOLEAN
  BY PeerTyped DEF Negotiated
<1>3. TrackQueued(p) => TrackQueued(p)'
  BY DEF TrackQueued
<1>4. LaidOut(peer[p]) => LaidOut(peer[p])'
  BY DEF LaidOut
<1>5. Brings(chan[p], chan[p]', 0, NoSignal)
  BY BringsSame, PeerTyped DEF Negotiated
<1> QED BY <1>1, <1>2, <1>3, <1>4, <1>5
        DEF Quietly, SameExchange, Negotiated, Freshes, Fresh

\* Steps of one peer.
LEMMA OneQuietly ==
    ASSUME Negotiated, NEW p \in Peer, NEW s \in PeerState, NEW c \in Seq(Item),
           peer' = [peer EXCEPT ![p] = s], chan' = [chan EXCEPT ![p] = c],
           faults' \in 0..MaxFaults, lost' \in BOOLEAN,
           SameExchange(peer[p], s), s.joined = peer[p].joined,
           Carries(chan[p], c, 0, NoSignal),
           lost => lost', lost' \/ Brings(chan[p], c, 0, NoSignal),
           ~peer[p].joined =>
              /\ s.armed = {} /\ s.conn = "none"
              /\ \A i \in DOMAIN c : c[i].kind \notin {"rebuild", "replace"},
           LaidOut(peer[p]) => LaidOut(s),
           Queued(chan[p], peer[p].sending, peer[p].track) => Queued(c, s.sending, s.track)
    PROVE  TypeOK' /\ \A q \in Peer : Quietly(q)
<1>1. peer \in [Peer -> PeerState] /\ chan \in [Peer -> Seq(Item)]
  BY DEF Negotiated, TypeOK
<1>2. TypeOK'
  BY <1>1 DEF TypeOK
<1>3. peer[p]' = s /\ chan[p]' = c
  BY <1>1
<1>4. Quietly(p)
  BY <1>3 DEF Quietly, TrackQueued, LaidOut
<1>5. ASSUME NEW q \in Peer, q # p PROVE Quietly(q)
  <2>1. peer[q]' = peer[q] /\ chan[q]' = chan[q]
    BY <1>1, <1>5
  <2> QED BY <2>1, UntouchedQuietly
<1> QED BY <1>2, <1>4, <1>5

LEMMA ToggleQuietly ==
    ASSUME Negotiated, NEW p \in Peer, Toggle(p)
    PROVE  TypeOK' /\ \A q \in Peer : Quietly(q)
<1>1. /\ peer[p] \in PeerState /\ chan[p] \in Seq(Item) /\ peer[p].joined
      /\ peer[p].track \in Nat /\ MaxToggles \in Nat
  BY PeerTyped, NoSenderTyped DEF Negotiated, Toggle
<1>2. peer[Other(p)].track \in Nat
  BY TwoPeers, PeerTyped, NoSenderTyped DEF Negotiated
<1>3. PICK k : k = peer[p].track + 1
  OBVIOUS
<1>4. k \in 0..MaxToggles
  BY <1>1, <1>2, <1>3 DEF Toggle
<1>5. PICK x : x = [kind |-> "replace", track |-> k]
  OBVIOUS
<1>6. x \in Item /\ x.kind = "replace" /\ x.track = k
  BY <1>4, <1>5 DEF Item
<1>7. PICK n \in 0..Len(chan[p]) :
        /\ \A i \in n + 1 .. Len(chan[p]) : chan[p][i].kind # "replace"
        /\ chan' = [chan EXCEPT ![p] = InsertAt(@, n + 1, x)]
  BY <1>3, <1>5 DEF Toggle
<1>8. PICK c : c = InsertAt(chan[p], n + 1, x)
  OBVIOUS
<1>9. PICK s : s = [peer[p] EXCEPT !.track = k]
  OBVIOUS
<1>10. peer' = [peer EXCEPT ![p] = s] /\ chan' = [chan EXCEPT ![p] = c]
  BY <1>3, <1>7, <1>8, <1>9 DEF Toggle
<1>11. /\ s \in PeerState /\ SameExchange(peer[p], s) /\ s.joined = peer[p].joined
       /\ s.sending = peer[p].sending /\ s.track = k
       /\ (LaidOut(peer[p]) => LaidOut(s))
  BY <1>1, <1>4, <1>9 DEF PeerState, SameExchange, LaidOut
<1>12. c \in Seq(Item)
  BY <1>1, <1>6, <1>7, <1>8, InsertShape
<1>13. Carries(chan[p], c, 0, NoSignal) /\ Brings(chan[p], c, 0, NoSignal)
  BY <1>1, <1>6, <1>7, <1>8, CarriesInsert, BringsInsert
<1>14. Queued(chan[p], peer[p].sending, peer[p].track) => Queued(c, s.sending, s.track)
  BY <1>1, <1>6, <1>7, <1>8, <1>11, QueuedInsert
<1>15. faults' \in 0..MaxFaults /\ lost' \in BOOLEAN /\ (lost => lost')
  BY DEF Toggle, Negotiated, TypeOK
<1> QED BY <1>1, <1>10, <1>11, <1>12, <1>13, <1>14, <1>15, OneQuietly

LEMMA ConnQuietly ==
    ASSUME Negotiated, NEW p \in Peer, Connect(p) \/ BreaksAlone(p) \/ NetworkBreaks(p)
    PROVE  TypeOK' /\ \A q \in Peer : Quietly(q)
<1>1. /\ peer[p] \in PeerState /\ chan[p] \in Seq(Item) /\ peer[p].joined \in BOOLEAN
      /\ peer[p].conn # "none" /\ 0 \in 0..MaxRebuilds
  <2>1. 0 \in 0..MaxRebuilds
    BY PeersAssumption
  <2>2. peer[p].conn # "none"
    BY DEF Connect, BreaksAlone, NetworkBreaks, Breaks
  <2> QED BY <2>1, <2>2, PeerTyped DEF Negotiated
<1>2. peer[p].joined
  BY <1>1 DEF Negotiated, Freshes, Fresh
<1>3. \E s \in PeerState :
        /\ peer' = [peer EXCEPT ![p] = s] /\ SameExchange(peer[p], s)
        /\ s.joined = peer[p].joined /\ s.sending = peer[p].sending
        /\ s.track = peer[p].track /\ (LaidOut(peer[p]) => LaidOut(s))
  <2>1. CASE Connect(p)
    <3>1. PICK s : s = [peer[p] EXCEPT !.conn = "connected", !.rebuilds = 0,
                                       !.gaveUp = FALSE, !.armed = {}]
      OBVIOUS
    <3>2. peer' = [peer EXCEPT ![p] = s] /\ peer[p].settled # None
      BY <2>1, <3>1 DEF Connect, Connectable
    <3>3. s \in PeerState
      BY <1>1, <3>1 DEF PeerState
    <3>4. /\ SameExchange(peer[p], s) /\ s.joined = peer[p].joined
          /\ s.sending = peer[p].sending /\ s.track = peer[p].track
          /\ (LaidOut(peer[p]) => LaidOut(s))
      BY <1>1, <3>1, <3>2 DEF PeerState, SameExchange, LaidOut
    <3> QED BY <3>2, <3>3, <3>4
  <2>2. CASE Breaks(p)
    <3>1. PICK s : s = [peer[p] EXCEPT !.conn = "broken", !.need = TRUE,
                                       !.gaveUp = FALSE,
                                       !.armed = peer[p].armed \cup {"failed"}]
      OBVIOUS
    <3>2. peer' = [peer EXCEPT ![p] = s]
      BY <2>2, <3>1 DEF Breaks
    <3>3. s \in PeerState
      BY <1>1, <3>1 DEF PeerState
    <3>4. /\ SameExchange(peer[p], s) /\ s.joined = peer[p].joined
          /\ s.sending = peer[p].sending /\ s.track = peer[p].track
      BY <1>1, <3>1 DEF PeerState, SameExchange
    <3>5. LaidOut(peer[p]) => LaidOut(s)
      <4>1. peer[p].conn = "connected" \/ peer[p].settled # None
        BY <2>2 DEF Breaks
      <4> QED BY <1>1, <3>1, <4>1 DEF PeerState, LaidOut
    <3> QED BY <3>2, <3>3, <3>4, <3>5
  <2> QED BY <2>1, <2>2 DEF BreaksAlone, NetworkBreaks
<1>4. PICK s \in PeerState :
        /\ peer' = [peer EXCEPT ![p] = s] /\ SameExchange(peer[p], s)
        /\ s.joined = peer[p].joined /\ s.sending = peer[p].sending
        /\ s.track = peer[p].track /\ (LaidOut(peer[p]) => LaidOut(s))
  BY <1>3
<1>5. PICK c : c = chan[p]
  OBVIOUS
<1>6. c \in Seq(Item) /\ chan' = [chan EXCEPT ![p] = c]
  BY <1>1, <1>5 DEF Connect, BreaksAlone, NetworkBreaks, Breaks, Negotiated, TypeOK
<1>7. Carries(chan[p], c, 0, NoSignal) /\ Brings(chan[p], c, 0, NoSignal)
  BY <1>1, <1>5, CarriesSame, BringsSame
<1>8. faults' \in 0..MaxFaults /\ lost' \in BOOLEAN /\ (lost => lost')
  BY PeersAssumption
     DEF Connect, BreaksAlone, NetworkBreaks, Breaks, Fault, Negotiated, TypeOK
<1> QED BY <1>2, <1>4, <1>5, <1>6, <1>7, <1>8, OneQuietly

LEMMA ExpiresQuietly ==
    ASSUME Negotiated, NEW p \in Peer, NEW t \in {"watchdog", "failed"},
           TimerFires(p, t) \/ TimerFiresEarly(p, t)
    PROVE  TypeOK' /\ \A q \in Peer : Quietly(q)
<1>1. peer[p] \in PeerState /\ chan[p] \in Seq(Item) /\ Len(chan[p]) \in Nat
  BY PeerTyped DEF Negotiated
<1>2. PICK k \in 0..Len(chan[p]) : Expires(p, t, k)
  BY <1>1 DEF TimerFires, TimerFiresEarly
<1>3. peer[p].joined
  BY <1>1, <1>2 DEF Expires, Negotiated, Freshes, Fresh
<1>4. PICK s : s = [peer[p] EXCEPT !.armed = @ \ {t}]
  OBVIOUS
<1>5. peer' = [peer EXCEPT ![p] = s]
  BY <1>2, <1>4 DEF Expires
<1>6. /\ s \in PeerState /\ SameExchange(peer[p], s) /\ s.joined = peer[p].joined
      /\ s.sending = peer[p].sending /\ s.track = peer[p].track
      /\ (LaidOut(peer[p]) => LaidOut(s))
  BY <1>1, <1>4 DEF PeerState, SameExchange, LaidOut
<1>7. PICK x : x = [kind |-> "rebuild"]
  OBVIOUS
<1>8. x \in Item /\ x.kind = "rebuild"
  BY <1>7 DEF Item
<1>9. PICK c : c = IF t = "watchdog" /\ peer[p].gaveUp THEN chan[p]
                   ELSE InsertAt(chan[p], k + 1, x)
  OBVIOUS
<1>10. chan' = [chan EXCEPT ![p] = c]
  BY <1>2, <1>7, <1>9 DEF Expires
<1>11. /\ c \in Seq(Item)
       /\ Carries(chan[p], c, 0, NoSignal) /\ Brings(chan[p], c, 0, NoSignal)
       /\ Queued(chan[p], peer[p].sending, peer[p].track) => Queued(c, s.sending, s.track)
  <2>1. CASE c = chan[p]
    BY <1>1, <1>6, <2>1, CarriesSame, BringsSame
  <2>2. CASE c = InsertAt(chan[p], k + 1, x)
    <3>1. c \in Seq(Item)
      BY <1>1, <1>2, <1>8, <2>2, InsertShape
    <3>2. Carries(chan[p], c, 0, NoSignal) /\ Brings(chan[p], c, 0, NoSignal)
      BY <1>1, <1>2, <1>8, <2>2, CarriesInsert, BringsInsert
    <3>3. Queued(chan[p], peer[p].sending, peer[p].track) => Queued(c, s.sending, s.track)
      BY <1>1, <1>2, <1>6, <1>8, <2>2, QueuedInsert
    <3> QED BY <3>1, <3>2, <3>3
  <2> QED BY <1>9, <2>1, <2>2
<1>12. faults' \in 0..MaxFaults /\ lost' \in BOOLEAN /\ (lost => lost')
  BY PeersAssumption DEF TimerFires, TimerFiresEarly, Expires, Fault, Negotiated, TypeOK
<1> QED BY <1>3, <1>5, <1>6, <1>10, <1>11, <1>12, OneQuietly

LEMMA LoseQuietly ==
    ASSUME Negotiated, NEW p \in Peer, LoseSignal(p)
    PROVE  TypeOK' /\ \A q \in Peer : Quietly(q)
<1>1. /\ chan[p] # <<>> /\ Head(chan[p]) = chan[p][1] /\ Head(chan[p]).kind # "replace"
      /\ chan[p] \in Seq(Item) /\ Tail(chan[p]) \in Seq(Item) /\ peer[p] \in PeerState
  BY HeadOfKind, HeadItem, PeerTyped DEF LoseSignal, Negotiated
<1>2. PICK c : c = Tail(chan[p])
  OBVIOUS
<1>3. PICK s : s = peer[p]
  OBVIOUS
<1>4. peer' = [peer EXCEPT ![p] = s] /\ chan' = [chan EXCEPT ![p] = c]
  BY <1>2, <1>3 DEF LoseSignal, Negotiated, TypeOK
<1>5. Carries(chan[p], c, 0, NoSignal)
  <2>1. Carries(chan[p], c, 1, NoSignal)
    BY <1>1, <1>2, CarriesTail
  <2>2. PICK f \in [Nat -> Nat] :
          /\ \A i \in Signals(c) :
               /\ f[i] > 1
               /\ \/ f[i] \in Signals(chan[p]) /\ c[i] = chan[p][f[i]]
                  \/ f[i] = Len(chan[p]) + 1 /\ c[i] = NoSignal
          /\ \A i, j \in Signals(c) : i < j => f[i] < f[j]
    BY <2>1 DEF Carries
  <2>3. \A i \in Signals(c) : i \in Nat
    BY <1>1, <1>2 DEF Signals
  <2>4. \A i \in Signals(c) : f[i] > 0
    BY <2>2, <2>3
  <2> QED BY <2>2, <2>4 DEF Carries
<1>6. Queued(chan[p], peer[p].sending, peer[p].track) => Queued(c, s.sending, s.track)
  BY <1>1, <1>2, <1>3, QueuedTail
<1>7. ~peer[p].joined =>
        /\ s.armed = {} /\ s.conn = "none"
        /\ \A i \in DOMAIN c : c[i].kind \notin {"rebuild", "replace"}
  <2>1. \A i \in DOMAIN c : i + 1 \in DOMAIN chan[p] /\ c[i] = chan[p][i + 1]
    BY <1>1, <1>2
  <2> QED BY <1>3, <2>1 DEF Negotiated, Freshes, Fresh
<1>8. faults' \in 0..MaxFaults /\ lost' = TRUE
  BY PeersAssumption DEF LoseSignal, Fault, Negotiated, TypeOK
<1>9. SameExchange(peer[p], s) /\ s.joined = peer[p].joined /\ (LaidOut(peer[p]) => LaidOut(s))
  BY <1>3 DEF SameExchange
<1> QED BY <1>1, <1>2, <1>3, <1>4, <1>5, <1>6, <1>7, <1>8, <1>9, OneQuietly

LEMMA ResumesQuietly ==
    ASSUME Negotiated, SocketResumes
    PROVE  TypeOK' /\ \A q \in Peer : Quietly(q)
<1>1. PICK x : x = [kind |-> "resume", epoch |-> NextEpoch]
  OBVIOUS
<1>2. x \in Item /\ x.kind = "resume"
  BY <1>1, NextEpochNat DEF Item, Negotiated
<1>3. chan' = [p \in Peer |-> Append(chan[p], x)] /\ peer' = peer
  BY <1>1 DEF SocketResumes
<1>4. TypeOK'
  <2>1. chan \in [Peer -> Seq(Item)]
    BY DEF Negotiated, TypeOK
  <2>2. chan' \in [Peer -> Seq(Item)]
    BY <1>2, <1>3, <2>1
  <2>3. faults' \in 0..MaxFaults /\ lost' \in BOOLEAN
    BY PeersAssumption DEF SocketResumes, Fault, Negotiated, TypeOK
  <2> QED BY <1>3, <2>2, <2>3 DEF Negotiated, TypeOK
<1>5. ASSUME NEW p \in Peer PROVE Quietly(p)
  <2>1. /\ chan[p] \in Seq(Item) /\ peer[p].joined \in BOOLEAN
    BY PeerTyped DEF Negotiated
  <2>2. chan[p]' = Append(chan[p], x) /\ peer[p]' = peer[p]
    BY <1>3
  <2>3. PICK c : c = Append(chan[p], x)
    OBVIOUS
  <2>4. Carries(chan[p], c, 0, NoSignal) /\ Brings(chan[p], c, 0, NoSignal)
    BY <1>2, <2>1, <2>3, CarriesMore, BringsMore
  <2>5. \A i \in DOMAIN c : c[i] = x \/ (i \in DOMAIN chan[p] /\ c[i] = chan[p][i])
    BY <2>1, <2>3
  <2>6. TrackQueued(p) => TrackQueued(p)'
    <3>1. c = chan[p] \o <<x>> /\ <<x>> \in Seq(Item) /\ \A i \in DOMAIN <<x>> : <<x>>[i] = x
      BY <1>2, <2>1, <2>3
    <3>2. \A i \in DOMAIN <<x>> : <<x>>[i].kind # "replace"
      BY <1>2, <3>1
    <3>3. Queued(chan[p], peer[p].sending, peer[p].track)
            => Queued(c, peer[p].sending, peer[p].track)
      BY <2>1, <3>1, <3>2, QueuedMore
    <3> QED BY <2>2, <2>3, <3>3 DEF TrackQueued
  <2>7. /\ Carries(chan[p], chan[p]', 0, NoSignal) /\ Brings(chan[p], chan[p]', 0, NoSignal)
        /\ lost' = lost
    BY <2>2, <2>3, <2>4 DEF SocketResumes
  <2>8. ~peer[p].joined =>
          /\ peer[p]'.armed = {} /\ peer[p]'.conn = "none"
          /\ \A i \in DOMAIN chan[p]' : chan[p]'[i].kind \notin {"rebuild", "replace"}
    BY <1>2, <2>2, <2>3, <2>5 DEF Negotiated, Freshes, Fresh
  <2>9. LaidOut(peer[p]) => LaidOut(peer[p])'
    BY <2>2 DEF LaidOut
  <2> QED BY <2>2, <2>6, <2>7, <2>8, <2>9 DEF Quietly, SameExchange
<1> QED BY <1>4, <1>5

-----------------------------------------------------------------------------
(* The specification.                                                       *)

LEMMA InitNegotiated == Init => Negotiated /\ Sent
<1> SUFFICES ASSUME Init PROVE Negotiated /\ Sent
  OBVIOUS
<1> DEFINE s == [joined |-> FALSE, epoch |-> 0, rebuilds |-> 0, gaveUp |-> FALSE,
                 armed |-> {}, sig |-> "none", offer |-> None, offers |-> 0,
                 settled |-> None, conn |-> "none", need |-> FALSE,
                 track |-> 0, sending |-> NoSender]
<1>1. s \in PeerState
  BY PeersAssumption, NoSenderTyped DEF PeerState
<1>2. \A p \in Peer : peer[p] = s /\ chan[p] = <<>>
  BY DEF Init
<1>3. TypeOK
  <2>1. peer = [p \in Peer |-> s] /\ chan = [p \in Peer |-> <<>>]
    BY DEF Init
  <2>2. peer \in [Peer -> PeerState]
    <3> HIDE DEF s
    <3> QED BY <1>1, <2>1
  <2>3. <<>> \in Seq(Item)
    OBVIOUS
  <2>4. chan \in [Peer -> Seq(Item)]
    BY <2>1, <2>3
  <2>5. faults \in 0..MaxFaults /\ lost \in BOOLEAN
    <3>1. 0 \in 0..MaxFaults
      BY PeersAssumption
    <3>2. faults = 0 /\ lost = FALSE
      BY DEF Init
    <3> QED BY <3>1, <3>2
  <2> QED BY <2>2, <2>4, <2>5 DEF TypeOK
<1>4. ASSUME NEW p \in Peer
      PROVE  Fresh(p, Other(p)) /\ Exchange(p, Other(p)) /\ LaidOut(peer[p]) /\ TrackQueued(p)
  <2>1. chan[p] = <<>> /\ chan[Other(p)] = <<>>
    BY <1>2, TwoPeers
  <2>2. Offers(p) = {} /\ Offers(Other(p)) = {} /\ Answers(p) = {} /\ Replacing(chan[p]) = {}
    BY <2>1 DEF Offers, Answers, Replacing
  <2>3. peer[p].joined = FALSE /\ peer[p].sig = "none" /\ peer[p].settled = None
        /\ peer[p].armed = {} /\ peer[p].conn = "none" /\ peer[p].need = FALSE
        /\ peer[p].track = 0 /\ peer[p].sending = NoSender
    BY <1>2
  <2>4. Fresh(p, Other(p))
    BY <2>1, <2>2, <2>3 DEF Fresh
  <2>5. Exchange(p, Other(p))
    BY <2>2, <2>3 DEF Exchange, OffersTagged, AnswersTagged, OfferIsLast, OffersOrdered,
                      OffersOut, AnswersOut
  <2>6. LaidOut(peer[p]) /\ TrackQueued(p)
    BY <2>2, <2>3 DEF LaidOut, TrackQueued, Queued
  <2> QED BY <2>4, <2>5, <2>6
<1> QED BY <1>3, <1>4 DEF Negotiated, Freshes, Exchanges, Sent

LEMMA InitConverging == Init => Converging
<1> SUFFICES ASSUME Init, NEW p \in Peer PROVE Converges(p, Other(p))
  BY DEF Converging
<1>1. Other(p) \in Peer
  BY TwoPeers
<1>2. \A q \in Peer : /\ peer[q].joined = FALSE /\ peer[q].epoch = 0
                      /\ peer[q].sig = "none"
  BY DEF Init
<1> QED BY <1>1, <1>2 DEF Converges, Ahead, Awaits, Agree, Joins

\* A step is an operation of a peer, or leaves every exchange alone.
LEMMA NextSteps ==
    ASSUME Negotiated, [Next]_vars
    PROVE  \/ \E p \in Peer : \E r, taken :
                taken \in BOOLEAN /\ Does(p, r, taken) /\ Operation(p, r, taken)
           \/ TypeOK' /\ \A p \in Peer : Quietly(p)
<1>1. ASSUME NEW p \in Peer, Operates(p), ~Toggle(p)
      PROVE  \E r, taken : taken \in BOOLEAN /\ Does(p, r, taken) /\ Operation(p, r, taken)
  BY <1>1, JoinOperates, SignalOperates, ResumeOperates, RenegotiateOperates,
     RunRebuildOperates, ReplaceOperates DEF Operates
<1>2. ASSUME NEW p \in Peer,
             \/ Toggle(p) \/ Connect(p) \/ BreaksAlone(p) \/ NetworkBreaks(p) \/ LoseSignal(p)
             \/ \E t \in {"watchdog", "failed"} : TimerFires(p, t) \/ TimerFiresEarly(p, t)
      PROVE  TypeOK' /\ \A q \in Peer : Quietly(q)
  BY <1>2, ToggleQuietly, ConnQuietly, LoseQuietly, ExpiresQuietly
<1>3. CASE SocketResumes
  BY <1>3, ResumesQuietly
<1>4. CASE UNCHANGED vars
  <2>1. TypeOK'
    BY <1>4 DEF vars, Negotiated, TypeOK
  <2>2. \A p \in Peer : peer[p]' = peer[p] /\ chan[p]' = chan[p] /\ (lost => lost')
    BY <1>4 DEF vars
  <2>3. \A p \in Peer : Quietly(p)
    BY <2>2, UntouchedQuietly
  <2> QED BY <2>1, <2>3
<1> QED BY <1>1, <1>2, <1>3, <1>4 DEF Next

LEMMA NextNegotiated ==
    ASSUME Negotiated, [Next]_vars
    PROVE  Negotiated'
BY NextSteps, OperationKeeps, QuietKeeps

LEMMA NextSent ==
    ASSUME Negotiated, Sent, [Next]_vars
    PROVE  Sent'
<1>1. (\A p \in Peer : Quietly(p)) => Sent'
  BY DEF Quietly, Sent
<1> QED BY <1>1, NextSteps, OperationSends

LEMMA NextConverging ==
    ASSUME Negotiated, Converging, [Next]_vars
    PROVE  Converging'
BY NextSteps, OperationConverges, QuietConverges

\* An answer that p takes in this step is to the offer it waits with.
OwnAnswered(p) ==
    peer'[p].settled # peer[p].settled /\ peer'[p].settled # None
        /\ peer'[p].settled[1] = p => peer'[p].settled = peer[p].offer

LEMMA NextAnswers ==
    ASSUME Negotiated, [Next]_vars
    PROVE  \A p \in Peer : OwnAnswered(p)
<1>1. ASSUME NEW p \in Peer, NEW r, NEW taken \in BOOLEAN,
             Does(p, r, taken), Operation(p, r, taken)
      PROVE  \A q \in Peer : OwnAnswered(q)
  <2>1. /\ Other(p) # p /\ Peer = {p, Other(p)}
        /\ Exchange(p, Other(p)) /\ Exchange(Other(p), p)
    BY TwoPeers DEF Negotiated, Exchanges
  <2>2. /\ TypeOK /\ Typed(r) /\ (taken => chan[p] # <<>>) /\ Legal(p, r, taken)
    BY <1>1 DEF Operation, Negotiated
  <2>3. PICK q : q = Other(p)
    OBVIOUS
  <2>4. peer[p]' = r.s /\ peer[q]' = peer[q]
    BY <1>1, <2>2, <2>3, DoesShape
  <2>5. OwnAnswered(p)
    <3>1. CASE r.s.settled \in {peer[p].settled, None}
      BY <2>4, <3>1 DEF OwnAnswered
    <3>2. CASE taken /\ Answering(p, peer[p], r.s, chan[p][1], r.out)
      <4>1. chan[p] # <<>> /\ chan[p] \in Seq(Item)
        BY <2>2, <3>2 DEF TypeOK
      <4>2. 1 \in Offers(p)
        BY <3>2, <4>1 DEF Offers, Answering
      <4>3. chan[p][1].tag[1] = Other(p)
        BY <2>1, <4>2 DEF Exchange, OffersTagged
      <4>4. r.s.settled[1] # p
        BY <2>1, <3>2, <4>3 DEF Answering
      <4> QED BY <2>4, <4>4 DEF OwnAnswered
    <3>3. CASE taken /\ Completing(peer[p], r.s, chan[p][1], r.out)
      <4>1. chan[p] # <<>> /\ chan[p] \in Seq(Item)
        BY <2>2, <3>3 DEF TypeOK
      <4>2. 1 \in Answers(p) /\ chan[p][1].epoch = peer[p].epoch
        BY <3>3, <4>1 DEF Answers, Completing
      <4>3. chan[p][1].tag = peer[p].offer
        BY <2>1, <4>2 DEF Exchange, AnswersOut
      <4> QED BY <2>4, <3>3, <4>3 DEF OwnAnswered, Completing
    <3> QED BY <2>2, <3>1, <3>2, <3>3 DEF Legal, SameExchange, Offers1, Begins
  <2>6. OwnAnswered(q)
    BY <2>4 DEF OwnAnswered
  <2> QED BY <2>1, <2>3, <2>5, <2>6
<1>2. (\A p \in Peer : Quietly(p)) => \A p \in Peer : OwnAnswered(p)
  BY DEF Quietly, SameExchange, OwnAnswered
<1> QED BY <1>1, <1>2, NextSteps

LEMMA AlwaysNegotiated == Spec => [](Negotiated /\ Sent)
<1>1. Negotiated /\ Sent /\ [Next]_vars => (Negotiated /\ Sent)'
  BY NextNegotiated, NextSent
<1> QED BY <1>1, InitNegotiated, PTL DEF Spec

\* Every field of PeerManager keeps its range, and every signal and queued operation under
\* way is one the handlers know: the rebuilds in a row never pass MAX_CONSECUTIVE_REBUILDS.
THEOREM TypeCorrect == Spec => []TypeOK
  <1>1. Negotiated /\ Sent => TypeOK
    BY DEF Negotiated
  <1>2. QED
    BY <1>1, AlwaysNegotiated, PTL

\* applyDescription applies an answer only to the offer it answers, however offers cross,
\* are rolled back, lost or left behind by a rebuild: for any number of faults, of switches
\* of camera and of rebuilds.
THEOREM AnswersTheirOffer == Spec => AnswersOwnOffer
  <1>1. Negotiated /\ Sent /\ [Next]_vars =>
          [\A p \in Peer :
             peer'[p].settled # peer[p].settled /\ peer'[p].settled # None
               /\ peer'[p].settled[1] = p => peer'[p].settled = peer[p].offer]_vars
    BY NextAnswers DEF OwnAnswered
  <1>2. QED
    BY <1>1, AlwaysNegotiated, PTL DEF Spec, AnswersOwnOffer

\* A completed exchange sends the latest track: replaceLocalTrack, the transceivers that
\* are laid out or adopted, and a rebuild never leave a sender with an older one once no
\* switch is queued.
THEOREM LatestTrack == Spec => []LatestTrackIsSent
  <1>1. Negotiated /\ Sent => LatestTrackIsSent
    <2> SUFFICES ASSUME Negotiated, Sent, NEW p \in Peer, peer[p].settled # None,
                        \A i \in DOMAIN chan[p] : chan[p][i].kind # "replace"
                 PROVE  peer[p].sending = peer[p].track
      BY DEF LatestTrackIsSent
    <2>1. peer[p].sending # NoSender
      BY DEF Sent, LaidOut
    <2>2. Replacing(chan[p]) = {}
      BY DEF Replacing
    <2>3. QED
      BY <2>1, <2>2 DEF Sent, TrackQueued, Queued
  <1>2. QED
    BY <1>1, AlwaysNegotiated, PTL

\* "Either side may (re)negotiate at any time": when nothing is under way any more and no
\* signal was lost, both sides have completed the same exchange, for any number of
\* collisions, rebuilds, resumes and switches of camera on the way.
THEOREM SignallingAgrees == Spec => []SignallingConverges
  <1>1. Negotiated /\ Converging /\ [Next]_vars => Converging'
    BY NextConverging
  <1>2. Negotiated /\ Converging => SignallingConverges
    <2> SUFFICES ASSUME Negotiated, Converging, ~lost,
                        \A p \in Peer : peer[p].joined /\ chan[p] = <<>>,
                        NEW p \in Peer
                 PROVE  peer[p].sig = "stable" /\ Connectable(p)
      BY DEF SignallingConverges
    <2>1. PICK q \in Peer : q = Other(p) /\ Other(q) = p
      BY TwoPeers
    <2>2. Converges(p, q) /\ Converges(q, p)
      BY <2>1 DEF Converging
    <2>3. Offers(p) = {} /\ Offers(q) = {} /\ Answers(p) = {} /\ Answers(q) = {}
      BY DEF Offers, Answers
    <2>4. /\ ~Offered(p, q) /\ ~Offered(q, p) /\ ~Answered(p, q) /\ ~Answered(q, p)
          /\ ~Yields(p, q) /\ ~Yields(q, p)
      BY <2>3 DEF Offered, Answered, Yields
    <2>5. /\ peer[p].epoch \in Nat /\ peer[q].epoch \in Nat
          /\ peer[p].sig \in {"none", "stable", "have-local-offer"}
          /\ peer[q].sig \in {"none", "stable", "have-local-offer"}
      BY PeerTyped DEF Negotiated, PeerState
    <2>6. peer[p].epoch = peer[q].epoch
      BY <2>2, <2>4, <2>5 DEF Converges, Ahead
    <2>7. peer[p].sig = "stable" /\ peer[q].sig = "stable"
      BY <2>2, <2>4, <2>5, <2>6 DEF Converges, Awaits, Joins
    <2>8. QED
      BY <2>1, <2>2, <2>6, <2>7 DEF Converges, Agree, Connectable
  <1>3. QED
    BY <1>1, <1>2, InitConverging, AlwaysNegotiated, PTL DEF Spec
=============================================================================
