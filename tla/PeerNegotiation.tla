-------------------------- MODULE PeerNegotiation --------------------------
(***************************************************************************)
(* PeerManager (peer.manager.ts) on both sides of one match: "perfect      *)
(* negotiation" with generations (epochs), ICE restarts, the two rebuild   *)
(* timers and the resume notices of the server.                            *)
(*                                                                         *)
(* Every operation on a PeerConnection goes through PeerManager.run, one   *)
(* at a time, so an operation is one step.  chan[p] is everything under    *)
(* way to p in order: the relay of signal.handler.ts, the inbox that holds *)
(* signals until join, and p's queue of operations.                        *)
(*                                                                         *)
(* A description is known by the offer its exchange began with, a tag; the *)
(* SDP is left out.  Media can flow when both sides have completed the     *)
(* same exchange.  Timers are far slower than signals (8 s and 20 s), so a *)
(* timer that ends first, a lost signal, a socket that resumes and a       *)
(* network that breaks are each one of at most MaxFaults faults.           *)
(***************************************************************************)
EXTENDS Naturals, SequencesExt

CONSTANTS
    Offerer,        \* isOffererUid: the impolite peer
    Answerer,       \* the polite peer
    MaxRebuilds,    \* RTC_CONFIG.MAX_CONSECUTIVE_REBUILDS
    MaxToggles,     \* bound: how often the users switch camera or microphone
    MaxFaults       \* bound: faults of the network and of the relay

ASSUME PeersAssumption ==
    Offerer # Answerer /\ MaxRebuilds \in Nat \ {0}
    /\ MaxToggles \in Nat /\ MaxFaults \in Nat

VARIABLES
    peer,       \* per peer: the state of PeerManager and its PeerConnection
    chan,       \* per peer: signals and notices under way to it
    faults,     \* faults so far
    lost        \* a signal was lost, or a peer came to its limit of rebuilds

vars == <<peer, chan, faults, lost>>

Peer == {Offerer, Answerer}
Other(p) == IF p = Offerer THEN Answerer ELSE Offerer

None == <<>>
NoSender == MaxToggles + 1      \* the peer has not laid out or adopted transceivers
Tag == {None} \cup (Peer \X Nat \X Nat)     \* offering peer, its epoch, its count

PeerState ==
    [joined : BOOLEAN, epoch : Nat,
     rebuilds : 0..MaxRebuilds,                         \* consecutiveRebuilds
     gaveUp : BOOLEAN,                                  \* connectionState 'failed'
     armed : SUBSET {"watchdog", "failed"},             \* connectTimer, failedTimer
     sig : {"none", "stable", "have-local-offer"},      \* pc.signalingState
     offer : Tag, offers : Nat, settled : Tag,          \* local offer, last exchange
     conn : {"none", "new", "connected", "broken"},     \* pc.connectionState
     need : BOOLEAN,                                    \* negotiation needed
     track : 0..MaxToggles,                             \* localTracks, numbered
     sending : {NoSender} \cup 0..MaxToggles]           \* the track of the senders

\* "resume" is a notice of the server, "rebuild" an operation that a timer queued, and
\* "replace" one that replaceLocalTrack did.
Item ==
    [kind : {"offer", "answer", "candidate"}, epoch : Nat, tag : Tag]
        \cup [kind : {"resume"}, epoch : Nat] \cup [kind : {"rebuild"}]
        \cup [kind : {"replace"}, track : 0..MaxToggles]

\* Every field keeps its range: the rebuilds in a row never pass their limit, however
\* many signals of newer epochs, timers and resumes come together.
TypeOK ==
    /\ peer \in [Peer -> PeerState]
    /\ chan \in [Peer -> Seq(Item)]
    /\ faults \in 0..MaxFaults
    /\ lost \in BOOLEAN

Init ==
    /\ peer = [p \in Peer |->
                 [joined |-> FALSE, epoch |-> 0, rebuilds |-> 0, gaveUp |-> FALSE,
                  armed |-> {}, sig |-> "none", offer |-> None, offers |-> 0,
                  settled |-> None, conn |-> "none", need |-> FALSE,
                  track |-> 0, sending |-> NoSender]]
    /\ chan = [p \in Peer |-> <<>>]
    /\ faults = 0 /\ lost = FALSE

-----------------------------------------------------------------------------
(* What an operation does: the new state of the peer and what it sends.     *)

Silently(s) == [s |-> s, out |-> <<>>]
Message(kind, epoch, tag) == [kind |-> kind, epoch |-> epoch, tag |-> tag]

\* An offer is followed by its candidates; one stands for all of them.
MakeOffer(p, s) ==
    LET tag == <<p, s.epoch, s.offers + 1>>
    IN IF s.sig # "stable" THEN Silently(s)
       ELSE [s |-> [s EXCEPT !.sig = "have-local-offer", !.offer = tag,
                             !.offers = @ + 1, !.need = FALSE],
             out |-> <<Message("offer", s.epoch, tag), Message("candidate", s.epoch, tag)>>]

\* Mutant of CreatePeer: only the first connection of a match has a watchdog.
CreatePeerUnwatched(p, s, initiate) ==
    LET new == [s EXCEPT !.sig = "stable", !.offer = None, !.offers = 0,
                         !.settled = None, !.conn = "new", !.need = FALSE, !.gaveUp = FALSE,
                         !.armed = IF s.conn = "none" THEN {"watchdog"} ELSE {},
                         !.sending = IF initiate THEN s.track ELSE NoSender]
    IN IF initiate THEN MakeOffer(p, new) ELSE Silently(new)

CreatePeer(p, s, initiate) ==
    LET new == [s EXCEPT !.sig = "stable", !.offer = None, !.offers = 0,
                         !.settled = None, !.conn = "new", !.need = FALSE,
                         !.gaveUp = FALSE, !.armed = {"watchdog"},
                         !.sending = IF initiate THEN s.track ELSE NoSender]
    IN IF initiate THEN MakeOffer(p, new) ELSE Silently(new)

RebuildTo(p, s, epoch, initiate) ==
    CASE epoch <= s.epoch          -> Silently(s)
      [] epoch > s.epoch /\ s.rebuilds >= MaxRebuilds
                                   -> Silently([s EXCEPT !.gaveUp = TRUE])
      [] OTHER -> CreatePeer(p, [s EXCEPT !.epoch = epoch, !.rebuilds = @ + 1], initiate)

\* Mutant of Answer: the answerer keeps to the transceivers it made itself.
AnswerUnadopted(s, m) ==
    [s |-> [s EXCEPT !.sig = "stable", !.offer = None, !.settled = m.tag, !.need = FALSE],
     out |-> <<Message("answer", s.epoch, m.tag)>>]

\* Applying an offer rolls back one's own; the offer's transceivers get the local tracks,
\* and the answer completes the exchange.
Answer(s, m) ==
    [s |-> [s EXCEPT !.sig = "stable", !.offer = None, !.settled = m.tag, !.need = FALSE,
                     !.sending = s.track],
     out |-> <<Message("answer", s.epoch, m.tag)>>]

\* Mutant of ApplyDescription: both peers are impolite.
ApplyDescriptionImpolite(p, s, m, applied) ==
    CASE m.kind = "offer" /\ s.sig = "stable" ->
            IF applied THEN Answer(s, m) ELSE RebuildTo(p, s, s.epoch + 1, TRUE)
      [] m.kind = "answer" /\ s.sig = "have-local-offer" ->
            Silently([s EXCEPT !.sig = "stable", !.settled = m.tag])
      [] OTHER -> Silently(s)

\* applied: setRemoteDescription succeeds.
ApplyDescription(p, s, m, applied) ==
    CASE m.kind = "offer" /\ (p = Answerer \/ s.sig = "stable") ->
            IF applied THEN Answer(s, m) ELSE RebuildTo(p, s, s.epoch + 1, TRUE)
      [] m.kind = "answer" /\ s.sig = "have-local-offer" ->
            Silently([s EXCEPT !.sig = "stable", !.settled = m.tag])
      [] OTHER -> Silently(s)     \* an ignored offer, a late answer, a candidate

\* Mutant of Process: the epoch of an older signal is not looked at.
ProcessAnyEpoch(p, s, m, applied) ==
    LET followed == RebuildTo(p, s, m.epoch, m.kind # "offer")
        done == ApplyDescription(p, followed.s, m, applied)
    IN [s |-> done.s, out |-> followed.out \o done.out]

\* processSignal: older generations are dropped, newer ones followed.
Process(p, s, m, applied) ==
    LET followed == RebuildTo(p, s, m.epoch, m.kind # "offer")
        done == ApplyDescription(p, followed.s, m, applied)
    IN IF m.epoch < s.epoch THEN Silently(s)
       ELSE [s |-> done.s, out |-> followed.out \o done.out]

\* A browser may refuse an offer that needs a rollback, and one that a partner of a newer
\* generation makes to a connection that was not rebuilt.
MayRefuse(s, m) ==
    /\ m.kind = "offer"
    /\ \/ m.epoch = s.epoch /\ s.sig # "stable"
       \/ m.epoch > s.epoch /\ s.rebuilds >= MaxRebuilds

-----------------------------------------------------------------------------
(* The queue of operations.                                                 *)

\* p's operation leaves it in r.s, takes its next message if `taken`, and sends r.out.
Does(p, r, taken) ==
    /\ peer' = [peer EXCEPT ![p] = r.s]
    /\ chan' = [chan EXCEPT ![p] = IF taken THEN Tail(@) ELSE @,
                            ![Other(p)] = @ \o r.out]
    /\ lost' = (lost \/ r.s.gaveUp)
    /\ UNCHANGED faults

Kind(p) == IF chan[p] = <<>> THEN "none" ELSE Head(chan[p]).kind

Join(p) ==
    /\ ~peer[p].joined
    /\ Does(p, CreatePeer(p, [peer[p] EXCEPT !.joined = TRUE], p = Offerer), FALSE)

ReceiveSignal(p) ==
    /\ peer[p].joined /\ Kind(p) \in {"offer", "answer", "candidate"}
    /\ \E applied \in BOOLEAN :
         /\ applied \/ MayRefuse(peer[p], Head(chan[p]))
         /\ Does(p, Process(p, peer[p], Head(chan[p]), applied), TRUE)

\* rebuild(epoch, onlyIfUnhealthy): 'reconnected' at the peer that was away, and
\* 'partner_reconnected' at the other one.  Neither waits for join.
ReceiveResume(p) ==
    /\ Kind(p) = "resume"
    /\ Does(p, IF peer[p].joined /\ peer[p].conn # "connected"
               THEN RebuildTo(p, [peer[p] EXCEPT !.rebuilds = 0], Head(chan[p]).epoch, TRUE)
               ELSE Silently(peer[p]), TRUE)

\* onnegotiationneeded after restartIce.
Renegotiate(p) ==
    /\ peer[p].need /\ peer[p].sig = "stable"
    /\ Does(p, MakeOffer(p, peer[p]), FALSE)

\* Only the timer has looked at the connection.
RunRebuild(p) ==
    /\ Kind(p) = "rebuild"
    /\ Does(p, RebuildTo(p, peer[p], peer[p].epoch + 1, TRUE), TRUE)

\* replaceLocalTrack: the track is the local one at once, the sender gets it in its turn,
\* behind what has arrived before.
Toggle(p) ==
    /\ peer[p].joined /\ peer[p].track + peer[Other(p)].track < MaxToggles
    /\ peer' = [peer EXCEPT ![p].track = @ + 1]
    /\ \E arrived \in 0..Len(chan[p]) :
         /\ \A i \in arrived + 1 .. Len(chan[p]) : chan[p][i].kind # "replace"
         /\ chan' = [chan EXCEPT ![p] =
              InsertAt(@, arrived + 1, [kind |-> "replace", track |-> peer[p].track + 1])]
    /\ UNCHANGED <<faults, lost>>

ReplaceTrack(p) ==
    /\ Kind(p) = "replace"
    /\ Does(p, Silently([peer[p] EXCEPT
                 !.sending = IF @ = NoSender THEN NoSender ELSE Head(chan[p]).track]), TRUE)

-----------------------------------------------------------------------------
(* Connection events and timers.                                            *)

\* Both sides hold the two halves of one exchange.
Connectable(p) == peer[p].settled # None /\ peer[p].settled = peer[Other(p)].settled

\* Nothing is under way: only a timer or the network can make the next move.
Quiet(p) ==
    /\ \A q \in Peer : /\ \A i \in DOMAIN chan[q] : chan[q][i].kind \in {"rebuild", "replace"}
                    /\ ~(peer[q].need /\ peer[q].sig = "stable")
    /\ ~Connectable(p)

Fault == faults < MaxFaults /\ faults' = faults + 1

Connect(p) ==
    /\ peer[p].conn \in {"new", "broken"} /\ Connectable(p)
    /\ peer' = [peer EXCEPT ![p] = [@ EXCEPT !.conn = "connected", !.rebuilds = 0,
                                             !.gaveUp = FALSE, !.armed = {}]]
    /\ UNCHANGED <<chan, faults, lost>>

\* Mutant of Breaks: a failed connection waits for its restart only.
BreaksUntimed(p) ==
    /\ peer[p].conn = "connected" \/ (peer[p].conn = "new" /\ peer[p].settled # None)
    /\ peer' = [peer EXCEPT ![p] = [@ EXCEPT !.conn = "broken", !.need = TRUE,
                                             !.gaveUp = FALSE]]
    /\ UNCHANGED <<chan, lost>>

\* ICE ends up 'failed', having asked for a restart and armed the failed timer.
Breaks(p) ==
    /\ peer[p].conn = "connected" \/ (peer[p].conn = "new" /\ peer[p].settled # None)
    /\ peer' = [peer EXCEPT ![p] = [@ EXCEPT !.conn = "broken", !.need = TRUE,
                                             !.gaveUp = FALSE,
                                             !.armed = peer[p].armed \cup {"failed"}]]
    /\ UNCHANGED <<chan, lost>>

BreaksAlone(p) == Quiet(p) /\ Breaks(p) /\ UNCHANGED faults
NetworkBreaks(p) == Fault /\ Breaks(p)

\* The rebuild is queued behind what has arrived before it.
Expires(p, t, arrived) ==
    /\ t \in peer[p].armed
    /\ peer' = [peer EXCEPT ![p].armed = @ \ {t}]
    /\ chan' = [chan EXCEPT ![p] =
                  IF t = "watchdog" /\ peer[p].gaveUp THEN @
                  ELSE InsertAt(@, arrived + 1, [kind |-> "rebuild"])]
    /\ UNCHANGED lost

TimerFires(p, t) == Quiet(p) /\ Expires(p, t, Len(chan[p])) /\ UNCHANGED faults
TimerFiresEarly(p, t) ==
    Fault /\ peer[p].joined /\ \E arrived \in 0..Len(chan[p]) : Expires(p, t, arrived)

-----------------------------------------------------------------------------
(* The relay and the server.                                                *)

\* A full rate limiter, a socket that is down or no longer in the room.
LoseSignal(p) ==
    /\ Kind(p) \in {"offer", "answer", "candidate"} /\ Fault
    /\ chan' = [chan EXCEPT ![p] = Tail(@)]
    /\ lost' = TRUE
    /\ UNCHANGED peer

\* The server's Date.now(): above every epoch that was counted up from an earlier one.
NextEpoch ==
    1 + Max({peer[p].epoch : p \in Peer}
              \cup UNION {{m.epoch : m \in {n \in Range(chan[p]) : "epoch" \in DOMAIN n}} :
                            p \in Peer})

SocketResumes ==
    /\ Fault
    /\ chan' = [p \in Peer |-> Append(chan[p], [kind |-> "resume", epoch |-> NextEpoch])]
    /\ UNCHANGED <<peer, lost>>

-----------------------------------------------------------------------------
Operates(p) ==
    Join(p) \/ ReceiveSignal(p) \/ ReceiveResume(p) \/ Renegotiate(p) \/ RunRebuild(p)
        \/ Toggle(p) \/ ReplaceTrack(p)

Next ==
    \/ \E p \in Peer :
         \/ Operates(p)
         \/ Connect(p) \/ BreaksAlone(p) \/ NetworkBreaks(p) \/ LoseSignal(p)
         \/ \E t \in {"watchdog", "failed"} : TimerFires(p, t) \/ TimerFiresEarly(p, t)
    \/ SocketResumes

Spec == Init /\ [][Next]_vars

\* A queued operation runs, a timer ends, and ICE makes up its mind; no fault is due.
FairSpec ==
    /\ Spec
    /\ \A p \in Peer :
         /\ WF_vars(Join(p)) /\ WF_vars(ReceiveSignal(p)) /\ WF_vars(ReceiveResume(p))
         /\ WF_vars(Renegotiate(p)) /\ WF_vars(RunRebuild(p))
         /\ WF_vars(ReplaceTrack(p))
         /\ WF_vars(Connect(p)) /\ WF_vars(BreaksAlone(p))
         /\ \A t \in {"watchdog", "failed"} : WF_vars(TimerFires(p, t))

-----------------------------------------------------------------------------
(* Properties.                                                              *)

\* "Either side may (re)negotiate at any time": unless a signal was lost or a peer came
\* to its limit of rebuilds, once nothing is under way both sides have completed the same
\* exchange, whatever collisions, rebuilds and restarts there were on the way.
SignallingConverges ==
    (~lost /\ \A p \in Peer : peer[p].joined /\ chan[p] = <<>>)
    => \A p \in Peer : peer[p].sig = "stable" /\ Connectable(p)

\* Once an exchange is complete, media goes both ways: a peer sends its latest track as
\* soon as no switch is queued, whichever side laid out the transceivers, and however a
\* switch fell between an offer, its rollback and a rebuild.
LatestTrackIsSent ==
    \A p \in Peer :
        (peer[p].settled # None /\ \A i \in DOMAIN chan[p] : chan[p][i].kind # "replace")
        => peer[p].sending = peer[p].track

\* An answer is applied to the offer it answers: a late answer to an offer of an earlier
\* generation, or to one that was rolled back, finds nothing to apply to.
AnswersOwnOffer ==
    [][\A p \in Peer :
         peer'[p].settled # peer[p].settled /\ peer'[p].settled # None
            /\ peer'[p].settled[1] = p => peer'[p].settled = peer[p].offer]_vars

\* "Without this the call is silently dead and the UI says 'connecting' forever": a joined
\* peer always comes to be connected, or says that it has given up.
NeverSilentlyDead ==
    \A p \in Peer : []<>(peer[p].conn = "connected" \/ peer[p].gaveUp)

\* Both sides "tear the connection down and rebuild it in lockstep after a reconnect or an
\* ICE failure": any single fault is recovered from within MAX_CONSECUTIVE_REBUILDS, and
\* after more of them the two are connected again unless one of them says it has given up.
CallRecovers ==
    \/ <>[](\A p \in Peer : peer[p].conn = "connected" /\ Connectable(p))
    \/ <>(faults > 1) /\ <>[](\E p \in Peer : peer[p].gaveUp)

\* startConnectWatchdog is there to "rebuild a connection that never came up": a timer's
\* rebuild never takes down a connection that is up.
TimersSpareConnected ==
    [][\A p \in Peer : RunRebuild(p) => peer[p].conn # "connected"]_vars
=============================================================================
