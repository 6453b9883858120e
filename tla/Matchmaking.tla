---------------------------- MODULE Matchmaking ----------------------------
(***************************************************************************)
(* Pairing of waiting users by one API process and one Redis server:       *)
(* handlers/socketio/match.handler.ts, room.handler.ts, the per-socket     *)
(* operation chain of handlers/socketio/index.ts, and the Redis state of   *)
(* services/chat/matchmaking.service.ts, room.service.ts and match.lua.    *)
(*                                                                         *)
(* Granularity.  The handlers are async functions of one event loop that   *)
(* share one Redis connection, so replies come back in the order the       *)
(* commands were issued.  A step is therefore one command (or script)      *)
(* together with the synchronous code that runs when its reply arrives, up *)
(* to the next await.  Local events (a packet, a disconnect, the matcher's *)
(* tick) touch no Redis state and are steps of their own.                  *)
(*                                                                         *)
(* A user is one socket with the uid the server gave it.  A socket that    *)
(* goes away never returns here: resuming a uid is SessionResume's topic,  *)
(* and the grace window only postpones the cleanup of an active user,      *)
(* which an asynchronous cleanup may do anyway.  Bots are disabled.        *)
(***************************************************************************)
EXTENDS Naturals, Sequences, FiniteSets

CONSTANTS
    Users,          \* uids of the sockets
    Rooms,          \* room ids (uuids); an id is reused only once forgotten
    None,           \* no room, no user, no queue entry
    Stamps,         \* the joinedAt values that tell queue members apart
    Batch,          \* config.limits.matchmakerBatch
    MaxRequests,    \* bound: client requests and disconnects in a behaviour
    FailingCalls,   \* calls that may fail: "createRoom", "addToQueue", "findMatch"
    MaxFaults,      \* bound: how many of them do
    ClaimMayLapse   \* may a claim's TTL run out under a live attempt?

ASSUME ConstantsAssumption ==
    /\ None \notin Users \cup Rooms \cup Stamps
    /\ Batch \in Nat \ {0}
    /\ MaxRequests \in Nat
    /\ FailingCalls \subseteq {"createRoom", "addToQueue", "findMatch"}
    /\ MaxFaults \in Nat
    /\ ClaimMayLapse \in BOOLEAN

VARIABLES
    \* Redis
    queue,          \* sorted set 'matchmaking:queue': <<uid, joinedAt>> members
    userRoom,       \* 'user:room:<uid>': a claim or a room binding
    live,           \* 'room:<id>': the two members, {} when the key is absent
    delLock,        \* room ids whose 'lock:room:delete:<id>' is held
    \* sockets
    connected,      \* socket.connected
    registered,     \* is the socket in the connections map?
    state,          \* socket.state
    roomId,         \* socket.roomId
    \* tryFindMatch / createAndNotifyMatch, one attempt per calling user
    matching,       \* matchingInProgress
    mpc, peer, claim, mEntry, selfTodo, peerTodo,
    \* the operation the socket's chain is running, and what waits behind it
    chain, opc, opPeer, opRoom, opEntry,
    \* cleanupUserOnDisconnect
    cpc, cPeer, cRoom, cEntry,
    \* bounds
    requests, faults

redisVars == <<queue, userRoom, live, delLock>>
socketVars == <<connected, registered, state, roomId>>
matchVars == <<matching, mpc, peer, claim, mEntry, selfTodo, peerTodo>>
opVars == <<chain, opc, opPeer, opRoom, opEntry>>
cleanVars == <<cpc, cPeer, cRoom, cEntry>>
boundVars == <<requests, faults>>
vars == <<redisVars, socketVars, matchVars, opVars, cleanVars, boundVars>>

Request == {"join", "cancel", "leave"}
MaxChain == 2       \* bound: operations waiting on one socket

AttemptPc == {"idle", "find", "removeSelf", "dropSelf", "removeBusy", "dropBusy",
              "removePeer", "dropPeer", "readd", "roomSelf", "roomPeer", "mint",
              "readClaim", "dropClaim", "requeue"}
OpPc == {"none", "joinRoom", "joinQueued", "joinAdd", "joinTry", "joinMatch",
         "cancelRead", "cancelRemove", "leaveLock", "leaveDelete", "leaveUnlock",
         "leaveEnd"}
\* What an attempt still has to do to one of its users: delete its claim, look for it
\* in the queue, add it to the queue.
Todo == {"no", "drop", "check", "add"}
CleanPc == {"none", "read", "remove", "room", "lock", "delete", "unlock", "done"}

TypeOK ==
    /\ queue \subseteq Users \X Stamps
    /\ userRoom \in [Users -> Rooms \cup {None}]
    /\ live \in [Rooms -> SUBSET Users]
    /\ delLock \subseteq Rooms
    /\ connected \in [Users -> BOOLEAN]
    /\ registered \in [Users -> BOOLEAN]
    /\ state \in [Users -> {"idle", "queue", "active"}]
    /\ roomId \in [Users -> Rooms \cup {None}]
    /\ matching \subseteq Users
    /\ mpc \in [Users -> AttemptPc]
    /\ peer \in [Users -> Users \cup {None}]
    /\ claim \in [Users -> Rooms \cup {None}]
    /\ mEntry \in [Users -> Stamps \cup {None}]
    /\ selfTodo \in [Users -> Todo]
    /\ peerTodo \in [Users -> Todo]
    /\ chain \in [Users -> Seq(Request)]
    /\ opc \in [Users -> OpPc]
    /\ opPeer \in [Users -> Users \cup {None}]
    /\ opRoom \in [Users -> Rooms \cup {None}]
    /\ opEntry \in [Users -> Stamps \cup {None}]
    /\ cpc \in [Users -> CleanPc]
    /\ cPeer \in [Users -> Users \cup {None}]
    /\ cRoom \in [Users -> Rooms \cup {None}]
    /\ cEntry \in [Users -> Stamps \cup {None}]
    /\ requests \in Nat
    /\ faults \in Nat

Init ==
    /\ queue = {}
    /\ userRoom = [u \in Users |-> None]
    /\ live = [r \in Rooms |-> {}]
    /\ delLock = {}
    /\ connected = [u \in Users |-> TRUE]
    /\ registered = [u \in Users |-> FALSE]
    /\ state = [u \in Users |-> "idle"]
    /\ roomId = [u \in Users |-> None]
    /\ matching = {}
    /\ mpc = [u \in Users |-> "idle"]
    /\ peer = [u \in Users |-> None]
    /\ claim = [u \in Users |-> None]
    /\ mEntry = [u \in Users |-> None]
    /\ selfTodo = [u \in Users |-> "no"]
    /\ peerTodo = [u \in Users |-> "no"]
    /\ chain = [u \in Users |-> <<>>]
    /\ opc = [u \in Users |-> "none"]
    /\ opPeer = [u \in Users |-> None]
    /\ opRoom = [u \in Users |-> None]
    /\ opEntry = [u \in Users |-> None]
    /\ cpc = [u \in Users |-> "none"]
    /\ cPeer = [u \in Users |-> None]
    /\ cRoom = [u \in Users |-> None]
    /\ cEntry = [u \in Users |-> None]
    /\ requests = 0
    /\ faults = 0
-----------------------------------------------------------------------------
(* What the code reads.                                                     *)

\* connections.get(uid) is a connected socket still in state 'queue'.
Searching(u) == registered[u] /\ connected[u] /\ state[u] = "queue"

\* roomService.getRoomByUserId(uid) is not null: a bare claim has no room.
InRoom(u) == userRoom[u] # None /\ live[userRoom[u]] # {}

EntriesOf(u) == {e \in queue : e[1] = u}

\* The room ids an attempt holds a claim under.
InFlight(r) == \E u \in Users : claim[u] = r

\* uuidv4() never returns an id that Redis or a handler still knows.
Fresh(r) ==
    /\ live[r] = {} /\ r \notin delLock /\ ~InFlight(r)
    /\ \A u \in Users : /\ userRoom[u] # r /\ roomId[u] # r
                        /\ opRoom[u] # r /\ cRoom[u] # r

Fails(call) == /\ call \in FailingCalls
               /\ faults < MaxFaults
               /\ faults' = faults + 1

-----------------------------------------------------------------------------
(* tryFindMatch and createAndNotifyMatch.                                   *)

MatchGoto(u, pc) == mpc' = [mpc EXCEPT ![u] = pc]

\* Mutant of AttemptEnds: the `finally` unlocks the caller and forgets the partner.
AttemptEndsHalfUnlocked(u, unlocked) ==
    /\ matching' = matching \ {u}
    /\ MatchGoto(u, "idle")
    /\ peer' = [peer EXCEPT ![u] = None]
    /\ claim' = [claim EXCEPT ![u] = None]
    /\ selfTodo' = [selfTodo EXCEPT ![u] = "no"]
    /\ peerTodo' = [peerTodo EXCEPT ![u] = "no"]
    /\ opc' = [opc EXCEPT ![u] = IF @ = "joinMatch" THEN "none" ELSE @]
    /\ UNCHANGED <<chain, opPeer, opRoom, opEntry>>

\* Every way out of tryFindMatch; a join that was awaiting the attempt is done.
AttemptEnds(u, unlocked) ==
    /\ matching' = matching \ unlocked
    /\ MatchGoto(u, "idle")
    /\ peer' = [peer EXCEPT ![u] = None]
    /\ claim' = [claim EXCEPT ![u] = None]
    /\ selfTodo' = [selfTodo EXCEPT ![u] = "no"]
    /\ peerTodo' = [peerTodo EXCEPT ![u] = "no"]
    /\ opc' = [opc EXCEPT ![u] = IF @ = "joinMatch" THEN "none" ELSE @]
    /\ UNCHANGED <<chain, opPeer, opRoom, opEntry>>

\* Users the tick may start an attempt for.  An attempt whose lock was dropped by
\* another one has had its reply before (one connection, replies in order).
Eligible == {u \in Users : Searching(u) /\ u \notin matching /\ mpc[u] = "idle"}

\* processQueuedUsers: needs two waiting users, starts up to Batch attempts without
\* awaiting them.  Which ones go first (joinedAt order) is left open.
Tick ==
    /\ Cardinality(Eligible) >= 2
    /\ \E chosen \in SUBSET Eligible :
        /\ Cardinality(chosen) = IF Cardinality(Eligible) < Batch
                                 THEN Cardinality(Eligible) ELSE Batch
        /\ matching' = matching \cup chosen
        /\ mpc' = [u \in Users |-> IF u \in chosen THEN "find" ELSE mpc[u]]
    /\ UNCHANGED <<redisVars, socketVars, peer, claim, mEntry, selfTodo, peerTodo,
                   opVars, cleanVars, boundVars>>

\* Mutant of Candidates: the script no longer looks up the candidate's own claim.
CandidatesUnchecked(u) == {e \in queue : e[1] # u}

\* match.lua offers the queue members of other users that hold no claim or room.
Candidates(u) == {e \in queue : e[1] # u /\ userRoom[e[1]] = None}

\* match.lua returns nil: the caller is bound already, or nobody is available.
FindNone(u) ==
    /\ mpc[u] = "find"
    /\ userRoom[u] # None \/ Candidates(u) = {}
    /\ AttemptEnds(u, {u})
    /\ UNCHANGED <<redisVars, socketVars, mEntry, cleanVars, boundVars>>

\* The script's effect: both users claimed for r, both members taken off the queue
\* (of the caller's own members, the one it scanned last).
ClaimPair(u, e, r) ==
    /\ userRoom' = [userRoom EXCEPT ![u] = r, ![e[1]] = r]
    /\ IF EntriesOf(u) = {}
       THEN queue' = queue \ {e}
       ELSE \E own \in EntriesOf(u) : queue' = queue \ {e, own}

\* Mutant of FindMatch: the script no longer refuses a caller that is bound already.
FindMatchUnchecked(u) ==
    /\ mpc[u] = "find"
    /\ \E e \in Candidates(u), r \in {x \in Rooms : Fresh(x)} :
        /\ ClaimPair(u, e, r)
        /\ matching' = matching \cup {e[1]}
        /\ peer' = [peer EXCEPT ![u] = e[1]]
        /\ claim' = [claim EXCEPT ![u] = r]
        /\ MatchGoto(u, IF ~Searching(u) THEN "removeSelf"
                        ELSE IF ~Searching(e[1]) THEN "removePeer"
                        ELSE "roomSelf")
    /\ UNCHANGED <<live, delLock, socketVars, mEntry, selfTodo, peerTodo, opVars,
                   cleanVars, boundVars>>

\* Mutant of FindMatch: a partner who has an attempt of its own running is refused.
\* Two users ticked together then refuse each other every time.
FindMatchRefusesBusy(u) ==
    /\ mpc[u] = "find"
    /\ userRoom[u] = None
    /\ \E e \in Candidates(u), r \in {x \in Rooms : Fresh(x)} :
        /\ ClaimPair(u, e, r)
        /\ matching' = matching \cup {e[1]}
        /\ peer' = [peer EXCEPT ![u] = e[1]]
        /\ claim' = [claim EXCEPT ![u] = r]
        /\ MatchGoto(u, IF e[1] \in matching THEN "readClaim"
                        ELSE IF ~Searching(u) THEN "removeSelf"
                        ELSE IF ~Searching(e[1]) THEN "removePeer"
                        ELSE "roomSelf")
    /\ UNCHANGED <<live, delLock, socketVars, mEntry, selfTodo, peerTodo, opVars,
                   cleanVars, boundVars>>

\* match.lua claims a pair; its reply runs tryFindMatch up to the first await of
\* createAndNotifyMatch, whose connection checks decide which one that is.
FindMatch(u) ==
    /\ mpc[u] = "find"
    /\ userRoom[u] = None
    /\ \E e \in Candidates(u), r \in {x \in Rooms : Fresh(x)} :
        /\ ClaimPair(u, e, r)
        /\ matching' = matching \cup {e[1]}
        /\ peer' = [peer EXCEPT ![u] = e[1]]
        /\ claim' = [claim EXCEPT ![u] = r]
        /\ MatchGoto(u, IF ~Searching(u) THEN "removeSelf"
                        ELSE IF ~Searching(e[1]) THEN "removePeer"
                        ELSE "roomSelf")
    /\ UNCHANGED <<live, delLock, socketVars, mEntry, selfTodo, peerTodo, opVars,
                   cleanVars, boundVars>>

\* Inside an attempt: only its program counter and what it still has to do change.
MatchStep(u, pc, self, other) ==
    /\ MatchGoto(u, pc)
    /\ selfTodo' = [selfTodo EXCEPT ![u] = self]
    /\ peerTodo' = [peerTodo EXCEPT ![u] = other]
    /\ UNCHANGED <<matching, peer, claim, opVars>>

\* What follows removeFromQueue on the three abort paths: the partner is put back if
\* the caller is gone, the caller if the partner is gone or busy, nobody if the caller
\* turned out to be in a room.
AfterRemoval(u) ==
    CASE mpc[u] \in {"removeSelf", "dropSelf"} ->
            IF connected[peer[u]] THEN MatchStep(u, "readd", "no", "check")
                                  ELSE MatchStep(u, "readClaim", "no", "no")
      [] mpc[u] \in {"removeBusy", "dropBusy"} -> MatchStep(u, "readClaim", "no", "no")
      [] mpc[u] \in {"removePeer", "dropPeer"} -> MatchStep(u, "readd", "check", "no")

Removed(u) == IF mpc[u] \in {"removePeer", "dropPeer"} THEN peer[u] ELSE u

\* removeFromQueue, first half: ZRANGE, remember the first member with that uid.
AbortReadsQueue(u) ==
    /\ mpc[u] \in {"removeSelf", "removeBusy", "removePeer"}
    /\ IF EntriesOf(Removed(u)) = {}
       THEN AfterRemoval(u) /\ UNCHANGED mEntry
       ELSE /\ \E e \in EntriesOf(Removed(u)) : mEntry' = [mEntry EXCEPT ![u] = e[2]]
            /\ MatchStep(u, CASE mpc[u] = "removeSelf" -> "dropSelf"
                              [] mpc[u] = "removeBusy" -> "dropBusy"
                              [] mpc[u] = "removePeer" -> "dropPeer", "no", "no")
    /\ UNCHANGED <<redisVars, socketVars, cleanVars, boundVars>>

\* removeFromQueue, second half: ZREM of exactly the member that was read.
AbortRemovesEntry(u) ==
    /\ mpc[u] \in {"dropSelf", "dropBusy", "dropPeer"}
    /\ queue' = queue \ {<<Removed(u), mEntry[u]>>}
    /\ mEntry' = [mEntry EXCEPT ![u] = None]
    /\ AfterRemoval(u)
    /\ UNCHANGED <<userRoom, live, delLock, socketVars, cleanVars, boundVars>>

\* getRoomByUserId for both halves of the pair, before the room is made.
CheckSelfRoom(u) ==
    /\ mpc[u] = "roomSelf"
    /\ MatchStep(u, IF InRoom(u) THEN "removeBusy" ELSE "roomPeer", "no", "no")
    /\ UNCHANGED <<redisVars, socketVars, mEntry, cleanVars, boundVars>>

CheckPeerRoom(u) ==
    /\ mpc[u] = "roomPeer"
    /\ MatchStep(u, IF InRoom(peer[u]) THEN "removePeer" ELSE "mint", "no", "no")
    /\ UNCHANGED <<redisVars, socketVars, mEntry, cleanVars, boundVars>>

\* ICE is minted, createRoom writes the room and both bindings, and the sockets
\* captured before the awaits are made active without another look at them.
CreateRoom(u) ==
    /\ mpc[u] = "mint"
    /\ live' = [live EXCEPT ![claim[u]] = {u, peer[u]}]
    /\ userRoom' = [userRoom EXCEPT ![u] = claim[u], ![peer[u]] = claim[u]]
    /\ state' = [state EXCEPT ![u] = "active", ![peer[u]] = "active"]
    /\ roomId' = [roomId EXCEPT ![u] = claim[u], ![peer[u]] = claim[u]]
    /\ AttemptEnds(u, {u, peer[u]})
    /\ UNCHANGED <<queue, delLock, connected, registered, mEntry, cleanVars,
                   boundVars>>

\* createRoom throws.  The catch block reports it to both sockets and falls through to
\* `return true`: no release, no requeue.  The failing command is the first (nothing
\* written) or one after the bindings (the room exists, the sockets do not know).
CreateRoomFails(u) ==
    /\ mpc[u] = "mint"
    /\ Fails("createRoom")
    /\ \E written \in BOOLEAN :
        /\ live' = IF written THEN [live EXCEPT ![claim[u]] = {u, peer[u]}] ELSE live
        /\ userRoom' = IF written
                       THEN [userRoom EXCEPT ![u] = claim[u], ![peer[u]] = claim[u]]
                       ELSE userRoom
    /\ AttemptEnds(u, {u, peer[u]})
    /\ UNCHANGED <<queue, delLock, socketVars, mEntry, cleanVars, requests>>

\* releaseClaim, first half: GET both keys; only a claim that is still ours is deleted.
ReadClaim(u) ==
    /\ mpc[u] = "readClaim"
    /\ MatchStep(u, "dropClaim",
                 IF userRoom[u] = claim[u] THEN "drop" ELSE "no",
                 IF userRoom[peer[u]] = claim[u] THEN "drop" ELSE "no")
    /\ UNCHANGED <<redisVars, socketVars, mEntry, cleanVars, boundVars>>

\* releaseClaim, second half: DEL what was ours when read.  releaseAndRequeue then puts
\* back whoever is still connected and waiting.
DropClaim(u) ==
    /\ mpc[u] = "dropClaim"
    /\ userRoom' = [x \in Users |->
                      IF \/ x = u /\ selfTodo[u] = "drop"
                         \/ x = peer[u] /\ peerTodo[u] = "drop"
                      THEN None ELSE userRoom[x]]
    /\ IF Searching(u) \/ Searching(peer[u])
       THEN MatchStep(u, "requeue", IF Searching(u) THEN "check" ELSE "no",
                                    IF Searching(peer[u]) THEN "check" ELSE "no")
       ELSE AttemptEnds(u, {u, peer[u]})
    /\ UNCHANGED <<queue, live, delLock, socketVars, mEntry, cleanVars, boundVars>>

\* Once nobody is left to add: the early re-add of an abort path goes on to release the
\* claim, releaseAndRequeue's ends the attempt and unlocks both users.
Requeued(u, self, other) ==
    IF self # "no" \/ other # "no" THEN MatchStep(u, mpc[u], self, other)
    ELSE IF mpc[u] = "readd" THEN MatchStep(u, "readClaim", "no", "no")
    ELSE AttemptEnds(u, {u, peer[u]})

\* addToQueue, first half: isUserInQueue.  The two users are handled concurrently.
RequeueCheck(u) ==
    /\ mpc[u] \in {"readd", "requeue"}
    /\ \/ /\ selfTodo[u] = "check"
          /\ Requeued(u, IF EntriesOf(u) = {} THEN "add" ELSE "no", peerTodo[u])
       \/ /\ peerTodo[u] = "check"
          /\ Requeued(u, selfTodo[u], IF EntriesOf(peer[u]) = {} THEN "add" ELSE "no")
    /\ UNCHANGED <<redisVars, socketVars, mEntry, cleanVars, boundVars>>

\* addToQueue, second half: ZADD.  A member that is already there is not doubled.
RequeueAdd(u) ==
    /\ mpc[u] \in {"readd", "requeue"}
    /\ \E t \in Stamps :
        \/ /\ selfTodo[u] = "add"
           /\ queue' = queue \cup {<<u, t>>}
           /\ Requeued(u, "no", peerTodo[u])
        \/ /\ peerTodo[u] = "add"
           /\ queue' = queue \cup {<<peer[u], t>>}
           /\ Requeued(u, selfTodo[u], "no")
    /\ UNCHANGED <<userRoom, live, delLock, socketVars, mEntry, cleanVars, boundVars>>

\* addToQueue throws: releaseAndRequeue logs it and goes on; on an abort path it ends
\* the attempt through tryFindMatch's catch, which unlocks the caller only.
RequeueFails(u) ==
    /\ mpc[u] \in {"readd", "requeue"}
    /\ Fails("addToQueue")
    /\ \/ /\ selfTodo[u] = "add"
          /\ IF mpc[u] = "readd" THEN AttemptEnds(u, {u})
                                 ELSE Requeued(u, "no", peerTodo[u])
       \/ /\ peerTodo[u] = "add"
          /\ IF mpc[u] = "readd" THEN AttemptEnds(u, {u})
                                 ELSE Requeued(u, selfTodo[u], "no")
    /\ UNCHANGED <<redisVars, socketVars, mEntry, cleanVars, requests>>

\* The script ran but its reply is lost: findMatch throws, the caller is unlocked, the
\* claims stay until their TTL.
FindReplyLost(u) ==
    /\ mpc[u] = "find"
    /\ Fails("findMatch")
    /\ userRoom[u] = None
    /\ \E e \in Candidates(u), r \in {x \in Rooms : Fresh(x)} : ClaimPair(u, e, r)
    /\ AttemptEnds(u, {u})
    /\ UNCHANGED <<live, delLock, socketVars, mEntry, cleanVars, requests>>

\* Mutant of ClaimExpires: createRoom leaves the claim's short TTL on the binding.
BindingExpires(u) ==
    /\ userRoom[u] # None
    /\ ClaimMayLapse \/ ~InFlight(userRoom[u])
    /\ userRoom' = [userRoom EXCEPT ![u] = None]
    /\ UNCHANGED <<queue, live, delLock, socketVars, matchVars, opVars, cleanVars,
                   boundVars>>

\* SETEX with claimTtlSeconds: a claim that became no room is gone after 30 seconds,
\* longer than an attempt lives (minting is cut off at 4 s) unless ClaimMayLapse.
ClaimExpires(u) ==
    /\ userRoom[u] # None
    /\ live[userRoom[u]] = {}
    /\ ClaimMayLapse \/ ~InFlight(userRoom[u])
    /\ userRoom' = [userRoom EXCEPT ![u] = None]
    /\ UNCHANGED <<queue, live, delLock, socketVars, matchVars, opVars, cleanVars,
                   boundVars>>

-----------------------------------------------------------------------------
(* The packets of one socket, run one at a time by its operation chain.     *)

OpGoto(u, pc) == opc' = [opc EXCEPT ![u] = pc]

\* A packet arrives; serialize() appends its handler to the chain.
Receive(u) ==
    /\ connected[u]
    /\ requests < MaxRequests
    /\ Len(chain[u]) < MaxChain
    /\ \E k \in Request : chain' = [chain EXCEPT ![u] = Append(@, k)]
    /\ requests' = requests + 1
    /\ UNCHANGED <<redisVars, socketVars, matchVars, opc, opPeer, opRoom, opEntry,
                   cleanVars, faults>>

\* The chain starts the next handler, also when the socket is gone by then.
StartsNext(u, k) ==
    /\ opc[u] = "none"
    /\ chain[u] # <<>>
    /\ Head(chain[u]) = k
    /\ chain' = [chain EXCEPT ![u] = Tail(@)]

\* join: registerConnection puts the socket in the registry and resets it to 'idle',
\* then handleJoin runs up to its room lookup.  (The resets make its own "already in
\* queue" check, and the pending-join check, pass for a second join of one socket.)
BeginJoin(u) ==
    /\ StartsNext(u, "join")
    /\ registered' = [registered EXCEPT ![u] = TRUE]
    /\ state' = [state EXCEPT ![u] = "idle"]
    /\ OpGoto(u, "joinRoom")
    /\ UNCHANGED <<redisVars, connected, roomId, matchVars, opPeer, opRoom, opEntry,
                   cleanVars, boundVars>>

\* getRoomByUserId answers: rejected in a room or when made active meanwhile.
JoinChecksRoom(u) ==
    /\ opc[u] = "joinRoom"
    /\ IF InRoom(u) \/ (registered[u] /\ state[u] = "active")
       THEN /\ OpGoto(u, "none")
            /\ UNCHANGED <<state, roomId>>
       ELSE /\ OpGoto(u, "joinQueued")
            /\ state' = [state EXCEPT ![u] = "queue"]
            /\ roomId' = [roomId EXCEPT ![u] = None]
    /\ UNCHANGED <<redisVars, connected, registered, matchVars, chain, opPeer, opRoom,
                   opEntry, cleanVars, boundVars>>

\* An attempt that lost its lock to another one's unlock has had its script's reply
\* by the time a later command of its user is answered.
ScriptAnswered(u) == mpc[u] = "idle" \/ u \in matching

\* The synchronous start of tryFindMatch, called by the join itself.
TryFindMatch(u) ==
    IF u \notin matching /\ Searching(u)
    THEN /\ matching' = matching \cup {u}
         /\ MatchGoto(u, "find")
         /\ OpGoto(u, "joinMatch")
    ELSE /\ UNCHANGED <<matching, mpc>>
         /\ OpGoto(u, "none")

\* addToQueue, first half: isUserInQueue.
JoinChecksQueue(u) ==
    /\ opc[u] = "joinQueued"
    /\ ScriptAnswered(u)
    /\ IF EntriesOf(u) # {}
       THEN TryFindMatch(u)
       ELSE OpGoto(u, "joinAdd") /\ UNCHANGED <<matching, mpc>>
    /\ UNCHANGED <<redisVars, socketVars, peer, claim, mEntry, selfTodo, peerTodo,
                   chain, opPeer, opRoom, opEntry, cleanVars, boundVars>>

\* addToQueue, second half: ZADD (EXPIRE, PUBLISH and ZCARD follow).
JoinAdds(u) ==
    /\ opc[u] = "joinAdd"
    /\ \E t \in Stamps : queue' = queue \cup {<<u, t>>}
    /\ OpGoto(u, "joinTry")
    /\ UNCHANGED <<userRoom, live, delLock, socketVars, matchVars, chain, opPeer, opRoom,
                   opEntry, cleanVars, boundVars>>

\* addToQueue throws: the client is told, the socket stays in state 'queue'.
JoinAddFails(u) ==
    /\ opc[u] = "joinAdd"
    /\ Fails("addToQueue")
    /\ OpGoto(u, "none")
    /\ UNCHANGED <<redisVars, socketVars, matchVars, chain, opPeer, opRoom, opEntry,
                   cleanVars, requests>>

JoinTries(u) ==
    /\ opc[u] = "joinTry"
    /\ ScriptAnswered(u)
    /\ TryFindMatch(u)
    /\ UNCHANGED <<redisVars, socketVars, peer, claim, mEntry, selfTodo, peerTodo,
                   chain, opPeer, opRoom, opEntry, cleanVars, boundVars>>

\* cancel: ignored unless the socket is in the queue.
BeginCancel(u) ==
    /\ StartsNext(u, "cancel")
    /\ OpGoto(u, IF state[u] = "queue" THEN "cancelRead" ELSE "none")
    /\ UNCHANGED <<redisVars, socketVars, matchVars, opPeer, opRoom, opEntry, cleanVars,
                   boundVars>>

\* removeFromQueue, first half: with no member there is nothing more to await.
CancelReadsQueue(u) ==
    /\ opc[u] = "cancelRead"
    /\ IF EntriesOf(u) = {}
       THEN /\ OpGoto(u, "none")
            /\ state' = [state EXCEPT ![u] = "idle"]
            /\ UNCHANGED opEntry
       ELSE /\ \E e \in EntriesOf(u) : opEntry' = [opEntry EXCEPT ![u] = e[2]]
            /\ OpGoto(u, "cancelRemove")
            /\ UNCHANGED state
    /\ UNCHANGED <<redisVars, connected, registered, roomId, matchVars, chain, opPeer,
                   opRoom, cleanVars, boundVars>>

\* Mutant of CancelRemovesEntry: the reset to 'idle' is forgotten.
CancelStaysQueued(u) ==
    /\ opc[u] = "cancelRemove"
    /\ queue' = queue \ {<<u, opEntry[u]>>}
    /\ opEntry' = [opEntry EXCEPT ![u] = None]
    /\ OpGoto(u, "none")
    /\ UNCHANGED <<userRoom, live, delLock, socketVars, matchVars, chain, opPeer,
                   opRoom, cleanVars, boundVars>>

\* removeFromQueue, second half, and the reset to 'idle' that does not look again.
CancelRemovesEntry(u) ==
    /\ opc[u] = "cancelRemove"
    /\ queue' = queue \ {<<u, opEntry[u]>>}
    /\ opEntry' = [opEntry EXCEPT ![u] = None]
    /\ state' = [state EXCEPT ![u] = "idle"]
    /\ OpGoto(u, "none")
    /\ UNCHANGED <<userRoom, live, delLock, connected, registered, roomId, matchVars,
                   chain, opPeer, opRoom, cleanVars, boundVars>>

\* Mutant of PartnerIdle: the partner is told but its server-side socket is not reset.
PartnerUntouched(p) == UNCHANGED <<state, roomId>>

\* What handleLeave and cleanupUserOnDisconnect do to the partner's socket: whatever it
\* is doing now, it becomes idle.
PartnerIdle(p) ==
    IF registered[p] /\ connected[p]
    THEN /\ state' = [state EXCEPT ![p] = "idle"]
         /\ roomId' = [roomId EXCEPT ![p] = None]
    ELSE UNCHANGED <<state, roomId>>

\* deleteRoom: one DEL for the room, its chat and both members' bindings.
DestroyRoom(r) ==
    /\ userRoom' = [x \in Users |-> IF x \in live[r] THEN None ELSE userRoom[x]]
    /\ live' = [live EXCEPT ![r] = {}]

\* leave: without a room nothing is touched, not even the socket's own state.
BeginLeave(u) ==
    /\ StartsNext(u, "leave")
    /\ IF InRoom(u)
       THEN /\ OpGoto(u, "leaveLock")
            /\ opRoom' = [opRoom EXCEPT ![u] = userRoom[u]]
            /\ \E p \in live[userRoom[u]] \ {u} : opPeer' = [opPeer EXCEPT ![u] = p]
       ELSE UNCHANGED <<opc, opRoom, opPeer>>
    /\ UNCHANGED <<redisVars, socketVars, matchVars, opEntry, cleanVars, boundVars>>

\* The archive is written, then removeUserFromRoom: a room already gone or being
\* deleted is skipped.  The partner is reset all the same, from the old lookup.
LeaveLocks(u) ==
    /\ opc[u] = "leaveLock"
    /\ IF live[opRoom[u]] # {} /\ opRoom[u] \notin delLock
       THEN /\ delLock' = delLock \cup {opRoom[u]}
            /\ OpGoto(u, "leaveDelete")
            /\ UNCHANGED <<state, roomId>>
       ELSE /\ PartnerIdle(opPeer[u])
            /\ OpGoto(u, "leaveEnd")
            /\ UNCHANGED delLock
    /\ UNCHANGED <<queue, userRoom, live, connected, registered, matchVars, chain,
                   opPeer, opRoom, opEntry, cleanVars, boundVars>>

\* Under the lock the room is looked up again, and deleted if it is there.
LeaveDeletes(u) ==
    /\ opc[u] = "leaveDelete"
    /\ DestroyRoom(opRoom[u])
    /\ OpGoto(u, "leaveUnlock")
    /\ UNCHANGED <<queue, delLock, socketVars, matchVars, chain, opPeer, opRoom,
                   opEntry, cleanVars, boundVars>>

LeaveUnlocks(u) ==
    /\ opc[u] = "leaveUnlock"
    /\ delLock' = delLock \ {opRoom[u]}
    /\ PartnerIdle(opPeer[u])
    /\ OpGoto(u, "leaveEnd")
    /\ UNCHANGED <<queue, userRoom, live, connected, registered, matchVars, chain,
                   opPeer, opRoom, opEntry, cleanVars, boundVars>>

\* After the partner history is saved the leaver's own socket becomes idle.
LeaveEnds(u) ==
    /\ opc[u] = "leaveEnd"
    /\ state' = [state EXCEPT ![u] = "idle"]
    /\ roomId' = [roomId EXCEPT ![u] = None]
    /\ opPeer' = [opPeer EXCEPT ![u] = None]
    /\ opRoom' = [opRoom EXCEPT ![u] = None]
    /\ OpGoto(u, "none")
    /\ UNCHANGED <<redisVars, connected, registered, matchVars, chain, opEntry,
                   cleanVars, boundVars>>

-----------------------------------------------------------------------------
(* A socket goes away; cleanupUserOnDisconnect runs by uid, at once or when *)
(* the grace window of an active user ends.                                 *)

CleanGoto(u, pc) == cpc' = [cpc EXCEPT ![u] = pc]

\* The registry entry goes with the socket.  A socket that never joined has no gender
\* and gets no cleanup.  Handlers in flight, and queued in the chain, run on.
Disconnect(u) ==
    /\ connected[u]
    /\ requests < MaxRequests
    /\ requests' = requests + 1
    /\ connected' = [connected EXCEPT ![u] = FALSE]
    /\ registered' = [registered EXCEPT ![u] = FALSE]
    /\ CleanGoto(u, IF registered[u] THEN "read" ELSE "done")
    /\ UNCHANGED <<redisVars, state, roomId, matchVars, opVars, cPeer, cRoom, cEntry,
                   faults>>

\* removeFromQueue, first half.
CleanReadsQueue(u) ==
    /\ cpc[u] = "read"
    /\ IF EntriesOf(u) = {}
       THEN CleanGoto(u, "room") /\ UNCHANGED cEntry
       ELSE /\ \E e \in EntriesOf(u) : cEntry' = [cEntry EXCEPT ![u] = e[2]]
            /\ CleanGoto(u, "remove")
    /\ UNCHANGED <<redisVars, socketVars, matchVars, opVars, cPeer, cRoom, boundVars>>

\* removeFromQueue, second half.
CleanRemovesEntry(u) ==
    /\ cpc[u] = "remove"
    /\ queue' = queue \ {<<u, cEntry[u]>>}
    /\ cEntry' = [cEntry EXCEPT ![u] = None]
    /\ CleanGoto(u, "room")
    /\ UNCHANGED <<userRoom, live, delLock, socketVars, matchVars, opVars, cPeer, cRoom,
                   boundVars>>

\* getRoomByUserId: a claim without a room leaves nothing more to clean up.
CleanChecksRoom(u) ==
    /\ cpc[u] = "room"
    /\ IF InRoom(u)
       THEN /\ CleanGoto(u, "lock")
            /\ cRoom' = [cRoom EXCEPT ![u] = userRoom[u]]
            /\ \E p \in live[userRoom[u]] \ {u} : cPeer' = [cPeer EXCEPT ![u] = p]
       ELSE CleanGoto(u, "done") /\ UNCHANGED <<cRoom, cPeer>>
    /\ UNCHANGED <<redisVars, socketVars, matchVars, opVars, cEntry, boundVars>>

CleanEnds(u) ==
    /\ CleanGoto(u, "done")
    /\ cPeer' = [cPeer EXCEPT ![u] = None]
    /\ cRoom' = [cRoom EXCEPT ![u] = None]

\* removeUserFromRoom: null when the room is gone, and then the partner is left alone.
CleanLocks(u) ==
    /\ cpc[u] = "lock"
    /\ IF live[cRoom[u]] # {} /\ cRoom[u] \notin delLock
       THEN /\ delLock' = delLock \cup {cRoom[u]}
            /\ CleanGoto(u, "delete")
            /\ UNCHANGED <<state, roomId, cPeer, cRoom>>
       ELSE /\ IF live[cRoom[u]] # {} THEN PartnerIdle(cPeer[u])
                                      ELSE UNCHANGED <<state, roomId>>
            /\ CleanEnds(u)
            /\ UNCHANGED delLock
    /\ UNCHANGED <<queue, userRoom, live, connected, registered, matchVars, opVars,
                   cEntry, boundVars>>

CleanDeletes(u) ==
    /\ cpc[u] = "delete"
    /\ DestroyRoom(cRoom[u])
    /\ CleanGoto(u, "unlock")
    /\ UNCHANGED <<queue, delLock, socketVars, matchVars, opVars, cPeer, cRoom, cEntry,
                   boundVars>>

CleanUnlocks(u) ==
    /\ cpc[u] = "unlock"
    /\ delLock' = delLock \ {cRoom[u]}
    /\ PartnerIdle(cPeer[u])
    /\ CleanEnds(u)
    /\ UNCHANGED <<queue, userRoom, live, connected, registered, matchVars, opVars,
                   cEntry, boundVars>>

-----------------------------------------------------------------------------
\* EXPIRE on the queue key (600 s, renewed by every ZADD) drops every member at once;
\* the matcher's tick pairs two waiting users within seconds, so at most one waits.
QueueExpires ==
    /\ queue # {}
    /\ Cardinality({u \in Users : Searching(u)}) < 2
    /\ \A u \in Users : mpc[u] = "idle" /\ opc[u] = "none" /\ cpc[u] \in {"none", "done"}
    /\ queue' = {}
    /\ UNCHANGED <<userRoom, live, delLock, socketVars, matchVars, opVars, cleanVars,
                   boundVars>>

\* The process at work: every reply it awaits comes, every handler it started goes on.
Attempt(u) ==
    \/ FindNone(u) \/ FindMatch(u)
    \/ AbortReadsQueue(u) \/ AbortRemovesEntry(u)
    \/ CheckSelfRoom(u) \/ CheckPeerRoom(u) \/ CreateRoom(u)
    \/ ReadClaim(u) \/ DropClaim(u) \/ RequeueCheck(u) \/ RequeueAdd(u)

SocketOp(u) ==
    \/ BeginJoin(u) \/ JoinChecksRoom(u) \/ JoinChecksQueue(u) \/ JoinAdds(u)
    \/ JoinTries(u)
    \/ BeginCancel(u) \/ CancelReadsQueue(u) \/ CancelRemovesEntry(u)
    \/ BeginLeave(u) \/ LeaveLocks(u) \/ LeaveDeletes(u) \/ LeaveUnlocks(u)
    \/ LeaveEnds(u)

Cleanup(u) ==
    \/ CleanReadsQueue(u) \/ CleanRemovesEntry(u) \/ CleanChecksRoom(u)
    \/ CleanLocks(u) \/ CleanDeletes(u) \/ CleanUnlocks(u)

Fault(u) == CreateRoomFails(u) \/ RequeueFails(u) \/ FindReplyLost(u) \/ JoinAddFails(u)

Next ==
    \/ Tick
    \/ QueueExpires
    \/ \E u \in Users :
        \/ Receive(u) \/ Disconnect(u)
        \/ Attempt(u) \/ SocketOp(u) \/ Cleanup(u)
        \/ ClaimExpires(u)
        \/ Fault(u)

Spec == Init /\ [][Next]_vars

\* The interval timer fires again and again, Redis answers, a chain runs what it holds
\* and a TTL ends.  Clients, failures and the queue's TTL owe nothing.
Fairness ==
    /\ WF_vars(Tick)
    /\ \A u \in Users : /\ WF_vars(Attempt(u)) /\ WF_vars(SocketOp(u))
                        /\ WF_vars(Cleanup(u)) /\ WF_vars(ClaimExpires(u))

FairSpec == Spec /\ Fairness

-----------------------------------------------------------------------------
(* Properties.                                                              *)

\* An attempt that may still turn its claim into a room.
Committed(u) == mpc[u] \in {"roomSelf", "roomPeer", "mint"}

\* A user is in one pairing at a time: the pairs being turned into rooms and the rooms
\* that exist are all disjoint, whatever scripts, leaves and cleanups ran in between.
PairExclusive ==
    /\ \A u, v \in Users : Committed(u) /\ Committed(v) /\ u # v
                             => {u, peer[u]} \cap {v, peer[v]} = {}
    /\ \A u \in Users, r \in Rooms : Committed(u) => {u, peer[u]} \cap live[r] = {}
    /\ \A r, q \in Rooms : r # q => live[r] \cap live[q] = {}

\* While a room exists, 'user:room' of both members points at it: no claim release,
\* and no deletion of an older room by a slow handler, takes the binding away.
LiveRoomMapped == \A r \in Rooms : \A u \in live[r] : userRoom[u] = r

\* A claim never outlives its attempt: every attempt ends in a room or releases it, so
\* nobody is kept out of matching by a claim that nothing will resolve.
ClaimsSettle ==
    \A u \in Users : userRoom[u] # None => InFlight(userRoom[u]) \/ InRoom(u)

\* A user locked in matchingInProgress is part of an attempt that is still running: a
\* leaked lock would keep the tick and the user's own joins from ever matching again.
LocksSettle == \A u \in matching : \/ mpc[u] # "idle"
                                   \/ \E v \in Users : peer[v] = u

\* An attempt takes its claims and its locks with it, whichever way it ends.
AttemptsSettle == ClaimsSettle /\ LocksSettle

\* Nothing is in progress on behalf of u.
Quiet(u) == /\ opc[u] = "none" /\ mpc[u] = "idle" /\ u \notin matching
            /\ \A v \in Users : peer[v] # u

\* Of two users who are waiting, and for whom nothing is in progress, one is in the
\* queue where the other finds it; otherwise both search forever.
SearchersReachable ==
    \A u, v \in Users : u # v /\ Searching(u) /\ Searching(v) /\ Quiet(u) /\ Quiet(v)
                          => EntriesOf(u) \cup EntriesOf(v) # {}

\* A handler that has taken the room away from u and has yet to tell u's socket.
ToldBy(p, u) ==
    \/ opc[p] \in {"leaveLock", "leaveDelete", "leaveUnlock"} /\ opPeer[p] = u
    \/ cpc[p] \in {"lock", "delete", "unlock"} /\ cPeer[p] = u

\* A connected socket in state 'active' has a live room, or is leaving, or some handler
\* is about to make it idle: nobody is left talking to a room that is gone.
ActiveHasRoom ==
    \A u \in Users : connected[u] /\ state[u] = "active"
        => \/ roomId[u] # None /\ u \in live[roomId[u]]
           \/ opc[u] \in {"leaveUnlock", "leaveEnd"}
           \/ \E p \in Users : ToldBy(p, u)

\* Every member of a room is there, or on the way out: a dropped user who does not come
\* back gets the room torn down and the partner told (sessionResume.ts).
RoomHasPeople == \A r \in Rooms : \A u \in live[r] : connected[u] \/ cpc[u] # "done"

\* A member of a room for whom nothing is in progress has a socket in state 'active': a
\* second join, or an old leave or cancel, does not take a matched user out of the chat.
MemberIsActive ==
    \A r \in Rooms : \A u \in live[r] :
        connected[u] /\ Quiet(u) => state[u] = "active" /\ roomId[u] = r

\* A successful match takes both users off the queue (match.lua removes both members).
MatchedNotQueued ==
    \A r \in Rooms : \A u \in live[r] : Quiet(u) => EntriesOf(u) = {}

\* A binding to a room that exists changes only when the room goes too ("never delete a
\* real room binding").
BindingEndsWithRoom ==
    [][\A u \in Users : InRoom(u) /\ userRoom'[u] # userRoom[u]
                          => live'[userRoom[u]] = {}]_vars

\* Matchmaking implements Pairing, with the Redis keys as they are.
Pairing == INSTANCE Pairing WITH bound <- userRoom, open <- live

\* Every step of the handlers is a claim, a release, an opening or a closing of Pairing,
\* or changes neither key: no interleaving opens a room for a pair that was torn apart.
ImplementsPairing == Pairing!Spec

\* Two users who both keep waiting are paired: they do not both search forever, unless a
\* call to Redis has failed (a failed createRoom strands both, a failed addToQueue leaks the
\* partner's lock).
EventuallyPaired ==
    \A u, v \in Users : u # v => []<>(~(Searching(u) /\ Searching(v)) \/ faults > 0)

-----------------------------------------------------------------------------
(* The inductive invariant behind PairExclusive, LiveRoomMapped and         *)
(* ImplementsPairing, when a claim cannot lapse under its attempt.          *)

\* An attempt that has not yet deleted its claim.
Holding(u) == mpc[u] \notin {"idle", "find", "requeue"}

\* An attempt past its script knows its partner and its room id.
AttemptKnown ==
    \A u \in Users : mpc[u] \notin {"idle", "find"} => peer[u] \in Users /\ claim[u] \in Rooms

\* A leave or a cleanup that goes for a room knows which.
LeaveKnown ==
    \A u \in Users : opc[u] \in {"leaveLock", "leaveDelete", "leaveUnlock"} => opRoom[u] \in Rooms

CleanupKnown ==
    \A u \in Users : cpc[u] \in {"lock", "delete", "unlock"} => cRoom[u] \in Rooms

\* A claim binds exactly the two users of its attempt, no room of its id exists, and no
\* two attempts share an id.
ClaimsHeld ==
    \A u \in Users : Holding(u) =>
        /\ peer[u] # u
        /\ live[claim[u]] = {}
        /\ \A x \in Users : userRoom[x] = claim[u] <=> x \in {u, peer[u]}
        /\ \A v \in Users : Holding(v) /\ v # u => claim[v] # claim[u]

PairingInv ==
    /\ TypeOK /\ AttemptKnown /\ LeaveKnown /\ CleanupKnown
    /\ ClaimsHeld /\ LiveRoomMapped
=============================================================================
