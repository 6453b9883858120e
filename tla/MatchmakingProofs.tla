------------------------- MODULE MatchmakingProofs -------------------------
(* Proofs about Matchmaking: its types, the inductive invariant behind its  *)
(* exclusiveness properties, that it implements Pairing, that an attempt    *)
(* leaves nothing behind, that an active user has a room, and that at most  *)
(* one searching user is out of reach of the matching.                      *)
EXTENDS Matchmaking, TLAPS, FiniteSetTheorems

-----------------------------------------------------------------------------
(* Types.  TypeOK is split by the groups of variables that actions leave    *)
(* alone together; AttemptKnown, LeaveKnown and CleanupKnown go with the     *)
(* variables they speak of.                                                 *)

RedisTypes ==
    /\ queue \subseteq Users \X Stamps
    /\ userRoom \in [Users -> Rooms \cup {None}]
    /\ live \in [Rooms -> SUBSET Users]
    /\ delLock \subseteq Rooms

SocketTypes ==
    /\ connected \in [Users -> BOOLEAN]
    /\ registered \in [Users -> BOOLEAN]
    /\ state \in [Users -> {"idle", "queue", "active"}]
    /\ roomId \in [Users -> Rooms \cup {None}]

MatchTypes ==
    /\ matching \subseteq Users
    /\ mpc \in [Users -> AttemptPc]
    /\ peer \in [Users -> Users \cup {None}]
    /\ claim \in [Users -> Rooms \cup {None}]
    /\ selfTodo \in [Users -> Todo]
    /\ peerTodo \in [Users -> Todo]
    /\ AttemptKnown

EntryTypes == mEntry \in [Users -> Stamps \cup {None}]

OpTypes ==
    /\ chain \in [Users -> Seq(Request)]
    /\ opc \in [Users -> OpPc]
    /\ opPeer \in [Users -> Users \cup {None}]
    /\ opRoom \in [Users -> Rooms \cup {None}]
    /\ opEntry \in [Users -> Stamps \cup {None}]
    /\ LeaveKnown

CleanTypes ==
    /\ cpc \in [Users -> CleanPc]
    /\ cPeer \in [Users -> Users \cup {None}]
    /\ cRoom \in [Users -> Rooms \cup {None}]
    /\ cEntry \in [Users -> Stamps \cup {None}]
    /\ CleanupKnown

BoundTypes == requests \in Nat /\ faults \in Nat

Typed == /\ RedisTypes /\ SocketTypes /\ MatchTypes /\ EntryTypes /\ OpTypes
         /\ CleanTypes /\ BoundTypes

\* Typed is TypeOK and what the handlers know of their partners and rooms.
LEMMA TypedIs == Typed <=> TypeOK /\ AttemptKnown /\ LeaveKnown /\ CleanupKnown
  BY DEF Typed, RedisTypes, SocketTypes, MatchTypes, EntryTypes, OpTypes, CleanTypes,
         BoundTypes, TypeOK

LEMMA InitTyped == Init => Typed
  BY ConstantsAssumption
  DEF Init, Typed, RedisTypes, SocketTypes, MatchTypes, EntryTypes, OpTypes, CleanTypes,
      BoundTypes, AttemptKnown, LeaveKnown, CleanupKnown, AttemptPc, OpPc, CleanPc, Todo, Request

\* Groups of variables that a step leaves alone keep their types.
LEMMA Unchanged ==
  /\ RedisTypes /\ UNCHANGED redisVars => RedisTypes'
  /\ SocketTypes /\ UNCHANGED socketVars => SocketTypes'
  /\ MatchTypes /\ EntryTypes /\ UNCHANGED matchVars => MatchTypes' /\ EntryTypes'
  /\ EntryTypes /\ UNCHANGED mEntry => EntryTypes'
  /\ OpTypes /\ UNCHANGED opVars => OpTypes'
  /\ CleanTypes /\ UNCHANGED cleanVars => CleanTypes'
  /\ BoundTypes /\ UNCHANGED boundVars => BoundTypes'
  BY DEF RedisTypes, SocketTypes, MatchTypes, EntryTypes, OpTypes, CleanTypes, BoundTypes,
         redisVars, socketVars, matchVars, opVars, cleanVars, boundVars, AttemptKnown,
         LeaveKnown, CleanupKnown

\* A step inside an attempt.
LEMMA MatchStepTyped ==
  ASSUME MatchTypes, OpTypes, NEW u \in Users, mpc[u] \notin {"idle", "find"},
         NEW pc \in AttemptPc, NEW self \in Todo, NEW other \in Todo,
         MatchStep(u, pc, self, other)
  PROVE  MatchTypes' /\ OpTypes'
  BY Unchanged DEF MatchStep, MatchGoto, MatchTypes, OpTypes, opVars, AttemptKnown,
                   LeaveKnown

\* The end of an attempt.
LEMMA AttemptEndsTyped ==
  ASSUME MatchTypes, OpTypes, NEW u \in Users, NEW S, AttemptEnds(u, S)
  PROVE  MatchTypes' /\ OpTypes'
  <1>1. MatchTypes'
    BY DEF AttemptEnds, MatchGoto, MatchTypes, AttemptKnown, AttemptPc, Todo
  <1>2. OpTypes'
    BY DEF AttemptEnds, OpTypes, OpPc, LeaveKnown
  <1>3. QED
    BY <1>1, <1>2

LEMMA RequeuedTyped ==
  ASSUME MatchTypes, OpTypes, NEW u \in Users, mpc[u] \notin {"idle", "find"},
         NEW self \in Todo, NEW other \in Todo, Requeued(u, self, other)
  PROVE  MatchTypes' /\ OpTypes'
  <1>1. mpc[u] \in AttemptPc /\ "readClaim" \in AttemptPc /\ "no" \in Todo
    BY DEF MatchTypes, AttemptPc, Todo
  <1>2. CASE self # "no" \/ other # "no"
    BY <1>1, <1>2, MatchStepTyped DEF Requeued
  <1>3. CASE ~(self # "no" \/ other # "no") /\ mpc[u] = "readd"
    BY <1>1, <1>3, MatchStepTyped DEF Requeued
  <1>4. CASE ~(self # "no" \/ other # "no") /\ mpc[u] # "readd"
    BY <1>4, AttemptEndsTyped DEF Requeued
  <1>5. QED
    BY <1>2, <1>3, <1>4

LEMMA AfterRemovalTyped ==
  ASSUME MatchTypes, OpTypes, NEW u \in Users, AfterRemoval(u),
         mpc[u] \in {"removeSelf", "dropSelf", "removeBusy", "dropBusy", "removePeer",
                     "dropPeer"}
  PROVE  MatchTypes' /\ OpTypes'
  <1>1. "readd" \in AttemptPc /\ "readClaim" \in AttemptPc /\ "no" \in Todo
        /\ "check" \in Todo
    BY DEF AttemptPc, Todo
  <1>2. \/ MatchStep(u, "readd", "no", "check") \/ MatchStep(u, "readClaim", "no", "no")
        \/ MatchStep(u, "readd", "check", "no")
    BY DEF AfterRemoval
  <1>3. QED
    BY <1>1, <1>2, MatchStepTyped

\* Claims by the script keep the types of queue and bindings.
LEMMA ClaimPairTyped ==
  ASSUME RedisTypes, UNCHANGED <<live, delLock>>, NEW u \in Users,
         NEW e \in Candidates(u), NEW r \in Rooms, ClaimPair(u, e, r)
  PROVE  RedisTypes' /\ e[1] \in Users
  <1>1. e \in Users \X Stamps /\ e[1] \in Users
    BY DEF RedisTypes, Candidates
  <1>2. queue' \subseteq queue
    BY DEF ClaimPair
  <1>3. userRoom' \in [Users -> Rooms \cup {None}]
    BY <1>1 DEF ClaimPair, RedisTypes
  <1>4. QED
    BY <1>1, <1>2, <1>3 DEF RedisTypes

LEMMA AttemptTyped ==
  ASSUME Typed, NEW u \in Users, Attempt(u)
  PROVE  Typed'
  <1> USE Unchanged DEF Typed
  <1>1. CASE FindNone(u)
    BY <1>1, AttemptEndsTyped
    DEF FindNone, boundVars, redisVars, socketVars, cleanVars
  <1>2. CASE FindMatch(u)
    <2>1. PICK e \in Candidates(u), r \in {x \in Rooms : Fresh(x)} :
            /\ ClaimPair(u, e, r)
            /\ matching' = matching \cup {e[1]}
            /\ peer' = [peer EXCEPT ![u] = e[1]]
            /\ claim' = [claim EXCEPT ![u] = r]
            /\ MatchGoto(u, IF ~Searching(u) THEN "removeSelf"
                            ELSE IF ~Searching(e[1]) THEN "removePeer"
                            ELSE "roomSelf")
      BY <1>2 DEF FindMatch
    <2>2. RedisTypes' /\ e[1] \in Users
      BY <1>2, <2>1, ClaimPairTyped DEF FindMatch
    <2>3. MatchTypes'
      BY <1>2, <2>1, <2>2 DEF FindMatch, MatchTypes, AttemptKnown, MatchGoto, AttemptPc
    <2>4. QED
      BY <1>2, <2>2, <2>3 DEF FindMatch
  <1>3. CASE AbortReadsQueue(u)
    <2>1. EntryTypes'
      BY <1>3 DEF AbortReadsQueue, EntryTypes, RedisTypes, EntriesOf
    <2>2. MatchTypes' /\ OpTypes'
      <3>1. {"dropSelf", "dropBusy", "dropPeer"} \subseteq AttemptPc /\ "no" \in Todo
        BY DEF AttemptPc, Todo
      <3>2. \/ AfterRemoval(u) \/ MatchStep(u, "dropSelf", "no", "no")
            \/ MatchStep(u, "dropBusy", "no", "no") \/ MatchStep(u, "dropPeer", "no", "no")
        BY <1>3 DEF AbortReadsQueue
      <3>3. QED
        BY <1>3, <3>1, <3>2, AfterRemovalTyped, MatchStepTyped DEF AbortReadsQueue
    <2>3. QED
      BY <1>3, <2>1, <2>2 DEF AbortReadsQueue
  <1>4. CASE AbortRemovesEntry(u)
    <2>1. RedisTypes' /\ EntryTypes'
      BY <1>4 DEF AbortRemovesEntry, RedisTypes, EntryTypes
    <2>2. MatchTypes' /\ OpTypes'
      BY <1>4, AfterRemovalTyped DEF AbortRemovesEntry
    <2>3. QED
      BY <1>4, <2>1, <2>2 DEF AbortRemovesEntry
  <1>5. CASE CheckSelfRoom(u) \/ CheckPeerRoom(u)
    <2>1. {"removeBusy", "roomPeer", "removePeer", "mint"} \subseteq AttemptPc
          /\ "no" \in Todo
      BY DEF AttemptPc, Todo
    <2>2. MatchTypes' /\ OpTypes'
      BY <1>5, <2>1, MatchStepTyped DEF CheckSelfRoom, CheckPeerRoom
    <2>3. QED
      BY <1>5, <2>2 DEF CheckSelfRoom, CheckPeerRoom
  <1>6. CASE CreateRoom(u)
    <2>1. peer[u] \in Users /\ claim[u] \in Rooms
      BY <1>6 DEF CreateRoom, MatchTypes, AttemptKnown
    <2>2. MatchTypes' /\ OpTypes'
      BY <1>6, AttemptEndsTyped DEF CreateRoom
    <2>3. RedisTypes'
      BY <1>6, <2>1 DEF CreateRoom, RedisTypes
    <2>4. SocketTypes'
      BY <1>6, <2>1 DEF CreateRoom, SocketTypes
    <2>5. QED
      BY <1>6, <2>2, <2>3, <2>4 DEF CreateRoom
  <1>7. CASE ReadClaim(u)
    <2>1. "dropClaim" \in AttemptPc /\ "drop" \in Todo /\ "no" \in Todo
      BY DEF AttemptPc, Todo
    <2>2. MatchTypes' /\ OpTypes'
      BY <1>7, <2>1, MatchStepTyped DEF ReadClaim
    <2>3. QED
      BY <1>7, <2>2 DEF ReadClaim
  <1>8. CASE DropClaim(u)
    <2>1. "requeue" \in AttemptPc /\ "check" \in Todo /\ "no" \in Todo
      BY DEF AttemptPc, Todo
    <2>2. MatchTypes' /\ OpTypes'
      BY <1>8, <2>1, MatchStepTyped, AttemptEndsTyped DEF DropClaim
    <2>3. RedisTypes'
      BY <1>8 DEF DropClaim, RedisTypes
    <2>4. QED
      BY <1>8, <2>2, <2>3 DEF DropClaim
  <1>9. CASE RequeueCheck(u)
    <2>1. "add" \in Todo /\ "no" \in Todo /\ selfTodo[u] \in Todo /\ peerTodo[u] \in Todo
      BY DEF Todo, MatchTypes
    <2>2. MatchTypes' /\ OpTypes'
      BY <1>9, <2>1, RequeuedTyped DEF RequeueCheck
    <2>3. QED
      BY <1>9, <2>2 DEF RequeueCheck
  <1>10. CASE RequeueAdd(u)
    <2>1. "no" \in Todo /\ selfTodo[u] \in Todo /\ peerTodo[u] \in Todo
      BY DEF Todo, MatchTypes
    <2>2. MatchTypes' /\ OpTypes'
      BY <1>10, <2>1, RequeuedTyped DEF RequeueAdd
    <2>3. RedisTypes'
      BY <1>10 DEF RequeueAdd, RedisTypes, MatchTypes, AttemptKnown
    <2>4. QED
      BY <1>10, <2>2, <2>3 DEF RequeueAdd
  <1>11. QED
    BY <1>1, <1>2, <1>3, <1>4, <1>5, <1>6, <1>7, <1>8, <1>9, <1>10 DEF Attempt
\* The synchronous start of tryFindMatch from a join.
LEMMA TryFindMatchTyped ==
  ASSUME MatchTypes, EntryTypes, OpTypes, NEW u \in Users, ScriptAnswered(u),
         TryFindMatch(u),
         UNCHANGED <<peer, claim, selfTodo, peerTodo, chain, opPeer, opRoom, opEntry>>
  PROVE  MatchTypes' /\ OpTypes'
  <1>1. OpTypes'
    BY DEF TryFindMatch, OpGoto, OpTypes, OpPc, LeaveKnown
  <1>2. MatchTypes'
    BY DEF TryFindMatch, ScriptAnswered, MatchGoto, MatchTypes, AttemptKnown, AttemptPc
  <1>3. QED
    BY <1>1, <1>2

LEMMA SocketOpTyped ==
  ASSUME Typed, NEW u \in Users, SocketOp(u)
  PROVE  Typed'
  <1> USE Unchanged DEF Typed, redisVars, socketVars
  <1>1. CASE BeginJoin(u)
    BY <1>1 DEF BeginJoin, StartsNext, OpGoto, SocketTypes, OpTypes, OpPc, LeaveKnown
  <1>2. CASE JoinChecksRoom(u)
    <2>1. SocketTypes'
      BY <1>2 DEF JoinChecksRoom, SocketTypes
    <2>2. OpTypes'
      BY <1>2 DEF JoinChecksRoom, OpGoto, OpTypes, OpPc, LeaveKnown
    <2>3. QED
      BY <1>2, <2>1, <2>2 DEF JoinChecksRoom
  <1>3. CASE JoinChecksQueue(u)
    <2>1. CASE EntriesOf(u) # {}
      BY <1>3, <2>1, TryFindMatchTyped DEF JoinChecksQueue
    <2>2. CASE EntriesOf(u) = {}
      BY <1>3, <2>2 DEF JoinChecksQueue, OpGoto, OpTypes, OpPc, LeaveKnown, MatchTypes, AttemptKnown
    <2>3. QED
      BY <2>1, <2>2
  <1>4. CASE JoinAdds(u)
    BY <1>4 DEF JoinAdds, RedisTypes, OpGoto, OpTypes, OpPc, LeaveKnown, matchVars, MatchTypes,
                AttemptKnown
  <1>5. CASE JoinTries(u)
    BY <1>5, TryFindMatchTyped DEF JoinTries
  <1>6. CASE BeginCancel(u)
    BY <1>6 DEF BeginCancel, StartsNext, OpGoto, OpTypes, OpPc, LeaveKnown
  <1>7. CASE CancelReadsQueue(u)
    <2>1. SocketTypes'
      BY <1>7 DEF CancelReadsQueue, SocketTypes
    <2>2. OpTypes'
      BY <1>7 DEF CancelReadsQueue, OpGoto, OpTypes, OpPc, LeaveKnown, EntriesOf, RedisTypes
    <2>3. QED
      BY <1>7, <2>1, <2>2 DEF CancelReadsQueue
  <1>8. CASE CancelRemovesEntry(u)
    BY <1>8 DEF CancelRemovesEntry, RedisTypes, SocketTypes, OpGoto, OpTypes, OpPc, LeaveKnown
  <1>9. CASE BeginLeave(u)
    <2>1. OpTypes'
      <3>1. CASE InRoom(u)
        <4>1. userRoom[u] \in Rooms /\ live[userRoom[u]] \subseteq Users
          BY <3>1 DEF InRoom, RedisTypes
        <4>2. PICK p \in Users : opPeer' = [opPeer EXCEPT ![u] = p]
          BY <1>9, <3>1, <4>1 DEF BeginLeave
        <4>3. opRoom' = [opRoom EXCEPT ![u] = userRoom[u]] /\ opEntry' = opEntry
          BY <1>9, <3>1 DEF BeginLeave
        <4>4. chain' \in [Users -> Seq(Request)]
          BY <1>9 DEF BeginLeave, StartsNext, OpTypes
        <4>5. opc' = [opc EXCEPT ![u] = "leaveLock"]
          BY <1>9, <3>1 DEF BeginLeave, OpGoto
        <4>6. QED
          BY <4>1, <4>2, <4>3, <4>4, <4>5 DEF OpTypes, OpPc, LeaveKnown
      <3>2. CASE ~InRoom(u)
        BY <1>9, <3>2 DEF BeginLeave, StartsNext, OpTypes, LeaveKnown
      <3>3. QED
        BY <3>1, <3>2
    <2>2. QED
      BY <1>9, <2>1 DEF BeginLeave
  <1>10. CASE LeaveLocks(u) \/ LeaveUnlocks(u)
    <2>1. SocketTypes' /\ UNCHANGED <<connected, registered>>
      BY <1>10 DEF LeaveLocks, LeaveUnlocks, PartnerIdle, SocketTypes
    <2>2. OpTypes'
      BY <1>10 DEF LeaveLocks, LeaveUnlocks, OpGoto, OpTypes, OpPc, LeaveKnown
    <2>3. RedisTypes'
      <3>1. CASE LeaveLocks(u) /\ delLock' # delLock
        <4>1. live[opRoom[u]] # {} /\ delLock' = delLock \cup {opRoom[u]}
          BY <3>1 DEF LeaveLocks
        <4>2. opRoom[u] \in Rooms
          BY <3>1 DEF LeaveLocks, OpTypes, LeaveKnown
        <4>3. QED
          BY <3>1, <4>1, <4>2 DEF LeaveLocks, RedisTypes
      <3>2. CASE delLock' \subseteq delLock
        BY <1>10, <3>2 DEF LeaveLocks, LeaveUnlocks, RedisTypes
      <3>3. QED
        BY <1>10, <3>1, <3>2 DEF LeaveLocks, LeaveUnlocks
    <2>4. QED
      BY <1>10, <2>1, <2>2, <2>3 DEF LeaveLocks, LeaveUnlocks
  <1>11. CASE LeaveDeletes(u)
    BY <1>11 DEF LeaveDeletes, DestroyRoom, RedisTypes, OpGoto, OpTypes, OpPc, LeaveKnown
  <1>12. CASE LeaveEnds(u)
    BY <1>12 DEF LeaveEnds, SocketTypes, OpGoto, OpTypes, OpPc, LeaveKnown
  <1>13. QED
    BY <1>1, <1>2, <1>3, <1>4, <1>5, <1>6, <1>7, <1>8, <1>9, <1>10, <1>11, <1>12
    DEF SocketOp

LEMMA CleanupTyped ==
  ASSUME Typed, NEW u \in Users, Cleanup(u)
  PROVE  Typed'
  <1> USE Unchanged DEF Typed, redisVars, socketVars
  <1>1. CASE CleanReadsQueue(u)
    BY <1>1 DEF CleanReadsQueue, CleanGoto, CleanTypes, CleanPc, CleanupKnown, EntriesOf,
                RedisTypes
  <1>2. CASE CleanRemovesEntry(u)
    BY <1>2 DEF CleanRemovesEntry, CleanGoto, CleanTypes, CleanPc, CleanupKnown, RedisTypes
  <1>3. CASE CleanChecksRoom(u)
    <2>1. CleanTypes'
      <3>1. CASE InRoom(u)
        <4>1. userRoom[u] \in Rooms /\ live[userRoom[u]] \subseteq Users
          BY <3>1 DEF InRoom, RedisTypes
        <4>2. QED
          BY <1>3, <3>1, <4>1
          DEF CleanChecksRoom, CleanGoto, CleanTypes, CleanPc, CleanupKnown
      <3>2. CASE ~InRoom(u)
        BY <1>3, <3>2 DEF CleanChecksRoom, CleanGoto, CleanTypes, CleanPc, CleanupKnown
      <3>3. QED
        BY <3>1, <3>2
    <2>2. QED
      BY <1>3, <2>1 DEF CleanChecksRoom
  <1>4. CASE CleanLocks(u) \/ CleanUnlocks(u)
    <2>1. SocketTypes'
      BY <1>4 DEF CleanLocks, CleanUnlocks, PartnerIdle, SocketTypes
    <2>2. CleanTypes'
      BY <1>4 DEF CleanLocks, CleanUnlocks, CleanEnds, CleanGoto, CleanTypes, CleanPc,
                  CleanupKnown
    <2>3. RedisTypes'
      BY <1>4 DEF CleanLocks, CleanUnlocks, CleanTypes, CleanupKnown, RedisTypes
    <2>4. QED
      BY <1>4, <2>1, <2>2, <2>3 DEF CleanLocks, CleanUnlocks
  <1>5. CASE CleanDeletes(u)
    BY <1>5 DEF CleanDeletes, DestroyRoom, RedisTypes, CleanGoto, CleanTypes, CleanPc,
                CleanupKnown
  <1>6. QED
    BY <1>1, <1>2, <1>3, <1>4, <1>5 DEF Cleanup

LEMMA FaultTyped ==
  ASSUME Typed, NEW u \in Users, Fault(u)
  PROVE  Typed'
  <1> USE Unchanged DEF Typed, redisVars, socketVars
  <1>1. ASSUME NEW call, Fails(call), UNCHANGED requests
        PROVE  BoundTypes'
    BY <1>1 DEF Fails, BoundTypes
  <1>2. CASE CreateRoomFails(u)
    <2>1. MatchTypes' /\ OpTypes'
      BY <1>2, AttemptEndsTyped DEF CreateRoomFails
    <2>2. RedisTypes'
      BY <1>2 DEF CreateRoomFails, RedisTypes, MatchTypes, AttemptKnown
    <2>3. QED
      BY <1>1, <1>2, <2>1, <2>2 DEF CreateRoomFails
  <1>3. CASE RequeueFails(u)
    <2>1. "no" \in Todo /\ selfTodo[u] \in Todo /\ peerTodo[u] \in Todo
      BY DEF Todo, MatchTypes
    <2>2. MatchTypes' /\ OpTypes'
      BY <1>3, <2>1, RequeuedTyped, AttemptEndsTyped DEF RequeueFails
    <2>3. QED
      BY <1>1, <1>3, <2>2 DEF RequeueFails
  <1>4. CASE FindReplyLost(u)
    <2>1. MatchTypes' /\ OpTypes'
      BY <1>4, AttemptEndsTyped DEF FindReplyLost
    <2>2. RedisTypes'
      BY <1>4, ClaimPairTyped DEF FindReplyLost
    <2>3. QED
      BY <1>1, <1>4, <2>1, <2>2 DEF FindReplyLost
  <1>5. CASE JoinAddFails(u)
    BY <1>1, <1>5 DEF JoinAddFails, OpGoto, OpTypes, OpPc, LeaveKnown
  <1>6. QED
    BY <1>2, <1>3, <1>4, <1>5 DEF Fault

\* Every step keeps the types.
LEMMA NextTyped == Typed /\ [Next]_vars => Typed'
  <1> SUFFICES ASSUME Typed, [Next]_vars PROVE Typed'
    OBVIOUS
  <1> USE Unchanged DEF Typed, redisVars, socketVars
  <1>1. CASE Tick
    BY <1>1 DEF Tick, Eligible, MatchTypes, AttemptPc, AttemptKnown
  <1>2. CASE QueueExpires
    BY <1>2 DEF QueueExpires, RedisTypes
  <1>3. ASSUME NEW u \in Users, Receive(u)
        PROVE  Typed'
    BY <1>3 DEF Receive, OpTypes, Request, LeaveKnown, BoundTypes
  <1>4. ASSUME NEW u \in Users, Disconnect(u)
        PROVE  Typed'
    BY <1>4 DEF Disconnect, SocketTypes, CleanGoto, CleanTypes, CleanPc, CleanupKnown,
                BoundTypes
  <1>5. ASSUME NEW u \in Users, ClaimExpires(u)
        PROVE  Typed'
    BY <1>5 DEF ClaimExpires, RedisTypes
  <1>6. CASE UNCHANGED vars
    BY <1>6 DEF vars
  <1>7. QED
    BY <1>1, <1>2, <1>3, <1>4, <1>5, <1>6, AttemptTyped, SocketOpTyped, CleanupTyped,
       FaultTyped DEF Next

\* Type correctness: queue members, claims, room members and what the handlers keep in
\* their local variables are what they are taken for, in every interleaving.
THEOREM TypeCorrect == Spec => []TypeOK
  <1>1. Typed => TypeOK
    BY TypedIs
  <1>2. QED
    BY <1>1, InitTyped, NextTyped, PTL DEF Spec

-----------------------------------------------------------------------------
(* The inductive invariant.  Every step of Matchmaking is one of five kinds *)
(* of step on the keys that Pairing shows, and each kind keeps the          *)
(* invariant and is a step of Pairing or a stutter.                         *)

\* An attempt that still holds its claim after the step held the same one before.
Kept(v) == Holding(v)' => Holding(v) /\ peer'[v] = peer[v] /\ claim'[v] = claim[v]

QuietStep == UNCHANGED <<userRoom, live>> /\ \A v \in Users : Kept(v)

ClaimStep ==
    \E u, p \in Users, r \in Rooms :
        /\ Pairing!Claim(u, p, r)
        /\ \A v \in Users : Holding(v) => claim[v] # r
        /\ \A v \in Users : \/ Kept(v)
                            \/ v = u /\ peer'[v] = p /\ claim'[v] = r

ReleaseStep ==
    \E S \in SUBSET Users :
        /\ Pairing!Release(S)
        /\ \A v \in Users : Kept(v) /\ (Holding(v)' => v \notin S /\ peer[v] \notin S)

OpenStep ==
    \E u \in Users :
        /\ Holding(u) /\ ~Holding(u)'
        /\ live' = [live EXCEPT ![claim[u]] = {u, peer[u]}]
        /\ UNCHANGED userRoom
        /\ \A v \in Users : Kept(v)

CloseStep == (\E r \in Rooms : Pairing!Close(r)) /\ \A v \in Users : Kept(v)

Exclusive == ClaimsHeld /\ LiveRoomMapped

LEMMA InitExclusive == Init => Exclusive
  BY DEF Init, Exclusive, ClaimsHeld, Holding, LiveRoomMapped

LEMMA QuietKeeps ==
  ASSUME Typed, Exclusive, QuietStep
  PROVE  Exclusive'
  BY DEF QuietStep, Kept, Exclusive, ClaimsHeld, LiveRoomMapped, Holding

LEMMA ReleaseKeeps ==
  ASSUME Typed, Exclusive, ReleaseStep
  PROVE  Exclusive'
  <1>1. PICK S \in SUBSET Users :
          /\ Pairing!Release(S)
          /\ \A v \in Users : Kept(v) /\ (Holding(v)' => v \notin S /\ peer[v] \notin S)
    BY DEF ReleaseStep
  <1>2. /\ live' = live
        /\ \A x \in Users : userRoom'[x] = IF x \in S THEN None ELSE userRoom[x]
        /\ \A x \in S : live[userRoom[x]] = {}
    BY <1>1 DEF Pairing!Release
  <1>3. ClaimsHeld'
    <2> SUFFICES ASSUME NEW v \in Users, Holding(v)'
                 PROVE  /\ peer'[v] # v
                        /\ live'[claim'[v]] = {}
                        /\ \A x \in Users : userRoom'[x] = claim'[v] <=> x \in {v, peer'[v]}
                        /\ \A w \in Users : Holding(w)' /\ w # v => claim'[w] # claim'[v]
      BY DEF ClaimsHeld, Holding
    <2>1. /\ Holding(v) /\ peer'[v] = peer[v] /\ claim'[v] = claim[v]
          /\ v \notin S /\ peer[v] \notin S
      BY <1>1 DEF Kept
    <2>2. claim[v] # None
      BY <2>1, ConstantsAssumption
      DEF Typed, MatchTypes, AttemptKnown, Holding
    <2>3. \A x \in Users : userRoom'[x] = claim[v] <=> x \in {v, peer[v]}
      BY <1>2, <2>1, <2>2 DEF Exclusive, ClaimsHeld
    <2>4. \A w \in Users : Holding(w)' /\ w # v => claim'[w] # claim'[v]
      BY <1>1, <2>1 DEF Exclusive, ClaimsHeld, Kept
    <2>5. QED
      BY <1>2, <2>1, <2>3, <2>4 DEF Exclusive, ClaimsHeld
  <1>4. LiveRoomMapped'
    <2> SUFFICES ASSUME NEW r \in Rooms, NEW x \in live[r]
                 PROVE  userRoom'[x] = r
      BY <1>2 DEF LiveRoomMapped
    <2>1. x \in Users /\ userRoom[x] = r
      BY DEF Exclusive, LiveRoomMapped, Typed, RedisTypes
    <2>2. QED
      BY <1>2, <2>1
  <1>5. QED
    BY <1>3, <1>4 DEF Exclusive

LEMMA OpenKeeps ==
  ASSUME Typed, Exclusive, OpenStep
  PROVE  Exclusive'
  <1>1. PICK u \in Users :
          /\ Holding(u) /\ ~Holding(u)'
          /\ live' = [live EXCEPT ![claim[u]] = {u, peer[u]}]
          /\ UNCHANGED userRoom
          /\ \A v \in Users : Kept(v)
    BY DEF OpenStep
  <1>2. claim[u] \in Rooms /\ peer[u] \in Users
    BY <1>1 DEF Typed, MatchTypes, AttemptKnown, Holding
  <1>3. ClaimsHeld'
    <2> SUFFICES ASSUME NEW v \in Users, Holding(v)'
                 PROVE  /\ peer'[v] # v
                        /\ live'[claim'[v]] = {}
                        /\ \A x \in Users : userRoom'[x] = claim'[v] <=> x \in {v, peer'[v]}
                        /\ \A w \in Users : Holding(w)' /\ w # v => claim'[w] # claim'[v]
      BY DEF ClaimsHeld, Holding
    <2>1. Holding(v) /\ peer'[v] = peer[v] /\ claim'[v] = claim[v] /\ v # u
      BY <1>1 DEF Kept
    <2>2. claim[v] # claim[u] /\ claim[v] \in Rooms
      BY <1>1, <2>1 DEF Exclusive, ClaimsHeld, Typed, MatchTypes, AttemptKnown, Holding
    <2>3. live'[claim[v]] = {}
      BY <1>1, <2>1, <2>2 DEF Exclusive, ClaimsHeld, Typed, RedisTypes
    <2>4. \A w \in Users : Holding(w)' /\ w # v => claim'[w] # claim'[v]
      BY <1>1, <2>1 DEF Exclusive, ClaimsHeld, Kept
    <2>5. QED
      BY <1>1, <2>1, <2>3, <2>4 DEF Exclusive, ClaimsHeld
  <1>4. LiveRoomMapped'
    BY <1>1, <1>2 DEF LiveRoomMapped, Exclusive, ClaimsHeld, Typed, RedisTypes
  <1>5. QED
    BY <1>3, <1>4 DEF Exclusive

LEMMA CloseKeeps ==
  ASSUME Typed, Exclusive, CloseStep
  PROVE  Exclusive'
  <1>1. PICK r \in Rooms : Pairing!Close(r)
    BY DEF CloseStep
  <1>2. /\ live' = [live EXCEPT ![r] = {}]
        /\ \A x \in Users : userRoom'[x] = IF x \in live[r] THEN None ELSE userRoom[x]
        /\ \A x \in live[r] : x \in Users /\ userRoom[x] = r
        /\ live[r] # {}
    BY <1>1 DEF Pairing!Close, Exclusive, LiveRoomMapped, Typed, RedisTypes
  <1>3. ClaimsHeld'
    <2> SUFFICES ASSUME NEW v \in Users, Holding(v)'
                 PROVE  /\ peer'[v] # v
                        /\ live'[claim'[v]] = {}
                        /\ \A x \in Users : userRoom'[x] = claim'[v] <=> x \in {v, peer'[v]}
                        /\ \A w \in Users : Holding(w)' /\ w # v => claim'[w] # claim'[v]
      BY DEF ClaimsHeld, Holding
    <2>1. Holding(v) /\ peer'[v] = peer[v] /\ claim'[v] = claim[v]
      BY DEF CloseStep, Kept
    <2>2. claim[v] \in Rooms /\ claim[v] # None /\ claim[v] # r /\ live[claim[v]] = {}
      BY <1>2, <2>1, ConstantsAssumption
      DEF Typed, MatchTypes, AttemptKnown, Holding, Exclusive, ClaimsHeld
    <2>3. \A x \in Users : userRoom'[x] = claim[v] <=> x \in {v, peer[v]}
      BY <1>2, <2>1, <2>2 DEF Exclusive, ClaimsHeld
    <2>4. live'[claim[v]] = {}
      BY <1>2, <2>2 DEF Typed, RedisTypes
    <2>5. \A w \in Users : Holding(w)' /\ w # v => claim'[w] # claim'[v]
      BY <2>1 DEF Exclusive, ClaimsHeld, Kept, CloseStep
    <2>6. QED
      BY <2>1, <2>3, <2>4, <2>5 DEF Exclusive, ClaimsHeld
  <1>4. LiveRoomMapped'
    <2> SUFFICES ASSUME NEW q \in Rooms, NEW x \in live'[q]
                 PROVE  userRoom'[x] = q
      BY DEF LiveRoomMapped
    <2>1. q # r /\ x \in live[q]
      BY <1>2 DEF Typed, RedisTypes
    <2>2. x \in Users /\ userRoom[x] = q
      BY <2>1 DEF Exclusive, LiveRoomMapped, Typed, RedisTypes
    <2>3. QED
      BY <1>2, <2>1, <2>2
  <1>5. QED
    BY <1>3, <1>4 DEF Exclusive

LEMMA ClaimKeeps ==
  ASSUME Typed, Exclusive, ClaimStep
  PROVE  Exclusive'
  <1>1. PICK u \in Users, p \in Users, r \in Rooms :
          /\ Pairing!Claim(u, p, r)
          /\ \A v \in Users : Holding(v) => claim[v] # r
          /\ \A v \in Users : \/ Kept(v)
                              \/ v = u /\ peer'[v] = p /\ claim'[v] = r
    BY DEF ClaimStep
  <1>2. /\ u # p /\ userRoom[u] = None /\ userRoom[p] = None
        /\ live[r] = {} /\ live' = live
        /\ \A x \in Users : userRoom[x] # r
        /\ \A x \in Users : userRoom'[x] = IF x \in {u, p} THEN r ELSE userRoom[x]
    BY <1>1 DEF Pairing!Claim, Pairing!Members, Typed, RedisTypes
  <1>3. ClaimsHeld'
    <2> SUFFICES ASSUME NEW v \in Users, Holding(v)'
                 PROVE  /\ peer'[v] # v
                        /\ live'[claim'[v]] = {}
                        /\ \A x \in Users : userRoom'[x] = claim'[v] <=> x \in {v, peer'[v]}
                        /\ \A w \in Users : Holding(w)' /\ w # v => claim'[w] # claim'[v]
      BY DEF ClaimsHeld, Holding
    <2>1. CASE v = u /\ peer'[v] = p /\ claim'[v] = r
      <3>1. \A w \in Users : Holding(w)' /\ w # v => claim'[w] # r
        BY <1>1, <2>1 DEF Kept
      <3>2. QED
        BY <1>2, <2>1, <3>1
    <2>2. CASE Kept(v)
      <3>1. Holding(v) /\ peer'[v] = peer[v] /\ claim'[v] = claim[v] /\ claim[v] # r
        BY <1>1, <2>2 DEF Kept
      <3>2. claim[v] # None
        BY <3>1, ConstantsAssumption DEF Typed, MatchTypes, AttemptKnown, Holding
      <3>3. \A x \in Users : userRoom'[x] = claim[v] <=> x \in {v, peer[v]}
        BY <1>2, <3>1, <3>2 DEF Exclusive, ClaimsHeld
      <3>4. \A w \in Users : Holding(w)' /\ w # v => claim'[w] # claim'[v]
        BY <1>1, <3>1 DEF Exclusive, ClaimsHeld, Kept
      <3>5. QED
        BY <1>2, <3>1, <3>3, <3>4 DEF Exclusive, ClaimsHeld
    <2>3. QED
      BY <1>1, <2>1, <2>2
  <1>4. LiveRoomMapped'
    <2> SUFFICES ASSUME NEW q \in Rooms, NEW x \in live[q]
                 PROVE  userRoom'[x] = q
      BY <1>2 DEF LiveRoomMapped
    <2>1. x \in Users /\ userRoom[x] = q /\ q # None
      BY ConstantsAssumption DEF Exclusive, LiveRoomMapped, Typed, RedisTypes
    <2>2. QED
      BY <1>2, <2>1
  <1>5. QED
    BY <1>3, <1>4 DEF Exclusive

\* The steps inside an attempt that leave the keys alone and keep its claim.
LEMMA MatchStepKept ==
  ASSUME Typed, NEW u \in Users, Holding(u), NEW pc, NEW self, NEW other,
         MatchStep(u, pc, self, other)
  PROVE  \A v \in Users : Kept(v)
  BY DEF MatchStep, MatchGoto, Kept, Holding, Typed, MatchTypes

\* The end of an attempt: the others keep what they hold.
LEMMA AttemptEndsKept ==
  ASSUME Typed, NEW u \in Users, NEW S, AttemptEnds(u, S)
  PROVE  /\ ~Holding(u)'
         /\ \A v \in Users : Kept(v)
  BY DEF AttemptEnds, MatchGoto, Kept, Holding, Typed, MatchTypes

\* After the claim is gone the program counter stays where it is, or the attempt ends.
LEMMA RequeuedKept ==
  ASSUME Typed, NEW u \in Users, mpc[u] \in {"readd", "requeue"}, NEW self, NEW other,
         Requeued(u, self, other)
  PROVE  \A v \in Users : Kept(v)
  <1>1. CASE mpc[u] = "readd"
    BY <1>1, MatchStepKept DEF Requeued, Holding
  <1>2. CASE MatchStep(u, mpc[u], self, other)
    BY <1>2 DEF MatchStep, MatchGoto, Kept, Holding, Typed, MatchTypes
  <1>3. CASE AttemptEnds(u, {u, peer[u]})
    BY <1>3, AttemptEndsKept
  <1>4. QED
    BY <1>1, <1>2, <1>3 DEF Requeued

\* Groups of variables that leave what ClaimsHeld speaks of alone.
LEMMA UntouchedKept ==
  ASSUME UNCHANGED <<mpc, peer, claim>>
  PROVE  \A v \in Users : Kept(v)
  BY DEF Kept, Holding

\* A join may start an attempt; it has no claim yet.
LEMMA JoinKept ==
  ASSUME Typed, NEW u \in Users, UNCHANGED <<peer, claim>>,
         TryFindMatch(u) \/ UNCHANGED mpc
  PROVE  \A v \in Users : Kept(v)
  BY DEF TryFindMatch, MatchGoto, Kept, Holding, Typed, MatchTypes

\* match.lua claims under an id that nobody knows.
LEMMA ClaimPairShape ==
  ASSUME Typed, NEW u \in Users, userRoom[u] = None, UNCHANGED live,
         NEW e \in Candidates(u), NEW r \in {x \in Rooms : Fresh(x)}, ClaimPair(u, e, r)
  PROVE  /\ e[1] \in Users
         /\ Pairing!Claim(u, e[1], r)
         /\ \A v \in Users : Holding(v) => claim[v] # r
  <1>1. e[1] \in Users /\ e[1] # u /\ userRoom[e[1]] = None
    BY DEF Candidates, Typed, RedisTypes
  <1>2. Pairing!Claim(u, e[1], r)
    BY <1>1 DEF Pairing!Claim, Pairing!Members, ClaimPair, Fresh
  <1>3. QED
    BY <1>1, <1>2 DEF Fresh, InFlight

\* deleteRoom takes a room with its bindings, or finds nothing to take.
LEMMA DestroyShape ==
  ASSUME Typed, NEW r \in Rooms, DestroyRoom(r)
  PROVE  (\E q \in Rooms : Pairing!Close(q)) \/ UNCHANGED <<userRoom, live>>
  <1>1. CASE live[r] = {}
    BY <1>1 DEF DestroyRoom, Typed, RedisTypes
  <1>2. CASE live[r] # {}
    BY <1>2 DEF DestroyRoom, Pairing!Close
  <1>3. QED
    BY <1>1, <1>2

Shape == QuietStep \/ ClaimStep \/ ReleaseStep \/ OpenStep \/ CloseStep

LEMMA AttemptShape ==
  ASSUME Typed, Exclusive, NEW u \in Users, Attempt(u)
  PROVE  Shape
  <1> USE DEF redisVars
  <1>1. CASE FindNone(u)
    BY <1>1, AttemptEndsKept DEF FindNone, Shape, QuietStep
  <1>2. CASE FindMatch(u)
    <2>1. PICK e \in Candidates(u), r \in {x \in Rooms : Fresh(x)} :
            /\ ClaimPair(u, e, r)
            /\ peer' = [peer EXCEPT ![u] = e[1]]
            /\ claim' = [claim EXCEPT ![u] = r]
            /\ \E pc \in AttemptPc : MatchGoto(u, pc)
      BY <1>2 DEF FindMatch, AttemptPc
    <2>2. e[1] \in Users /\ Pairing!Claim(u, e[1], r)
          /\ \A v \in Users : Holding(v) => claim[v] # r
      BY <1>2, <2>1, ClaimPairShape DEF FindMatch
    <2>3. \A v \in Users : Kept(v) \/ (v = u /\ peer'[v] = e[1] /\ claim'[v] = r)
      BY <2>1 DEF MatchGoto, Kept, Holding, Typed, MatchTypes
    <2>4. QED
      BY <2>2, <2>3 DEF Shape, ClaimStep
  <1>3. CASE AbortReadsQueue(u)
    <2>1. Holding(u) /\ \E pc, self, other : MatchStep(u, pc, self, other)
      BY <1>3 DEF AbortReadsQueue, AfterRemoval, Holding
    <2>2. QED
      BY <1>3, <2>1, MatchStepKept DEF AbortReadsQueue, Shape, QuietStep
  <1>4. CASE AbortRemovesEntry(u)
    <2>1. Holding(u) /\ \E pc, self, other : MatchStep(u, pc, self, other)
      BY <1>4 DEF AbortRemovesEntry, AfterRemoval, Holding
    <2>2. QED
      BY <1>4, <2>1, MatchStepKept DEF AbortRemovesEntry, Shape, QuietStep
  <1>5. CASE CheckSelfRoom(u) \/ CheckPeerRoom(u)
    <2>1. Holding(u) /\ \E pc, self, other : MatchStep(u, pc, self, other)
      BY <1>5 DEF CheckSelfRoom, CheckPeerRoom, Holding
    <2>2. QED
      BY <1>5, <2>1, MatchStepKept DEF CheckSelfRoom, CheckPeerRoom, Shape, QuietStep
  <1>6. CASE CreateRoom(u)
    <2>1. Holding(u) /\ ~Holding(u)' /\ \A v \in Users : Kept(v)
      BY <1>6, AttemptEndsKept DEF CreateRoom, Holding
    <2>2. userRoom' = userRoom
      BY <1>6, <2>1
      DEF CreateRoom, Exclusive, ClaimsHeld, Typed, RedisTypes, MatchTypes, AttemptKnown
    <2>3. QED
      BY <1>6, <2>1, <2>2 DEF CreateRoom, Shape, OpenStep
  <1>7. CASE ReadClaim(u)
    <2>1. Holding(u) /\ \E pc, self, other : MatchStep(u, pc, self, other)
      BY <1>7 DEF ReadClaim, Holding
    <2>2. QED
      BY <1>7, <2>1, MatchStepKept DEF ReadClaim, Shape, QuietStep
  <1>8. CASE DropClaim(u)
    <2> DEFINE S == {x \in Users : \/ x = u /\ selfTodo[u] = "drop"
                                   \/ x = peer[u] /\ peerTodo[u] = "drop"}
    <2>1. Holding(u) /\ peer[u] \in Users /\ claim[u] \in Rooms
      BY <1>8 DEF DropClaim, Holding, Typed, MatchTypes, AttemptKnown
    <2>2. \A v \in Users : Kept(v) /\ (v = u => ~Holding(v)')
      <3>1. CASE AttemptEnds(u, {u, peer[u]})
        BY <3>1, AttemptEndsKept
      <3>2. CASE \E self, other : MatchStep(u, "requeue", self, other)
        BY <3>2, <2>1, MatchStepKept DEF MatchStep, MatchGoto, Holding, Typed, MatchTypes
      <3>3. QED
        BY <1>8, <3>1, <3>2 DEF DropClaim
    <2>3. \A x \in S : userRoom[x] = claim[u] /\ userRoom[x] # None
                       /\ live[userRoom[x]] = {}
      BY <2>1, ConstantsAssumption DEF Exclusive, ClaimsHeld
    <2>4. \A v \in Users : Holding(v)' => v \notin S /\ peer[v] \notin S
      <3> SUFFICES ASSUME NEW v \in Users, Holding(v)', v \in S \/ peer[v] \in S
                   PROVE  FALSE
        OBVIOUS
      <3>1. Holding(v) /\ v # u /\ peer[v] \in Users
        BY <2>2 DEF Kept, Typed, MatchTypes, AttemptKnown, Holding
      <3>2. userRoom[v] = claim[v] /\ userRoom[peer[v]] = claim[v] /\ claim[v] # claim[u]
        BY <2>1, <3>1 DEF Exclusive, ClaimsHeld
      <3>3. QED
        BY <2>3, <3>2
    <2>5. Pairing!Release(S)
      <3>1. userRoom' = [x \in Users |-> IF x \in S THEN None ELSE userRoom[x]]
        BY <1>8 DEF DropClaim
      <3>2. QED
        BY <1>8, <2>3, <3>1 DEF DropClaim, Pairing!Release
    <2>6. QED
      BY <2>2, <2>4, <2>5 DEF Shape, ReleaseStep
  <1>9. CASE RequeueCheck(u)
    BY <1>9, RequeuedKept DEF RequeueCheck, Shape, QuietStep
  <1>10. CASE RequeueAdd(u)
    BY <1>10, RequeuedKept DEF RequeueAdd, Shape, QuietStep
  <1>11. QED
    BY <1>1, <1>2, <1>3, <1>4, <1>5, <1>6, <1>7, <1>8, <1>9, <1>10 DEF Attempt

LEMMA SocketOpShape ==
  ASSUME Typed, NEW u \in Users, SocketOp(u)
  PROVE  Shape
  <1> USE DEF redisVars, matchVars
  <1>1. CASE BeginJoin(u) \/ JoinChecksRoom(u) \/ JoinAdds(u) \/ BeginCancel(u)
             \/ CancelReadsQueue(u) \/ CancelRemovesEntry(u)
    BY <1>1, UntouchedKept
    DEF BeginJoin, JoinChecksRoom, JoinAdds, BeginCancel, CancelReadsQueue,
        CancelRemovesEntry, Shape, QuietStep
  <1>2. CASE JoinChecksQueue(u) \/ JoinTries(u)
    BY <1>2, JoinKept DEF JoinChecksQueue, JoinTries, Shape, QuietStep
  <1>3. CASE BeginLeave(u) \/ LeaveLocks(u) \/ LeaveUnlocks(u) \/ LeaveEnds(u)
    BY <1>3, UntouchedKept
    DEF BeginLeave, LeaveLocks, LeaveUnlocks, LeaveEnds, Shape, QuietStep
  <1>4. CASE LeaveDeletes(u)
    <2>1. opRoom[u] \in Rooms
      BY <1>4 DEF LeaveDeletes, Typed, OpTypes, LeaveKnown
    <2>2. QED
      BY <1>4, <2>1, DestroyShape, UntouchedKept
      DEF LeaveDeletes, Shape, QuietStep, CloseStep
  <1>5. QED
    BY <1>1, <1>2, <1>3, <1>4 DEF SocketOp

LEMMA CleanupShape ==
  ASSUME Typed, NEW u \in Users, Cleanup(u)
  PROVE  Shape
  <1> USE DEF redisVars, matchVars
  <1>1. CASE CleanDeletes(u)
    <2>1. cRoom[u] \in Rooms
      BY <1>1 DEF CleanDeletes, Typed, CleanTypes, CleanupKnown
    <2>2. QED
      BY <1>1, <2>1, DestroyShape, UntouchedKept
      DEF CleanDeletes, Shape, QuietStep, CloseStep
  <1>2. CASE ~CleanDeletes(u)
    BY <1>2, UntouchedKept
    DEF Cleanup, CleanReadsQueue, CleanRemovesEntry, CleanChecksRoom, CleanLocks,
        CleanUnlocks, Shape, QuietStep
  <1>3. QED
    BY <1>1, <1>2

LEMMA FaultShape ==
  ASSUME Typed, Exclusive, NEW u \in Users, Fault(u)
  PROVE  Shape
  <1> USE DEF redisVars, matchVars
  <1>1. CASE CreateRoomFails(u)
    <2>1. Holding(u) /\ ~Holding(u)' /\ \A v \in Users : Kept(v)
      BY <1>1, AttemptEndsKept DEF CreateRoomFails, Holding
    <2>2. userRoom' = userRoom
      BY <1>1, <2>1
      DEF CreateRoomFails, Exclusive, ClaimsHeld, Typed, RedisTypes, MatchTypes,
          AttemptKnown
    <2>3. QED
      BY <1>1, <2>1, <2>2 DEF CreateRoomFails, Shape, OpenStep, QuietStep
  <1>2. CASE RequeueFails(u)
    BY <1>2, RequeuedKept, AttemptEndsKept DEF RequeueFails, Shape, QuietStep
  <1>3. CASE FindReplyLost(u)
    <2>1. PICK e \in Candidates(u), r \in {x \in Rooms : Fresh(x)} : ClaimPair(u, e, r)
      BY <1>3 DEF FindReplyLost
    <2>2. e[1] \in Users /\ Pairing!Claim(u, e[1], r)
          /\ \A v \in Users : Holding(v) => claim[v] # r
      BY <1>3, <2>1, ClaimPairShape DEF FindReplyLost
    <2>3. \A v \in Users : Kept(v)
      BY <1>3, AttemptEndsKept DEF FindReplyLost
    <2>4. QED
      BY <2>2, <2>3 DEF Shape, ClaimStep
  <1>4. CASE JoinAddFails(u)
    BY <1>4, UntouchedKept DEF JoinAddFails, Shape, QuietStep
  <1>5. QED
    BY <1>1, <1>2, <1>3, <1>4 DEF Fault

\* Every step has one of the five shapes, as long as no claim lapses under its attempt.
LEMMA NextShape ==
  ASSUME Typed, Exclusive, ClaimMayLapse = FALSE, [Next]_vars
  PROVE  Shape
  <1> USE DEF redisVars, matchVars
  <1>1. CASE Tick
    <2>1. \A v \in Users : Kept(v)
      BY <1>1 DEF Tick, Eligible, Kept, Holding, Typed, MatchTypes
    <2>2. QED
      BY <1>1, <2>1 DEF Tick, Shape, QuietStep
  <1>2. CASE QueueExpires
    BY <1>2, UntouchedKept DEF QueueExpires, Shape, QuietStep
  <1>3. ASSUME NEW u \in Users, Receive(u) \/ Disconnect(u)
        PROVE  Shape
    BY <1>3, UntouchedKept DEF Receive, Disconnect, Shape, QuietStep
  <1>4. ASSUME NEW u \in Users, ClaimExpires(u)
        PROVE  Shape
    <2>1. userRoom[u] # None /\ live[userRoom[u]] = {} /\ ~InFlight(userRoom[u])
      BY <1>4 DEF ClaimExpires
    <2>2. Pairing!Release({u})
      BY <1>4, <2>1 DEF ClaimExpires, Pairing!Release, Typed, RedisTypes
    <2>3. \A v \in Users : Kept(v)
      BY <1>4, UntouchedKept DEF ClaimExpires
    <2>4. \A v \in Users : Holding(v)' => v \notin {u} /\ peer[v] \notin {u}
      <3> SUFFICES ASSUME NEW v \in Users, Holding(v)' PROVE v # u /\ peer[v] # u
        OBVIOUS
      <3>1. Holding(v) /\ peer[v] \in Users
        BY <2>3 DEF Kept, Typed, MatchTypes, AttemptKnown, Holding
      <3>2. userRoom[v] = claim[v] /\ userRoom[peer[v]] = claim[v]
        BY <3>1 DEF Exclusive, ClaimsHeld
      <3>3. QED
        BY <2>1, <3>2 DEF InFlight
    <2>5. QED
      BY <2>2, <2>3, <2>4 DEF Shape, ReleaseStep
  <1>5. CASE UNCHANGED vars
    BY <1>5, UntouchedKept DEF vars, Shape, QuietStep
  <1>6. QED
    BY <1>1, <1>2, <1>3, <1>4, <1>5, AttemptShape, SocketOpShape, CleanupShape, FaultShape
    DEF Next

LEMMA NextExclusive ==
  ClaimMayLapse = FALSE /\ Typed /\ Exclusive /\ [Next]_vars => Exclusive'
  BY NextShape, QuietKeeps, ClaimKeeps, ReleaseKeeps, OpenKeeps, CloseKeeps DEF Shape

\* The inductive invariant holds in every reachable state.
LEMMA Inductive ==
  ASSUME ClaimMayLapse = FALSE
  PROVE  Spec => [](Typed /\ Exclusive)
  <1>1. Init => Typed /\ Exclusive
    BY InitTyped, InitExclusive
  <1>2. Typed /\ Exclusive /\ [Next]_vars => (Typed /\ Exclusive)'
    BY NextTyped, NextExclusive
  <1>3. QED
    BY <1>1, <1>2, PTL DEF Spec

\* A user is in one pairing at a time: a pair being turned into a room shares nobody with
\* another such pair or with a room, and no two rooms share a member.
THEOREM PairsExclusive ==
  ASSUME ClaimMayLapse = FALSE
  PROVE  Spec => []PairExclusive
  <1>0. Spec => [](Typed /\ Exclusive)
    BY Inductive
  <1>1. ASSUME Typed, Exclusive
        PROVE  PairExclusive
    <2>1. \A u \in Users : Committed(u) => /\ Holding(u) /\ peer[u] \in Users
                                           /\ userRoom[u] = claim[u]
                                           /\ userRoom[peer[u]] = claim[u]
                                           /\ live[claim[u]] = {} /\ claim[u] \in Rooms
      BY <1>1 DEF Committed, Holding, Exclusive, ClaimsHeld, Typed, MatchTypes, AttemptKnown
    <2>2. \A r \in Rooms : \A x \in live[r] : x \in Users /\ userRoom[x] = r
      BY <1>1 DEF Exclusive, LiveRoomMapped, Typed, RedisTypes
    <2>3. \A u, v \in Users : Committed(u) /\ Committed(v) /\ u # v
                                => {u, peer[u]} \cap {v, peer[v]} = {}
      BY <1>1, <2>1 DEF Exclusive, ClaimsHeld
    <2>4. \A u \in Users, r \in Rooms : Committed(u) => {u, peer[u]} \cap live[r] = {}
      BY <2>1, <2>2
    <2>5. \A r, q \in Rooms : r # q => live[r] \cap live[q] = {}
      BY <2>2
    <2>6. QED
      BY <2>3, <2>4, <2>5 DEF PairExclusive
  <1>2. QED
    BY <1>1, <1>0, PTL

\* What the handlers of match.handler.ts, room.handler.ts and connection.handler.ts know of
\* their partners and rooms is so whenever they act on it, and every claim and binding they
\* made is still in Redis, whatever calls to Redis fail.
THEOREM PairingInvariant ==
  ASSUME ClaimMayLapse = FALSE
  PROVE  Spec => []PairingInv
  <1>0. Spec => [](Typed /\ Exclusive)
    BY Inductive
  <1>1. Typed /\ Exclusive => PairingInv
    BY TypedIs DEF Exclusive, PairingInv
  <1>2. QED
    BY <1>0, <1>1, PTL

\* While a room exists both members' keys point at it.
THEOREM RoomsMapped ==
  ASSUME ClaimMayLapse = FALSE
  PROVE  Spec => []LiveRoomMapped
  <1>0. Spec => [](Typed /\ Exclusive)
    BY Inductive
  <1>1. Exclusive => LiveRoomMapped
    BY DEF Exclusive
  <1>2. QED
    BY <1>1, <1>0, PTL

-----------------------------------------------------------------------------
(* Refinement.                                                              *)

LEMMA ShapeImplements ==
  ASSUME Typed, Exclusive, Shape
  PROVE  [Pairing!Next]_Pairing!vars
  <1>1. CASE QuietStep
    BY <1>1 DEF QuietStep, Pairing!vars
  <1>2. CASE ClaimStep
    BY <1>2 DEF ClaimStep, Pairing!Next
  <1>3. CASE ReleaseStep
    BY <1>3 DEF ReleaseStep, Pairing!Next
  <1>4. CASE CloseStep
    BY <1>4 DEF CloseStep, Pairing!Next
  <1>5. CASE OpenStep
    <2>1. PICK u \in Users :
            /\ Holding(u)
            /\ live' = [live EXCEPT ![claim[u]] = {u, peer[u]}]
            /\ UNCHANGED userRoom
      BY <1>5 DEF OpenStep
    <2>2. claim[u] \in Rooms /\ peer[u] \in Users /\ peer[u] # u
      BY <2>1 DEF Typed, MatchTypes, AttemptKnown, Holding, Exclusive, ClaimsHeld
    <2>3. Pairing!Members(claim[u]) = {u, peer[u]}
      BY <2>1, <2>2 DEF Pairing!Members, Exclusive, ClaimsHeld
    <2>4. Pairing!Open(claim[u])
      BY <2>1, <2>2, <2>3 DEF Pairing!Open, Exclusive, ClaimsHeld
    <2>5. QED
      BY <2>2, <2>4 DEF Pairing!Next
  <1>6. QED
    BY <1>1, <1>2, <1>3, <1>4, <1>5 DEF Shape

\* The handlers implement the abstract pairing: every step on 'user:room' and 'room:<id>'
\* is one of Pairing's, so a room opens only for the two users still bound to its id.
THEOREM Implements ==
  ASSUME ClaimMayLapse = FALSE
  PROVE  Spec => ImplementsPairing
  <1>0. Spec => [](Typed /\ Exclusive)
    BY Inductive
  <1>1. Init => Pairing!Init
    BY DEF Init, Pairing!Init
  <1>2. Typed /\ Exclusive /\ [Next]_vars
          => [Pairing!Next]_Pairing!vars
    BY NextShape, ShapeImplements
  <1>3. QED
    BY <1>1, <1>2, <1>0, PTL DEF Spec, ImplementsPairing, Pairing!Spec

\* A member of an existing room keeps its binding until the room itself is deleted.
THEOREM BindingsEnd ==
  ASSUME ClaimMayLapse = FALSE
  PROVE  Spec => BindingEndsWithRoom
  <1>0. Spec => [](Typed /\ Exclusive)
    BY Inductive
  <1>1. ASSUME Typed, Exclusive, Shape, NEW x \in Users, InRoom(x),
               userRoom'[x] # userRoom[x]
        PROVE  live'[userRoom[x]] = {}
    <2>1. userRoom[x] \in Rooms /\ live[userRoom[x]] # {} /\ userRoom[x] # None
      BY <1>1 DEF InRoom, Typed, RedisTypes
    <2>2. CASE QuietStep \/ OpenStep
      BY <1>1, <2>2 DEF QuietStep, OpenStep
    <2>3. CASE ClaimStep
      BY <1>1, <2>1, <2>3 DEF ClaimStep, Pairing!Claim, Typed, RedisTypes
    <2>4. CASE ReleaseStep
      BY <1>1, <2>1, <2>4 DEF ReleaseStep, Pairing!Release
    <2>5. CASE CloseStep
      <3>1. PICK q \in Rooms : Pairing!Close(q)
        BY <2>5 DEF CloseStep
      <3>2. x \in live[q]
        BY <1>1, <3>1 DEF Pairing!Close
      <3>3. q = userRoom[x]
        BY <1>1, <3>2 DEF Exclusive, LiveRoomMapped
      <3>4. QED
        BY <1>1, <2>1, <3>1, <3>3 DEF Pairing!Close, Typed, RedisTypes
    <2>6. QED
      BY <1>1, <2>2, <2>3, <2>4, <2>5 DEF Shape
  <1>2. Typed /\ Exclusive /\ [Next]_vars
          => [\A u \in Users : InRoom(u) /\ userRoom'[u] # userRoom[u]
                                 => live'[userRoom[u]] = {}]_vars
    BY <1>1, NextShape
  <1>3. QED
    BY <1>2, <1>0, PTL DEF Spec, BindingEndsWithRoom

-----------------------------------------------------------------------------
(* Attempts settle: no claim and no lock outlives the attempt that took it, *)
(* as long as no call to Redis fails and no claim lapses under its attempt. *)

\* An attempt that has not had its script's reply has no partner and no claim; no two
\* attempts share a claim; whoever releases finds both keys to be its own, and leaves none.
NothingYet == \A u \in Users : mpc[u] \in {"idle", "find"} => peer[u] = None /\ claim[u] = None
OwnClaims == \A u, v \in Users : claim[u] # None /\ u # v => claim[v] # claim[u]
Released ==
    \A u \in Users :
        /\ mpc[u] = "dropClaim" => selfTodo[u] = "drop" /\ peerTodo[u] = "drop"
        /\ mpc[u] = "requeue" => \A x \in Users : userRoom[x] # claim[u]

\* Whoever is bound to a room that exists is in it, and a room is one pair.
BoundInRoom == \A x \in Users : InRoom(x) => x \in live[userRoom[x]]
Pairs == \A r \in Rooms : \A a, b \in live[r] : a # b => live[r] = {a, b}

Books == NothingYet /\ OwnClaims /\ Released /\ LocksSettle
Settled == Books /\ BoundInRoom /\ Pairs /\ ClaimsSettle

LEMMA InitSettled == Init => Settled
  BY DEF Init, Settled, Books, NothingYet, OwnClaims, Released, LocksSettle, BoundInRoom,
         Pairs, ClaimsSettle, InRoom

\* Each of the five shapes keeps rooms and their members' bindings together.
LEMMA ShapePaired ==
  ASSUME Typed, Exclusive, BoundInRoom, Pairs, Shape
  PROVE  BoundInRoom' /\ Pairs'
  <1> USE DEF BoundInRoom, Pairs, InRoom, Typed, RedisTypes
  <1>1. CASE QuietStep
    BY <1>1 DEF QuietStep
  <1>2. CASE ClaimStep
    BY <1>2 DEF ClaimStep, Pairing!Claim
  <1>3. CASE ReleaseStep
    BY <1>3 DEF ReleaseStep, Pairing!Release
  <1>4. CASE OpenStep
    <2>1. PICK u \in Users :
            /\ Holding(u) /\ UNCHANGED userRoom
            /\ live' = [live EXCEPT ![claim[u]] = {u, peer[u]}]
      BY <1>4 DEF OpenStep
    <2>2. \A x \in Users : userRoom[x] = claim[u] => x \in {u, peer[u]}
      BY <2>1 DEF Exclusive, ClaimsHeld
    <2>3. BoundInRoom'
      BY <2>1, <2>2
    <2>4. Pairs'
      BY <2>1
    <2>5. QED
      BY <2>3, <2>4
  <1>5. CASE CloseStep
    BY <1>5 DEF CloseStep, Pairing!Close
  <1>6. QED
    BY <1>1, <1>2, <1>3, <1>4, <1>5 DEF Shape

\* A step inside an attempt: releasing is prepared for both keys or not at all.
LEMMA MatchStepBooks ==
  ASSUME Typed, Books, NEW u \in Users, mpc[u] \notin {"idle", "find"},
         NEW pc \in AttemptPc, NEW self, NEW other, MatchStep(u, pc, self, other),
         pc \notin {"idle", "find"},
         pc = "dropClaim" => self = "drop" /\ other = "drop",
         pc = "requeue" => mpc[u] = "requeue" \/ (\A x \in Users : userRoom'[x] # claim[u]),
         \A x \in Users : userRoom'[x] = userRoom[x] \/ userRoom'[x] = None
  PROVE  Books'
  <1> USE DEF MatchStep, MatchGoto, Typed, MatchTypes
  <1>1. NothingYet' /\ OwnClaims'
    BY DEF Books, NothingYet, OwnClaims
  <1>2. LocksSettle'
    BY DEF Books, LocksSettle
  <1>3. Released'
    <2> SUFFICES ASSUME NEW v \in Users
                 PROVE  /\ mpc'[v] = "dropClaim" => selfTodo'[v] = "drop" /\ peerTodo'[v] = "drop"
                        /\ mpc'[v] = "requeue" => \A x \in Users : userRoom'[x] # claim'[v]
      BY DEF Released
    <2>1. claim' = claim /\ (mpc[v] = "requeue" => claim[v] # None)
      BY ConstantsAssumption DEF AttemptKnown
    <2>2. CASE v = u
      BY <2>1, <2>2 DEF Books, Released
    <2>3. CASE v # u
      BY <2>1, <2>3 DEF Books, Released
    <2>4. QED
      BY <2>2, <2>3
  <1>4. QED
    BY <1>1, <1>2, <1>3 DEF Books

\* The end of an attempt that unlocks whom it locked.
LEMMA AttemptEndsBooks ==
  ASSUME Typed, Books, NEW u \in Users, NEW S, AttemptEnds(u, S),
         u \in S, peer[u] \in S \/ peer[u] = None,
         \A x \in Users : userRoom'[x] = userRoom[x] \/ userRoom'[x] = None
  PROVE  Books'
  <1> USE DEF AttemptEnds, MatchGoto, Typed, MatchTypes
  <1>1. NothingYet' /\ OwnClaims'
    BY DEF Books, NothingYet, OwnClaims
  <1>2. LocksSettle'
    <2> SUFFICES ASSUME NEW x \in matching' PROVE mpc'[x] # "idle" \/ \E v \in Users : peer'[v] = x
      BY DEF LocksSettle
    <2>1. x \in matching /\ x \notin S /\ x # u /\ x # peer[u] /\ x \in Users
      BY ConstantsAssumption
    <2>2. QED
      BY <2>1 DEF Books, LocksSettle
  <1>3. Released'
    <2> SUFFICES ASSUME NEW v \in Users
                 PROVE  /\ mpc'[v] = "dropClaim" => selfTodo'[v] = "drop" /\ peerTodo'[v] = "drop"
                        /\ mpc'[v] = "requeue" => \A x \in Users : userRoom'[x] # claim'[v]
      BY DEF Released
    <2>1. mpc[v] = "requeue" => claim[v] # None
      BY ConstantsAssumption DEF AttemptKnown
    <2>2. CASE v = u
      BY <2>2
    <2>3. CASE v # u
      BY <2>1, <2>3 DEF Books, Released
    <2>4. QED
      BY <2>2, <2>3
  <1>4. QED
    BY <1>1, <1>2, <1>3 DEF Books

\* Steps that start an attempt, and steps that leave the attempts alone.
LEMMA OtherBooks ==
  ASSUME Typed, Books, UNCHANGED <<peer, claim, selfTodo, peerTodo>>,
         \A v \in Users : \/ mpc'[v] = mpc[v] /\ (v \in matching' => v \in matching)
                          \/ mpc[v] = "idle" /\ mpc'[v] = "find",
         matching' \subseteq Users,
         \A x \in Users : userRoom'[x] = userRoom[x] \/ userRoom'[x] = None
  PROVE  Books'
  <1> USE DEF Typed, MatchTypes
  <1>1. NothingYet' /\ OwnClaims'
    BY DEF Books, NothingYet, OwnClaims
  <1>2. LocksSettle'
    BY DEF Books, LocksSettle
  <1>3. Released'
    BY ConstantsAssumption DEF Books, Released, AttemptKnown
  <1>4. QED
    BY <1>1, <1>2, <1>3 DEF Books

\* Bindings that are only taken away, by steps whose claims, if they give one up, are
\* nobody's binding any more.
LEMMA ClaimsStay ==
  ASSUME ClaimsSettle, UNCHANGED live,
         \A x \in Users : userRoom'[x] = userRoom[x] \/ userRoom'[x] = None,
         NEW u, \A v \in Users : v # u => claim'[v] = claim[v],
         claim'[u] = claim[u] \/ \A x \in Users : userRoom'[x] = None \/ userRoom'[x] # claim[u]
  PROVE  ClaimsSettle'
  <1> SUFFICES ASSUME NEW x \in Users, userRoom'[x] # None
               PROVE  InFlight(userRoom[x])' \/ InRoom(x)'
    BY DEF ClaimsSettle, InFlight
  <1>1. userRoom'[x] = userRoom[x] /\ userRoom[x] # None
    OBVIOUS
  <1>2. CASE InRoom(x)
    BY <1>1, <1>2 DEF InRoom
  <1>3. CASE InFlight(userRoom[x])
    <2>1. PICK v \in Users : claim[v] = userRoom[x]
      BY <1>3 DEF InFlight
    <2>2. claim'[v] = claim[v]
      BY <2>1, <1>1
    <2>3. QED
      BY <2>1, <2>2, <1>1 DEF InFlight
  <1>4. QED
    BY <1>1, <1>2, <1>3 DEF ClaimsSettle

LEMMA RequeuedBooks ==
  ASSUME Typed, Books, NEW u \in Users, mpc[u] \in {"readd", "requeue"},
         NEW self \in Todo, NEW other \in Todo, Requeued(u, self, other),
         ClaimsSettle, UNCHANGED <<userRoom, live>>
  PROVE  Books' /\ ClaimsSettle'
  <1>1. CASE AttemptEnds(u, {u, peer[u]}) /\ mpc[u] = "requeue"
    <2>1. Books'
      BY <1>1, AttemptEndsBooks
    <2>2. \A v \in Users : v # u => claim'[v] = claim[v]
      BY <1>1 DEF AttemptEnds, Typed, MatchTypes
    <2>3. \A x \in Users : userRoom'[x] # claim[u]
      BY <1>1 DEF Books, Released
    <2>4. QED
      BY <2>1, <2>2, <2>3, ClaimsStay
  <1>2. CASE \E pc \in {mpc[u], "readClaim"}, s \in Todo, o \in Todo : MatchStep(u, pc, s, o)
    <2>1. PICK pc \in {mpc[u], "readClaim"}, s \in Todo, o \in Todo : MatchStep(u, pc, s, o)
      BY <1>2
    <2>2. pc \in AttemptPc /\ pc \notin {"idle", "find", "dropClaim"}
          /\ (pc = "requeue" => mpc[u] = "requeue")
      BY DEF AttemptPc
    <2>3. Books'
      BY <2>1, <2>2, MatchStepBooks
    <2>4. claim' = claim
      BY <2>1 DEF MatchStep
    <2>5. QED
      BY <2>3, <2>4, ClaimsStay
  <1>3. QED
    BY <1>1, <1>2 DEF Requeued, Todo

\* A step inside an attempt that leaves the keys alone.
LEMMA InsideSettled ==
  ASSUME Typed, Books, ClaimsSettle, NEW u \in Users, mpc[u] \notin {"idle", "find"},
         NEW pc \in AttemptPc \ {"idle", "find", "requeue"}, NEW self, NEW other,
         MatchStep(u, pc, self, other),
         pc = "dropClaim" => self = "drop" /\ other = "drop",
         UNCHANGED <<userRoom, live>>
  PROVE  Books' /\ ClaimsSettle'
  <1>1. Books'
    BY MatchStepBooks
  <1>2. claim' = claim
    BY DEF MatchStep
  <1>3. QED
    BY <1>1, <1>2, ClaimsStay

LEMMA AttemptSettled ==
  ASSUME Typed, Exclusive, Books, BoundInRoom, ClaimsSettle, NEW u \in Users, Attempt(u)
  PROVE  Books' /\ ClaimsSettle'
  <1> USE DEF redisVars
  <1>1. CASE FindNone(u)
    <2>1. peer[u] = None /\ claim[u] = None /\ AttemptEnds(u, {u}) /\ UNCHANGED <<userRoom, live>>
      BY <1>1 DEF FindNone, Books, NothingYet
    <2>2. Books'
      BY <2>1, AttemptEndsBooks
    <2>3. claim' = claim
      BY <2>1 DEF AttemptEnds, Typed, MatchTypes
    <2>4. QED
      BY <2>1, <2>2, <2>3, ClaimsStay
  <1>2. CASE FindMatch(u)
    <2>1. PICK e \in Candidates(u), r \in {x \in Rooms : Fresh(x)} :
            /\ ClaimPair(u, e, r)
            /\ matching' = matching \cup {e[1]}
            /\ peer' = [peer EXCEPT ![u] = e[1]]
            /\ claim' = [claim EXCEPT ![u] = r]
            /\ MatchGoto(u, IF ~Searching(u) THEN "removeSelf"
                            ELSE IF ~Searching(e[1]) THEN "removePeer"
                            ELSE "roomSelf")
      BY <1>2 DEF FindMatch
    <2>2. PICK pc \in {"removeSelf", "removePeer", "roomSelf"} : mpc' = [mpc EXCEPT ![u] = pc]
      BY <2>1 DEF MatchGoto
    <2>3. /\ e[1] \in Users /\ r \in Rooms /\ mpc[u] = "find" /\ peer[u] = None
          /\ claim[u] = None /\ \A v \in Users : claim[v] # r
          /\ userRoom' = [userRoom EXCEPT ![u] = r, ![e[1]] = r] /\ live' = live
          /\ UNCHANGED <<selfTodo, peerTodo>>
      BY <1>2, <2>1
      DEF FindMatch, Candidates, Fresh, InFlight, ClaimPair, Books, NothingYet, Typed, RedisTypes
    <2>4. NothingYet' /\ OwnClaims'
      BY <2>1, <2>2, <2>3 DEF Books, NothingYet, OwnClaims, Typed, MatchTypes
    <2>5. LocksSettle'
      BY <2>1, <2>2, <2>3, ConstantsAssumption DEF Books, LocksSettle, Typed, MatchTypes
    <2>6. Released'
      BY <2>1, <2>2, <2>3 DEF Books, Released, Typed, MatchTypes, RedisTypes
    <2>7. ClaimsSettle'
      <3> SUFFICES ASSUME NEW x \in Users, userRoom'[x] # None
                   PROVE  InFlight(userRoom[x])' \/ InRoom(x)'
        BY DEF ClaimsSettle, InFlight
      <3>1. CASE userRoom'[x] = r
        BY <3>1, <2>1 DEF InFlight, Typed, MatchTypes
      <3>2. CASE userRoom'[x] # r
        <4>1. userRoom'[x] = userRoom[x]
          BY <3>2, <2>3 DEF Typed, RedisTypes
        <4>2. CASE InRoom(x)
          BY <4>1, <4>2, <2>3 DEF InRoom
        <4>3. CASE InFlight(userRoom[x])
          BY <4>1, <4>3, <2>1, <2>3 DEF InFlight, Typed, MatchTypes
        <4>4. QED
          BY <4>1, <4>2, <4>3 DEF ClaimsSettle
      <3>3. QED
        BY <3>1, <3>2
    <2>8. QED
      BY <2>4, <2>5, <2>6, <2>7 DEF Books
  <1>3. CASE AbortReadsQueue(u) \/ AbortRemovesEntry(u)
    <2>1. /\ mpc[u] \in {"removeSelf", "removeBusy", "removePeer", "dropSelf", "dropBusy",
                         "dropPeer"}
          /\ UNCHANGED <<userRoom, live>>
      BY <1>3 DEF AbortReadsQueue, AbortRemovesEntry
    <2>2. PICK pc \in {"readd", "readClaim", "dropSelf", "dropBusy", "dropPeer"},
                 s \in Todo, o \in Todo :
            MatchStep(u, pc, s, o)
      <3>1. AfterRemoval(u) => \E pc \in {"readd", "readClaim"}, s \in Todo, o \in Todo :
                                   MatchStep(u, pc, s, o)
        BY <2>1 DEF AfterRemoval, Todo
      <3>2. QED
        BY <1>3, <3>1 DEF AbortReadsQueue, AbortRemovesEntry, Todo
    <2>3. pc \in AttemptPc \ {"idle", "find", "requeue"} /\ pc # "dropClaim"
      BY DEF AttemptPc
    <2>4. QED
      BY <2>1, <2>2, <2>3, InsideSettled
  <1>4. CASE CheckSelfRoom(u) \/ CheckPeerRoom(u)
    <2>1. PICK pc \in {"removeBusy", "roomPeer", "removePeer", "mint"} :
            MatchStep(u, pc, "no", "no")
      BY <1>4 DEF CheckSelfRoom, CheckPeerRoom
    <2>2. pc \in AttemptPc \ {"idle", "find", "requeue"} /\ pc # "dropClaim"
      BY DEF AttemptPc
    <2>3. QED
      BY <1>4, <2>1, <2>2, InsideSettled DEF CheckSelfRoom, CheckPeerRoom
  <1>5. CASE CreateRoom(u)
    <2>1. /\ Holding(u) /\ peer[u] \in Users /\ claim[u] \in Rooms
          /\ AttemptEnds(u, {u, peer[u]})
          /\ live' = [live EXCEPT ![claim[u]] = {u, peer[u]}]
      BY <1>5 DEF CreateRoom, Holding, Typed, MatchTypes, AttemptKnown
    <2>2. /\ userRoom' = userRoom /\ live[claim[u]] = {}
          /\ \A x \in Users : userRoom[x] = claim[u] => x \in {u, peer[u]}
      BY <1>5, <2>1 DEF CreateRoom, Exclusive, ClaimsHeld, Typed, RedisTypes
    <2>3. Books'
      BY <2>1, <2>2, AttemptEndsBooks
    <2>4. ClaimsSettle'
      <3> SUFFICES ASSUME NEW x \in Users, userRoom'[x] # None
                   PROVE  InFlight(userRoom[x])' \/ InRoom(x)'
        BY <2>2 DEF ClaimsSettle, InFlight
      <3>1. CASE InRoom(x) \/ userRoom[x] = claim[u]
        BY <3>1, <2>1, <2>2 DEF InRoom, Typed, RedisTypes
      <3>2. CASE InFlight(userRoom[x]) /\ userRoom[x] # claim[u]
        <4>1. PICK v \in Users : claim[v] = userRoom[x] /\ v # u
          BY <3>2 DEF InFlight
        <4>2. claim'[v] = claim[v]
          BY <4>1, <2>1 DEF AttemptEnds, Typed, MatchTypes
        <4>3. QED
          BY <4>1, <4>2, <2>2 DEF InFlight
      <3>3. QED
        BY <3>1, <3>2, <2>2 DEF ClaimsSettle
    <2>5. QED
      BY <2>3, <2>4
  <1>6. CASE ReadClaim(u)
    <2>1. Holding(u) /\ peer[u] \in Users
      BY <1>6 DEF ReadClaim, Holding, Typed, MatchTypes, AttemptKnown
    <2>2. userRoom[u] = claim[u] /\ userRoom[peer[u]] = claim[u]
      BY <2>1 DEF Exclusive, ClaimsHeld
    <2>3. MatchStep(u, "dropClaim", "drop", "drop") /\ UNCHANGED <<userRoom, live>>
      BY <1>6, <2>2 DEF ReadClaim
    <2>4. "dropClaim" \in AttemptPc \ {"idle", "find", "requeue"}
      BY DEF AttemptPc
    <2>5. QED
      BY <1>6, <2>3, <2>4, InsideSettled DEF ReadClaim
  <1>7. CASE DropClaim(u)
    <2>1. /\ Holding(u) /\ peer[u] \in Users /\ claim[u] \in Rooms
          /\ selfTodo[u] = "drop" /\ peerTodo[u] = "drop"
      BY <1>7 DEF DropClaim, Holding, Typed, MatchTypes, AttemptKnown, Books, Released
    <2>2. /\ userRoom' = [x \in Users |-> IF x \in {u, peer[u]} THEN None ELSE userRoom[x]]
          /\ live' = live
      BY <1>7, <2>1 DEF DropClaim
    <2>3. /\ \A x \in Users : userRoom'[x] = userRoom[x] \/ userRoom'[x] = None
          /\ \A x \in Users : userRoom'[x] # claim[u]
      BY <2>1, <2>2, ConstantsAssumption DEF Exclusive, ClaimsHeld
    <2>4. Books' /\ \A v \in Users : v # u => claim'[v] = claim[v]
      <3>1. CASE AttemptEnds(u, {u, peer[u]})
        <4>1. \A v \in Users : v # u => claim'[v] = claim[v]
          BY <3>1 DEF AttemptEnds, Typed, MatchTypes
        <4>2. QED
          BY <3>1, <4>1, <2>3, AttemptEndsBooks
      <3>2. CASE \E s, o : MatchStep(u, "requeue", s, o)
        <4>1. PICK s, o : MatchStep(u, "requeue", s, o)
          BY <3>2
        <4>2. "requeue" \in AttemptPc
          BY DEF AttemptPc
        <4>3. mpc[u] \notin {"idle", "find"}
          BY <1>7 DEF DropClaim
        <4>4. Books'
          BY <4>1, <4>2, <4>3, <2>3, MatchStepBooks
        <4>5. QED
          BY <4>1, <4>4 DEF MatchStep
      <3>3. QED
        BY <1>7, <3>1, <3>2 DEF DropClaim
    <2>5. ClaimsSettle'
      BY <2>2, <2>3, <2>4, ClaimsStay
    <2>6. QED
      BY <2>4, <2>5
  <1>8. CASE RequeueCheck(u) \/ RequeueAdd(u)
    <2>1. mpc[u] \in {"readd", "requeue"} /\ UNCHANGED <<userRoom, live>>
      BY <1>8 DEF RequeueCheck, RequeueAdd
    <2>2. PICK self \in Todo, other \in Todo : Requeued(u, self, other)
      <3>1. "no" \in Todo /\ "add" \in Todo /\ selfTodo[u] \in Todo /\ peerTodo[u] \in Todo
        BY DEF Todo, Typed, MatchTypes
      <3>2. QED
        BY <1>8, <3>1 DEF RequeueCheck, RequeueAdd
    <2>3. QED
      BY <2>1, <2>2, RequeuedBooks
  <1>9. QED
    BY <1>1, <1>2, <1>3, <1>4, <1>5, <1>6, <1>7, <1>8 DEF Attempt

\* deleteRoom takes the bindings of everybody who is bound to the room.
LEMMA DestroySettled ==
  ASSUME Typed, BoundInRoom, ClaimsSettle, NEW r \in Rooms, DestroyRoom(r), UNCHANGED claim
  PROVE  /\ ClaimsSettle'
         /\ \A x \in Users : userRoom'[x] = userRoom[x] \/ userRoom'[x] = None
  <1>1. \A x \in Users : userRoom'[x] = IF x \in live[r] THEN None ELSE userRoom[x]
    BY DEF DestroyRoom
  <1>2. ASSUME NEW x \in Users, userRoom'[x] # None
        PROVE  InFlight(userRoom[x])' \/ InRoom(x)'
    <2>1. x \notin live[r] /\ userRoom'[x] = userRoom[x]
      BY <1>1, <1>2
    <2>2. InRoom(x) => userRoom[x] # r
      BY <2>1 DEF BoundInRoom
    <2>3. InRoom(x) => InRoom(x)'
      BY <2>1, <2>2 DEF InRoom, DestroyRoom, Typed, RedisTypes
    <2>4. QED
      BY <2>1, <2>3, <1>2 DEF ClaimsSettle, InFlight
  <1>3. ClaimsSettle'
    BY <1>1, <1>2 DEF ClaimsSettle, InFlight
  <1>4. QED
    BY <1>1, <1>3

\* Steps that leave both keys and the claims alone.
LEMMA AsideSettled ==
  ASSUME Typed, Books, ClaimsSettle,
         UNCHANGED <<userRoom, live, peer, claim, selfTodo, peerTodo>>,
         matching' \subseteq Users,
         \A v \in Users : \/ mpc'[v] = mpc[v] /\ (v \in matching' => v \in matching)
                          \/ mpc[v] = "idle" /\ mpc'[v] = "find"
  PROVE  Books' /\ ClaimsSettle'
  BY OtherBooks DEF ClaimsSettle, InFlight, InRoom

LEMMA SocketOpSettled ==
  ASSUME Typed, Books, BoundInRoom, ClaimsSettle, NEW u \in Users, SocketOp(u)
  PROVE  Books' /\ ClaimsSettle'
  <1> USE DEF redisVars, matchVars, Typed, MatchTypes
  <1>1. CASE LeaveDeletes(u)
    <2>1. opRoom[u] \in Rooms /\ DestroyRoom(opRoom[u]) /\ UNCHANGED matchVars
      BY <1>1 DEF LeaveDeletes, OpTypes, LeaveKnown
    <2>2. ClaimsSettle' /\ \A x \in Users : userRoom'[x] = userRoom[x] \/ userRoom'[x] = None
      BY <2>1, DestroySettled
    <2>3. QED
      BY <2>1, <2>2, OtherBooks
  <1>2. CASE JoinChecksQueue(u) \/ JoinTries(u)
    <2>1. /\ UNCHANGED <<userRoom, live, peer, claim, selfTodo, peerTodo>>
          /\ ScriptAnswered(u) /\ (TryFindMatch(u) \/ UNCHANGED <<matching, mpc>>)
      BY <1>2 DEF JoinChecksQueue, JoinTries
    <2>2. CASE UNCHANGED <<matching, mpc>>
      BY <2>1, <2>2, AsideSettled
    <2>3. CASE u \notin matching /\ matching' = matching \cup {u} /\ MatchGoto(u, "find")
      <3>1. mpc[u] = "idle" /\ mpc' = [mpc EXCEPT ![u] = "find"]
        BY <2>1, <2>3 DEF ScriptAnswered, MatchGoto
      <3>2. QED
        BY <2>1, <2>3, <3>1, AsideSettled
    <2>4. QED
      BY <2>1, <2>2, <2>3 DEF TryFindMatch
  <1>3. CASE BeginJoin(u) \/ JoinChecksRoom(u) \/ JoinAdds(u) \/ BeginCancel(u)
             \/ CancelReadsQueue(u) \/ CancelRemovesEntry(u) \/ BeginLeave(u)
             \/ LeaveLocks(u) \/ LeaveUnlocks(u) \/ LeaveEnds(u)
    <2>1. UNCHANGED <<userRoom, live>> /\ UNCHANGED matchVars
      BY <1>3 DEF BeginJoin, JoinChecksRoom, JoinAdds, BeginCancel, CancelReadsQueue,
                  CancelRemovesEntry, BeginLeave, LeaveLocks, LeaveUnlocks, LeaveEnds
    <2>2. QED
      BY <2>1, AsideSettled
  <1>4. QED
    BY <1>1, <1>2, <1>3 DEF SocketOp

LEMMA CleanupSettled ==
  ASSUME Typed, Books, BoundInRoom, ClaimsSettle, NEW u \in Users, Cleanup(u)
  PROVE  Books' /\ ClaimsSettle'
  <1> USE DEF redisVars, matchVars, Typed, MatchTypes
  <1>1. CASE CleanDeletes(u)
    <2>1. cRoom[u] \in Rooms /\ DestroyRoom(cRoom[u]) /\ UNCHANGED matchVars
      BY <1>1 DEF CleanDeletes, CleanTypes, CleanupKnown
    <2>2. ClaimsSettle' /\ \A x \in Users : userRoom'[x] = userRoom[x] \/ userRoom'[x] = None
      BY <2>1, DestroySettled
    <2>3. QED
      BY <2>1, <2>2, OtherBooks
  <1>2. CASE ~CleanDeletes(u)
    <2>1. UNCHANGED <<userRoom, live>> /\ UNCHANGED matchVars
      BY <1>2 DEF Cleanup, CleanReadsQueue, CleanRemovesEntry, CleanChecksRoom, CleanLocks,
                  CleanUnlocks
    <2>2. QED
      BY <2>1, AsideSettled
  <1>3. QED
    BY <1>1, <1>2

LEMMA NextSettled ==
  ASSUME ClaimMayLapse = FALSE, FailingCalls = {}, Typed, Exclusive, Settled, [Next]_vars
  PROVE  Settled'
  <1> USE DEF redisVars, matchVars, Settled
  <1>1. CASE Tick
    <2>1. /\ UNCHANGED <<userRoom, live, peer, claim, selfTodo, peerTodo>>
          /\ \E chosen \in SUBSET Eligible :
               /\ matching' = matching \cup chosen
               /\ mpc' = [v \in Users |-> IF v \in chosen THEN "find" ELSE mpc[v]]
      BY <1>1 DEF Tick
    <2>2. /\ matching' \subseteq Users
          /\ \A v \in Users : \/ mpc'[v] = mpc[v] /\ (v \in matching' => v \in matching)
                              \/ mpc[v] = "idle" /\ mpc'[v] = "find"
      BY <2>1 DEF Eligible, Typed, MatchTypes
    <2>3. Books' /\ ClaimsSettle'
      BY <2>1, <2>2, AsideSettled
    <2>4. QED
      BY <2>3, NextShape, ShapePaired
  <1>2. CASE QueueExpires \/ (\E u \in Users : Receive(u) \/ Disconnect(u)) \/ UNCHANGED vars
    <2>1. UNCHANGED <<userRoom, live>> /\ UNCHANGED matchVars
      BY <1>2 DEF QueueExpires, Receive, Disconnect, vars
    <2>2. Books' /\ ClaimsSettle'
      BY <2>1, AsideSettled DEF Typed, MatchTypes
    <2>3. QED
      BY <2>2, NextShape, ShapePaired
  <1>3. ASSUME NEW u \in Users, ClaimExpires(u)
        PROVE  Settled'
    <2>1. /\ UNCHANGED live /\ UNCHANGED matchVars
          /\ \A x \in Users : userRoom'[x] = userRoom[x] \/ userRoom'[x] = None
      BY <1>3 DEF ClaimExpires, Typed, RedisTypes
    <2>2. Books' /\ ClaimsSettle'
      BY <2>1, OtherBooks, ClaimsStay DEF Typed, MatchTypes
    <2>3. QED
      BY <2>2, NextShape, ShapePaired
  <1>4. ASSUME NEW u \in Users, Fault(u)
        PROVE  FALSE
    BY <1>4 DEF Fault, CreateRoomFails, RequeueFails, FindReplyLost, JoinAddFails, Fails
  <1>5. QED
    BY <1>1, <1>2, <1>3, <1>4, AttemptSettled, SocketOpSettled, CleanupSettled, NextShape,
       ShapePaired DEF Next

\* Whichever way an attempt of match.handler.ts ends, in a room, on one of its abort paths
\* or by its script finding nobody, it takes its claims in Redis and its two locks in
\* matchingInProgress with it, for any number of users, rooms and requests.
THEOREM AttemptsSettled ==
  ASSUME ClaimMayLapse = FALSE, FailingCalls = {}
  PROVE  Spec => []AttemptsSettle
  <1>1. Init => Typed /\ Exclusive /\ Settled
    BY InitTyped, InitExclusive, InitSettled
  <1>2. Typed /\ Exclusive /\ Settled /\ [Next]_vars => (Typed /\ Exclusive /\ Settled)'
    BY NextTyped, NextExclusive, NextSettled
  <1>3. Settled => AttemptsSettle
    BY DEF Settled, Books, AttemptsSettle
  <1>4. QED
    BY <1>1, <1>2, <1>3, PTL DEF Spec

-----------------------------------------------------------------------------
(* Nobody is left talking to a room that is gone.                           *)

\* A socket that is there and active, or about to be, is in the registry, where handlers
\* that take its room away find it; one that is being cleaned up is not there.
Known(u) == connected[u] => registered[u]
SocketsKnown ==
    /\ \A u \in Users : state[u] = "active" => Known(u)
    /\ \A u \in Users : Committed(u) => Known(u) /\ Known(peer[u])
    /\ \A u \in Users : cpc[u] # "none" => ~connected[u]

\* No handler goes for a room id that is still only a claim.
NewRooms == \A u, p \in Users : Holding(u) => opRoom[p] # claim[u] /\ cRoom[p] # claim[u]

\* Whoever is about to delete a room knows both its members: itself and the partner.
RoomSeen ==
    \A p \in Users :
        /\ opc[p] \in {"leaveLock", "leaveDelete"} => live[opRoom[p]] \subseteq {p, opPeer[p]}
        /\ cpc[p] \in {"lock", "delete"} => live[cRoom[p]] \subseteq {p, cPeer[p]}

\* Who has just deleted a room tells the partner; a handler that is only on its way to a
\* room, which ToldBy counts too, may find it gone and tell nobody.
Told(u) ==
    \E p \in Users : \/ opc[p] = "leaveUnlock" /\ opPeer[p] = u
                     \/ cpc[p] = "unlock" /\ cPeer[p] = u
Seat(u) ==
    \/ roomId[u] # None /\ u \in live[roomId[u]]
    \/ opc[u] \in {"leaveUnlock", "leaveEnd"}
    \/ Told(u)
ActiveIsHeard == \A u \in Users : connected[u] /\ state[u] = "active" => Seat(u)

Seated == SocketsKnown /\ NewRooms /\ RoomSeen /\ ActiveIsHeard

LeavePc == {"leaveLock", "leaveDelete", "leaveUnlock", "leaveEnd"}

LEMMA InitSeated == Init => Seated
  BY DEF Init, Seated, SocketsKnown, NewRooms, RoomSeen, ActiveIsHeard, Committed, Holding

\* What an attempt leaves alone: departures of every kind, and who is connected.
LEMMA AttemptFrame ==
  ASSUME Typed, NEW u \in Users, Attempt(u) \/ Fault(u)
  PROVE  /\ UNCHANGED <<connected, registered, opPeer, opRoom, cpc, cPeer, cRoom>>
         /\ \A p \in Users : opc'[p] = opc[p] \/ {opc[p], opc'[p]} \cap LeavePc = {}
         /\ CreateRoom(u) \/ UNCHANGED <<state, roomId>>
         /\ \/ live' = live
            \/ Committed(u) /\ live' = [live EXCEPT ![claim[u]] = {u, peer[u]}]
  <1> USE DEF redisVars, socketVars, cleanVars, opVars, matchVars
  <1>1. \A S : AttemptEnds(u, S)
          => /\ UNCHANGED <<opPeer, opRoom>>
             /\ \A p \in Users : opc'[p] = opc[p] \/ {opc[p], opc'[p]} \cap LeavePc = {}
    BY DEF AttemptEnds, LeavePc, Typed, OpTypes
  <1>2. \A self, other : Requeued(u, self, other)
          => /\ UNCHANGED <<opPeer, opRoom>>
             /\ \A p \in Users : opc'[p] = opc[p] \/ {opc[p], opc'[p]} \cap LeavePc = {}
    BY <1>1 DEF Requeued, MatchStep
  <1>3. CASE Attempt(u)
    <2>1. UNCHANGED <<connected, registered, cpc, cPeer, cRoom>>
          /\ (CreateRoom(u) \/ UNCHANGED <<live, state, roomId>>)
      BY <1>3 DEF Attempt, FindNone, FindMatch, AbortReadsQueue, AbortRemovesEntry,
                  CheckSelfRoom, CheckPeerRoom, CreateRoom, ReadClaim, DropClaim, RequeueCheck,
                  RequeueAdd
    <2>2. CreateRoom(u) => /\ Committed(u)
                           /\ live' = [live EXCEPT ![claim[u]] = {u, peer[u]}]
      BY DEF CreateRoom, Committed
    <2>3. CASE FindNone(u) \/ CreateRoom(u) \/ DropClaim(u)
      BY <2>1, <2>2, <2>3, <1>1 DEF FindNone, CreateRoom, DropClaim, MatchStep
    <2>4. CASE FindMatch(u)
      BY <2>1, <2>4, <2>2 DEF FindMatch
    <2>5. CASE AbortReadsQueue(u) \/ AbortRemovesEntry(u)
      <3>1. AfterRemoval(u) => UNCHANGED opVars
        BY <2>5 DEF AbortReadsQueue, AbortRemovesEntry, AfterRemoval, MatchStep
      <3>2. UNCHANGED opVars
        BY <2>5, <3>1 DEF AbortReadsQueue, AbortRemovesEntry, MatchStep
      <3>3. QED
        BY <2>1, <2>2, <3>2
    <2>6. CASE CheckSelfRoom(u) \/ CheckPeerRoom(u) \/ ReadClaim(u)
      BY <2>1, <2>6, <2>2 DEF CheckSelfRoom, CheckPeerRoom, ReadClaim, MatchStep
    <2>7. CASE RequeueCheck(u) \/ RequeueAdd(u)
      BY <2>1, <2>7, <2>2, <1>2 DEF RequeueCheck, RequeueAdd
    <2>8. QED
      BY <1>3, <2>3, <2>4, <2>5, <2>6, <2>7 DEF Attempt
  <1>4. CASE CreateRoomFails(u)
    BY <1>1, <1>4 DEF CreateRoomFails, Committed
  <1>5. CASE RequeueFails(u)
    BY <1>1, <1>2, <1>5 DEF RequeueFails
  <1>6. CASE FindReplyLost(u)
    BY <1>1, <1>6 DEF FindReplyLost
  <1>7. CASE JoinAddFails(u)
    BY <1>7 DEF JoinAddFails, OpGoto, LeavePc, Typed, OpTypes
  <1>8. QED
    BY <1>3, <1>4, <1>5, <1>6, <1>7 DEF Fault

\* An attempt goes on to make a room only for a pair it found searching.
LEMMA AttemptCommits ==
  ASSUME Typed, NEW u \in Users, Attempt(u) \/ Fault(u), NEW v \in Users, Committed(v)'
  PROVE  /\ peer'[v] \in Users
         /\ \/ Committed(v) /\ peer'[v] = peer[v]
            \/ Searching(v) /\ Searching(peer'[v])
  <1> USE DEF Typed, MatchTypes, Committed
  <1>1. \A S : AttemptEnds(u, S) => Committed(v) /\ peer'[v] = peer[v]
    BY DEF AttemptEnds, MatchGoto
  <1>2. \A pc, self, other : MatchStep(u, pc, self, other) =>
          peer'[v] = peer[v] /\ (Committed(v) \/ (v = u /\ pc \in {"roomSelf", "roomPeer", "mint"}))
    BY DEF MatchStep, MatchGoto
  <1>3. \A self, other : Requeued(u, self, other) /\ mpc[u] \in {"readd", "requeue"}
          => Committed(v) /\ peer'[v] = peer[v]
    BY <1>1, <1>2 DEF Requeued
  <1>4. Committed(v) => peer[v] \in Users
    BY DEF AttemptKnown
  <1>5. CASE FindNone(u) \/ CreateRoom(u) \/ CreateRoomFails(u) \/ FindReplyLost(u)
    BY <1>1, <1>4, <1>5 DEF FindNone, CreateRoom, CreateRoomFails, FindReplyLost
  <1>6. CASE FindMatch(u)
    <2>1. PICK e \in Candidates(u) :
            /\ peer' = [peer EXCEPT ![u] = e[1]]
            /\ MatchGoto(u, IF ~Searching(u) THEN "removeSelf"
                            ELSE IF ~Searching(e[1]) THEN "removePeer"
                            ELSE "roomSelf")
      BY <1>6 DEF FindMatch
    <2>2. e[1] \in Users
      BY DEF Candidates, RedisTypes
    <2>3. QED
      BY <2>1, <2>2, <1>4 DEF MatchGoto
  <1>7. CASE AbortReadsQueue(u) \/ AbortRemovesEntry(u)
    <2>1. mpc[u] \in {"removeSelf", "removeBusy", "removePeer", "dropSelf", "dropBusy",
                      "dropPeer"}
      BY <1>7 DEF AbortReadsQueue, AbortRemovesEntry
    <2>2. \E pc \in {"readd", "readClaim", "dropSelf", "dropBusy", "dropPeer"},
             s \in Todo, o \in Todo : MatchStep(u, pc, s, o)
      <3>1. AfterRemoval(u) => \E pc \in {"readd", "readClaim"}, s \in Todo, o \in Todo :
                                   MatchStep(u, pc, s, o)
        BY <2>1 DEF AfterRemoval, Todo
      <3>2. QED
        BY <1>7, <3>1 DEF AbortReadsQueue, AbortRemovesEntry, Todo
    <2>3. QED
      BY <2>2, <1>2, <1>4
  <1>8. CASE CheckSelfRoom(u) \/ CheckPeerRoom(u)
    BY <1>2, <1>4, <1>8 DEF CheckSelfRoom, CheckPeerRoom
  <1>9. CASE ReadClaim(u)
    BY <1>2, <1>4, <1>9 DEF ReadClaim
  <1>10. CASE DropClaim(u)
    BY <1>1, <1>2, <1>4, <1>10 DEF DropClaim
  <1>11. CASE RequeueCheck(u) \/ RequeueAdd(u) \/ RequeueFails(u)
    BY <1>1, <1>3, <1>4, <1>11 DEF RequeueCheck, RequeueAdd, RequeueFails
  <1>12. CASE JoinAddFails(u)
    BY <1>4, <1>12 DEF JoinAddFails, matchVars
  <1>13. QED
    BY <1>5, <1>6, <1>7, <1>8, <1>9, <1>10, <1>11, <1>12 DEF Attempt, Fault

\* The id of a claim is its attempt's own or one that nobody knew.
LEMMA AttemptHolds ==
  ASSUME Typed, NEW u \in Users, Attempt(u) \/ Fault(u), NEW v \in Users
  PROVE  Kept(v) \/ Fresh(claim'[v])
  <1> USE DEF redisVars, matchVars
  <1>1. CASE FindMatch(u)
    <2>1. PICK r \in Rooms, pc \in AttemptPc :
            Fresh(r) /\ claim' = [claim EXCEPT ![u] = r] /\ MatchGoto(u, pc)
            /\ (v # u => peer'[v] = peer[v])
      BY <1>1 DEF FindMatch, AttemptPc, Typed, MatchTypes
    <2>2. CASE v = u
      BY <2>1, <2>2 DEF Typed, MatchTypes
    <2>3. CASE v # u
      BY <2>1, <2>3 DEF MatchGoto, Kept, Holding, Typed, MatchTypes
    <2>4. QED
      BY <2>2, <2>3
  <1>2. CASE FindNone(u) \/ CreateRoom(u) \/ CreateRoomFails(u) \/ FindReplyLost(u)
    BY <1>2, AttemptEndsKept DEF FindNone, CreateRoom, CreateRoomFails, FindReplyLost
  <1>3. CASE AbortReadsQueue(u) \/ AbortRemovesEntry(u)
    <2>1. Holding(u) /\ \E pc, self, other : MatchStep(u, pc, self, other)
      BY <1>3 DEF AbortReadsQueue, AbortRemovesEntry, AfterRemoval, Holding
    <2>2. QED
      BY <2>1, MatchStepKept
  <1>4. CASE CheckSelfRoom(u) \/ CheckPeerRoom(u) \/ ReadClaim(u)
    <2>1. Holding(u) /\ \E pc, self, other : MatchStep(u, pc, self, other)
      BY <1>4 DEF CheckSelfRoom, CheckPeerRoom, ReadClaim, Holding
    <2>2. QED
      BY <2>1, MatchStepKept
  <1>5. CASE DropClaim(u)
    <2>1. Holding(u)
      BY <1>5 DEF DropClaim, Holding
    <2>2. QED
      BY <1>5, <2>1, MatchStepKept, AttemptEndsKept DEF DropClaim
  <1>6. CASE RequeueCheck(u) \/ RequeueAdd(u)
    BY <1>6, RequeuedKept DEF RequeueCheck, RequeueAdd
  <1>7. CASE RequeueFails(u)
    BY <1>7, RequeuedKept, AttemptEndsKept DEF RequeueFails
  <1>8. CASE JoinAddFails(u)
    BY <1>8, UntouchedKept DEF JoinAddFails
  <1>9. QED
    BY <1>1, <1>2, <1>3, <1>4, <1>5, <1>6, <1>7, <1>8 DEF Attempt, Fault

LEMMA AttemptSeated ==
  ASSUME Typed, Exclusive, Seated, NEW u \in Users, Attempt(u) \/ Fault(u)
  PROVE  Seated'
  <1>0. /\ UNCHANGED <<connected, registered, opPeer, opRoom, cpc, cPeer, cRoom>>
        /\ \A p \in Users : opc'[p] = opc[p] \/ {opc[p], opc'[p]} \cap LeavePc = {}
        /\ CreateRoom(u) \/ UNCHANGED <<state, roomId>>
        /\ \/ live' = live
           \/ Committed(u) /\ live' = [live EXCEPT ![claim[u]] = {u, peer[u]}]
    BY AttemptFrame
  <1>1. /\ SocketsKnown /\ NewRooms /\ RoomSeen /\ ActiveIsHeard
        /\ (Committed(u) => Holding(u) /\ peer[u] \in Users /\ claim[u] \in Rooms
                            /\ live[claim[u]] = {})
    BY DEF Seated, Committed, Holding, Typed, MatchTypes, AttemptKnown, Exclusive, ClaimsHeld
  <1>2. SocketsKnown'
    <2>1. ASSUME NEW v \in Users, state'[v] = "active"
          PROVE  Known(v)'
      <3>1. CASE CreateRoom(u)
        <4>1. state'[v] = state[v] \/ v \in {u, peer[u]}
          BY <3>1 DEF CreateRoom, Typed, SocketTypes
        <4>2. Committed(u)
          BY <3>1 DEF CreateRoom, Committed
        <4>3. QED
          BY <4>1, <4>2, <2>1, <1>0, <1>1 DEF SocketsKnown, Known
      <3>2. CASE UNCHANGED <<state, roomId>>
        BY <3>2, <2>1, <1>0, <1>1 DEF SocketsKnown, Known
      <3>3. QED
        BY <3>1, <3>2, <1>0
    <2>2. ASSUME NEW v \in Users, Committed(v)'
          PROVE  Known(v)' /\ Known(peer[v])'
      <3>1. \/ Committed(v) /\ peer'[v] = peer[v]
            \/ Searching(v) /\ Searching(peer'[v])
        BY <2>2, AttemptCommits
      <3>2. QED
        BY <3>1, <1>0, <1>1 DEF SocketsKnown, Known, Searching
    <2>3. QED
      BY <2>1, <2>2, <1>0, <1>1 DEF SocketsKnown
  <1>3. NewRooms'
    <2> SUFFICES ASSUME NEW v \in Users, NEW p \in Users, Holding(v)'
                 PROVE  opRoom[p] # claim'[v] /\ cRoom[p] # claim'[v]
      BY <1>0 DEF NewRooms
    <2>1. (Holding(v) /\ claim'[v] = claim[v]) \/ Fresh(claim'[v])
      BY AttemptHolds DEF Kept
    <2>2. QED
      BY <2>1, <1>1 DEF NewRooms, Fresh
  <1>4. RoomSeen'
    <2> SUFFICES ASSUME NEW p \in Users
                 PROVE  /\ opc'[p] \in {"leaveLock", "leaveDelete"}
                             => live'[opRoom[p]] \subseteq {p, opPeer[p]}
                        /\ cpc[p] \in {"lock", "delete"}
                             => live'[cRoom[p]] \subseteq {p, cPeer[p]}
      BY <1>0 DEF RoomSeen
    <2>1. \A r \in Rooms : r = claim[u] \/ live'[r] = live[r]
      BY <1>0 DEF Typed, RedisTypes
    <2>2. opc'[p] \in {"leaveLock", "leaveDelete"}
            => opc'[p] = opc[p] /\ live'[opRoom[p]] = live[opRoom[p]]
      BY <2>1, <1>0, <1>1 DEF LeavePc, NewRooms, Typed, OpTypes, LeaveKnown
    <2>3. cpc[p] \in {"lock", "delete"} => live'[cRoom[p]] = live[cRoom[p]]
      BY <2>1, <1>0, <1>1 DEF NewRooms, Typed, CleanTypes, CleanupKnown
    <2>4. QED
      BY <2>2, <2>3, <1>1 DEF RoomSeen
  <1>5. ActiveIsHeard'
    <2> SUFFICES ASSUME NEW v \in Users, connected[v], state'[v] = "active"
                 PROVE  Seat(v)'
      BY <1>0 DEF ActiveIsHeard
    <2>1. ASSUME state[v] = "active", roomId'[v] = roomId[v]
          PROVE  Seat(v)'
      <3>1. CASE roomId[v] # None /\ v \in live[roomId[v]]
        <4>1. v \in live'[roomId[v]]
          BY <3>1, <1>0, <1>1 DEF Typed, RedisTypes, SocketTypes
        <4>2. QED
          BY <4>1, <3>1, <2>1 DEF Seat
      <3>2. CASE opc[v] \in {"leaveUnlock", "leaveEnd"}
        BY <3>2, <1>0 DEF Seat, LeavePc
      <3>3. CASE Told(v)
        BY <3>3, <1>0 DEF Seat, Told, LeavePc
      <3>4. QED
        BY <3>1, <3>2, <3>3, <2>1, <1>1 DEF ActiveIsHeard, Seat
    <2>2. CASE CreateRoom(u)
      <3>1. CASE v \in {u, peer[u]}
        <4>1. roomId'[v] = claim[u] /\ live'[claim[u]] = {u, peer[u]} /\ claim[u] # None
          BY <3>1, <2>2, <1>1, ConstantsAssumption
          DEF CreateRoom, Committed, Typed, SocketTypes, RedisTypes
        <4>2. QED
          BY <4>1, <3>1 DEF Seat
      <3>2. CASE v \notin {u, peer[u]}
        <4>1. state[v] = "active" /\ roomId'[v] = roomId[v]
          BY <3>2, <2>2 DEF CreateRoom, Typed, SocketTypes
        <4>2. QED
          BY <4>1, <2>1
      <3>3. QED
        BY <3>1, <3>2
    <2>3. CASE UNCHANGED <<state, roomId>>
      BY <2>1, <2>3
    <2>4. QED
      BY <2>2, <2>3, <1>0
  <1>6. QED
    BY <1>2, <1>3, <1>4, <1>5 DEF Seated

\* Telling the partner: whoever was heard of only from this handler is idle now.
LEMMA PartnerIdled ==
  ASSUME Typed, SocketsKnown, NEW p, PartnerIdle(p)
  PROVE  /\ \A v \in Users : state'[v] = "active" => state[v] = "active" /\ roomId'[v] = roomId[v]
         /\ p \in Users /\ connected[p] => state'[p] # "active"
  BY DEF PartnerIdle, SocketsKnown, Known, Typed, SocketTypes

\* Steps of a socket's chain or of a cleanup that leave rooms, claims and departures alone.
LEMMA QuietSeated ==
  ASSUME Typed, Seated,
         UNCHANGED <<live, opPeer, opRoom, cPeer, cRoom, peer, claim>>,
         \A v \in Users : Holding(v)' => Holding(v),
         \A v \in Users : Committed(v)' => Committed(v),
         \A p \in Users : opc'[p] = opc[p] \/ {opc[p], opc'[p]} \cap LeavePc = {},
         \A p \in Users : \/ cpc'[p] = cpc[p] /\ (connected'[p] => connected[p])
                          \/ /\ ~connected'[p]
                             /\ {cpc[p], cpc'[p]} \cap {"lock", "delete", "unlock"} = {},
         \A v \in Users : connected'[v] => connected[v] /\ (registered[v] => registered'[v]),
         \A v \in Users : state'[v] = "active" => state[v] = "active" /\ roomId'[v] = roomId[v]
  PROVE  Seated'
  <1>1. SocketsKnown'
    BY DEF Seated, SocketsKnown, Known, Committed, Typed, MatchTypes, AttemptKnown
  <1>2. NewRooms'
    BY DEF Seated, NewRooms
  <1>3. RoomSeen'
    BY DEF Seated, RoomSeen, LeavePc
  <1>4. ActiveIsHeard'
    <2> SUFFICES ASSUME NEW v \in Users, connected'[v], state'[v] = "active"
                 PROVE  Seat(v)'
      BY DEF ActiveIsHeard
    <2>1. Seat(v) /\ roomId'[v] = roomId[v]
      BY DEF Seated, ActiveIsHeard
    <2>2. Told(v) => Told(v)'
      BY DEF Told, LeavePc
    <2>3. QED
      BY <2>1, <2>2 DEF Seat, LeavePc
  <1>5. QED
    BY <1>1, <1>2, <1>3, <1>4 DEF Seated

\* A join, a cancel, and a leave that deletes nothing.
LEMMA SocketOpSeated ==
  ASSUME Typed, Exclusive, BoundInRoom, Pairs, Seated, NEW u \in Users, SocketOp(u)
  PROVE  Seated'
  <1> USE DEF redisVars, socketVars, matchVars, opVars, cleanVars
  <1>0. SocketsKnown /\ NewRooms /\ RoomSeen /\ ActiveIsHeard
    BY DEF Seated
  <1>1. CASE BeginJoin(u) \/ JoinChecksRoom(u) \/ JoinAdds(u) \/ BeginCancel(u)
             \/ CancelReadsQueue(u) \/ CancelRemovesEntry(u)
    <2>1. \E pc \in OpPc \ LeavePc : opc[u] \notin LeavePc /\ OpGoto(u, pc)
      BY <1>1 DEF BeginJoin, JoinChecksRoom, JoinAdds, BeginCancel, CancelReadsQueue,
                  CancelRemovesEntry, StartsNext, LeavePc, OpPc
    <2>2. /\ UNCHANGED <<live, connected, opPeer, opRoom, cpc, cPeer, cRoom, mpc, peer, claim>>
          /\ registered' = registered \/ registered' = [registered EXCEPT ![u] = TRUE]
      BY <1>1 DEF BeginJoin, JoinChecksRoom, JoinAdds, BeginCancel, CancelReadsQueue,
                  CancelRemovesEntry
    <2>3. /\ \A p \in Users : opc'[p] = opc[p] \/ {opc[p], opc'[p]} \cap LeavePc = {}
          /\ \A v \in Users : registered[v] => registered'[v]
      <3>1. \A p \in Users : opc'[p] = opc[p] \/ {opc[p], opc'[p]} \cap LeavePc = {}
        BY <2>1 DEF OpGoto, Typed, OpTypes
      <3>2. \A v \in Users : registered[v] => registered'[v]
        BY <2>2 DEF Typed, SocketTypes
      <3>3. QED
        BY <3>1, <3>2
    <2>4. \A v \in Users : state'[v] = "active" => state[v] = "active" /\ roomId'[v] = roomId[v]
      BY <1>1 DEF BeginJoin, JoinChecksRoom, JoinAdds, BeginCancel, CancelReadsQueue,
                  CancelRemovesEntry, Typed, SocketTypes
    <2>5. QED
      BY <2>2, <2>3, <2>4, QuietSeated DEF Holding, Committed
  <1>2. CASE JoinChecksQueue(u) \/ JoinTries(u)
    <2>1. /\ UNCHANGED <<live, connected, registered, state, roomId, opPeer, opRoom, cpc,
                         cPeer, cRoom, peer, claim>>
          /\ \A p \in Users : opc'[p] = opc[p] \/ {opc[p], opc'[p]} \cap LeavePc = {}
          /\ \A v \in Users : mpc'[v] = mpc[v] \/ mpc'[v] = "find"
      BY <1>2 DEF JoinChecksQueue, JoinTries, TryFindMatch, MatchGoto, OpGoto, LeavePc,
                  Typed, OpTypes, MatchTypes
    <2>2. QED
      BY <2>1, QuietSeated DEF Holding, Committed
  <1>3. CASE BeginLeave(u)
    <2>1. /\ UNCHANGED <<live, userRoom, connected, registered, state, roomId, cpc, cPeer,
                         cRoom, mpc, peer, claim>>
          /\ opc[u] = "none"
      BY <1>3 DEF BeginLeave, StartsNext
    <2>2. CASE UNCHANGED <<opc, opRoom, opPeer>>
      BY <2>1, <2>2, QuietSeated DEF Holding, Committed
    <2>3. CASE /\ InRoom(u) /\ OpGoto(u, "leaveLock")
               /\ opRoom' = [opRoom EXCEPT ![u] = userRoom[u]]
               /\ \E p \in live[userRoom[u]] \ {u} : opPeer' = [opPeer EXCEPT ![u] = p]
      <3>1. PICK p \in live[userRoom[u]] \ {u} : opPeer' = [opPeer EXCEPT ![u] = p]
        BY <2>3
      <3>2. userRoom[u] \in Rooms /\ live[userRoom[u]] # {} /\ u \in live[userRoom[u]]
        BY <2>3 DEF InRoom, BoundInRoom, Typed, RedisTypes
      <3>3. live[userRoom[u]] = {u, p}
        BY <3>2 DEF Pairs
      <3>4. SocketsKnown'
        BY <2>1, <1>0 DEF SocketsKnown, Known, Committed
      <3>5. NewRooms'
        <4>1. \A v \in Users : Holding(v) => claim[v] # userRoom[u]
          BY <3>2 DEF Exclusive, ClaimsHeld
        <4>2. \A q \in Users : opRoom'[q] = opRoom[q] \/ opRoom'[q] = userRoom[u]
          BY <2>3 DEF Typed, OpTypes
        <4>3. QED
          BY <4>1, <4>2, <2>1, <1>0 DEF NewRooms, Holding
      <3>6. RoomSeen'
        BY <2>1, <2>3, <3>1, <3>3, <1>0 DEF RoomSeen, OpGoto, Typed, OpTypes
      <3>7. ActiveIsHeard'
        <4>1. \A v \in Users : Told(v) => Told(v)'
          BY <2>1, <2>3, <3>1 DEF Told, OpGoto, Typed, OpTypes
        <4>2. \A v \in Users : opc[v] \in {"leaveUnlock", "leaveEnd"} => opc'[v] = opc[v]
          BY <2>1, <2>3 DEF OpGoto, Typed, OpTypes
        <4>3. QED
          BY <4>1, <4>2, <2>1, <1>0 DEF ActiveIsHeard, Seat
      <3>8. QED
        BY <3>4, <3>5, <3>6, <3>7 DEF Seated
    <2>4. QED
      BY <1>3, <2>2, <2>3 DEF BeginLeave
  <1>4. CASE LeaveLocks(u)
    <2>1. /\ UNCHANGED <<live, connected, registered, opPeer, opRoom, cpc, cPeer, cRoom, mpc,
                         peer, claim>>
          /\ opc[u] = "leaveLock"
          /\ \/ OpGoto(u, "leaveDelete") /\ UNCHANGED <<state, roomId>>
             \/ OpGoto(u, "leaveEnd") /\ PartnerIdle(opPeer[u])
      BY <1>4 DEF LeaveLocks
    <2>2. \A v \in Users : state'[v] = "active" => state[v] = "active" /\ roomId'[v] = roomId[v]
      BY <2>1, <1>0, PartnerIdled
    <2>3. SocketsKnown' /\ NewRooms'
      BY <2>1, <2>2, <1>0 DEF SocketsKnown, NewRooms, Known, Committed, Holding
    <2>4. RoomSeen'
      BY <2>1, <1>0 DEF RoomSeen, OpGoto, Typed, OpTypes
    <2>5. ActiveIsHeard'
      <3>1. \A v \in Users : Told(v) => Told(v)'
        BY <2>1 DEF Told, OpGoto, Typed, OpTypes
      <3>2. \A v \in Users : opc[v] \in {"leaveUnlock", "leaveEnd"} => opc'[v] = opc[v]
        BY <2>1 DEF OpGoto, Typed, OpTypes
      <3>3. QED
        BY <3>1, <3>2, <2>1, <2>2, <1>0 DEF ActiveIsHeard, Seat
    <2>6. QED
      BY <2>3, <2>4, <2>5 DEF Seated
  <1>5. CASE LeaveDeletes(u)
    <2>1. /\ UNCHANGED <<connected, registered, state, roomId, opPeer, opRoom, cpc, cPeer,
                         cRoom, mpc, peer, claim>>
          /\ opc[u] = "leaveDelete" /\ OpGoto(u, "leaveUnlock") /\ opRoom[u] \in Rooms
          /\ live' = [live EXCEPT ![opRoom[u]] = {}]
      BY <1>5 DEF LeaveDeletes, DestroyRoom, Typed, OpTypes, LeaveKnown
    <2>2. SocketsKnown' /\ NewRooms'
      BY <2>1, <1>0 DEF SocketsKnown, NewRooms, Known, Committed, Holding
    <2>3. \A r \in Rooms : live'[r] \subseteq live[r]
      BY <2>1 DEF Typed, RedisTypes
    <2>4. RoomSeen'
      BY <2>1, <2>3, <1>0
      DEF RoomSeen, OpGoto, Typed, OpTypes, CleanTypes, LeaveKnown, CleanupKnown
    <2>5. live[opRoom[u]] \subseteq {u, opPeer[u]}
      BY <2>1, <1>0 DEF RoomSeen
    <2>6. ActiveIsHeard'
      <3>1. opc'[u] = "leaveUnlock" /\ Told(opPeer[u])'
        BY <2>1 DEF Told, OpGoto, Typed, OpTypes
      <3>2. \A v \in Users : Told(v) => Told(v)'
        BY <2>1 DEF Told, OpGoto, Typed, OpTypes
      <3>3. \A v \in Users : opc[v] \in {"leaveUnlock", "leaveEnd"} => opc'[v] = opc[v]
        BY <2>1 DEF OpGoto, Typed, OpTypes
      <3>4. \A v \in Users : roomId[v] # None /\ v \in live[roomId[v]]
              => v \in live'[roomId[v]] \/ v \in live[opRoom[u]]
        BY <2>1 DEF Typed, RedisTypes, SocketTypes
      <3>5. QED
        BY <3>1, <3>2, <3>3, <3>4, <2>1, <2>5, <1>0 DEF ActiveIsHeard, Seat
    <2>7. QED
      BY <2>2, <2>4, <2>6 DEF Seated
  <1>6. CASE LeaveUnlocks(u)
    <2>1. /\ UNCHANGED <<live, connected, registered, opPeer, opRoom, cpc, cPeer, cRoom, mpc,
                         peer, claim>>
          /\ opc[u] = "leaveUnlock" /\ OpGoto(u, "leaveEnd") /\ PartnerIdle(opPeer[u])
      BY <1>6 DEF LeaveUnlocks
    <2>2. /\ \A v \in Users :
               state'[v] = "active" => state[v] = "active" /\ roomId'[v] = roomId[v]
          /\ \A v \in Users : connected[v] /\ state'[v] = "active" => v # opPeer[u]
      BY <2>1, <1>0, PartnerIdled
    <2>3. SocketsKnown' /\ NewRooms'
      BY <2>1, <2>2, <1>0 DEF SocketsKnown, NewRooms, Known, Committed, Holding
    <2>4. RoomSeen'
      BY <2>1, <1>0 DEF RoomSeen, OpGoto, Typed, OpTypes
    <2>5. ActiveIsHeard'
      <3>1. \A v \in Users : Told(v) => Told(v)' \/ v = opPeer[u]
        BY <2>1 DEF Told, OpGoto, Typed, OpTypes
      <3>2. \A v \in Users : opc[v] \in {"leaveUnlock", "leaveEnd"}
                               => opc'[v] \in {"leaveUnlock", "leaveEnd"}
        BY <2>1 DEF OpGoto, Typed, OpTypes
      <3>3. QED
        BY <3>1, <3>2, <2>1, <2>2, <1>0 DEF ActiveIsHeard, Seat
    <2>6. QED
      BY <2>3, <2>4, <2>5 DEF Seated
  <1>7. CASE LeaveEnds(u)
    <2>1. /\ UNCHANGED <<live, connected, registered, cpc, cPeer, cRoom, mpc, peer, claim>>
          /\ opc[u] = "leaveEnd" /\ OpGoto(u, "none")
          /\ state' = [state EXCEPT ![u] = "idle"] /\ roomId' = [roomId EXCEPT ![u] = None]
          /\ opPeer' = [opPeer EXCEPT ![u] = None] /\ opRoom' = [opRoom EXCEPT ![u] = None]
      BY <1>7 DEF LeaveEnds
    <2>2. \A v \in Users : state'[v] = "active"
            => v # u /\ state[v] = "active" /\ roomId'[v] = roomId[v]
      BY <2>1 DEF Typed, SocketTypes
    <2>3. SocketsKnown'
      BY <2>1, <2>2, <1>0 DEF SocketsKnown, Known, Committed
    <2>4. NewRooms'
      BY <2>1, <1>0, ConstantsAssumption
      DEF NewRooms, Holding, Typed, OpTypes, MatchTypes, AttemptKnown
    <2>5. RoomSeen'
      BY <2>1, <1>0 DEF RoomSeen, OpGoto, Typed, OpTypes
    <2>6. ActiveIsHeard'
      <3>1. \A v \in Users : Told(v) => Told(v)'
        BY <2>1 DEF Told, OpGoto, Typed, OpTypes
      <3>2. \A v \in Users : v # u => opc'[v] = opc[v]
        BY <2>1 DEF OpGoto, Typed, OpTypes
      <3>3. QED
        BY <3>1, <3>2, <2>1, <2>2, <1>0 DEF ActiveIsHeard, Seat
    <2>7. QED
      BY <2>3, <2>4, <2>5, <2>6 DEF Seated
  <1>8. QED
    BY <1>1, <1>2, <1>3, <1>4, <1>5, <1>6, <1>7 DEF SocketOp

LEMMA CleanupSeated ==
  ASSUME Typed, Exclusive, BoundInRoom, Pairs, Seated, NEW u \in Users, Cleanup(u)
  PROVE  Seated'
  <1> USE DEF redisVars, socketVars, matchVars, opVars
  <1>0. SocketsKnown /\ NewRooms /\ RoomSeen /\ ActiveIsHeard
    BY DEF Seated
  <1>1. ~connected[u]
    BY <1>0 DEF SocketsKnown, Cleanup, CleanReadsQueue, CleanRemovesEntry, CleanChecksRoom,
                CleanLocks, CleanDeletes, CleanUnlocks
  <1>2. CASE CleanReadsQueue(u) \/ CleanRemovesEntry(u)
             \/ (CleanChecksRoom(u) /\ ~InRoom(u))
    <2>1. UNCHANGED <<live, connected, registered, state, roomId, opc, opPeer, opRoom, cPeer,
                      cRoom, mpc, peer, claim>>
      BY <1>2 DEF CleanReadsQueue, CleanRemovesEntry, CleanChecksRoom
    <2>2. \E pc \in {"room", "remove", "done"} :
             cpc[u] \in {"read", "remove", "room"} /\ CleanGoto(u, pc)
      BY <1>2 DEF CleanReadsQueue, CleanRemovesEntry, CleanChecksRoom
    <2>3. \A p \in Users : \/ cpc'[p] = cpc[p] /\ (connected'[p] => connected[p])
                           \/ /\ ~connected'[p]
                              /\ {cpc[p], cpc'[p]} \cap {"lock", "delete", "unlock"} = {}
      BY <2>1, <2>2, <1>1 DEF CleanGoto, Typed, CleanTypes
    <2>4. QED
      BY <2>1, <2>3, QuietSeated DEF Holding, Committed
  <1>3. CASE CleanChecksRoom(u) /\ InRoom(u)
    <2>1. /\ UNCHANGED <<live, userRoom, connected, registered, state, roomId, opc, opPeer,
                         opRoom, mpc, peer, claim>>
          /\ cpc[u] = "room" /\ CleanGoto(u, "lock")
          /\ cRoom' = [cRoom EXCEPT ![u] = userRoom[u]]
      BY <1>3 DEF CleanChecksRoom
    <2>2. PICK p \in live[userRoom[u]] \ {u} : cPeer' = [cPeer EXCEPT ![u] = p]
      BY <1>3 DEF CleanChecksRoom
    <2>3. userRoom[u] \in Rooms /\ live[userRoom[u]] # {} /\ u \in live[userRoom[u]]
      BY <1>3 DEF InRoom, BoundInRoom, Typed, RedisTypes
    <2>4. live[userRoom[u]] = {u, p}
      BY <2>3 DEF Pairs
    <2>5. SocketsKnown'
      BY <2>1, <1>0, <1>1 DEF SocketsKnown, Known, Committed, CleanGoto, Typed, CleanTypes
    <2>6. NewRooms'
      <3>1. \A v \in Users : Holding(v) => claim[v] # userRoom[u]
        BY <2>3 DEF Exclusive, ClaimsHeld
      <3>2. \A q \in Users : cRoom'[q] = cRoom[q] \/ cRoom'[q] = userRoom[u]
        BY <2>1 DEF Typed, CleanTypes
      <3>3. QED
        BY <3>1, <3>2, <2>1, <1>0 DEF NewRooms, Holding
    <2>7. RoomSeen'
      BY <2>1, <2>2, <2>4, <1>0 DEF RoomSeen, CleanGoto, Typed, CleanTypes
    <2>8. ActiveIsHeard'
      <3>1. \A v \in Users : Told(v) => Told(v)'
        BY <2>1, <2>2 DEF Told, CleanGoto, Typed, CleanTypes
      <3>2. QED
        BY <3>1, <2>1, <1>0 DEF ActiveIsHeard, Seat
    <2>9. QED
      BY <2>5, <2>6, <2>7, <2>8 DEF Seated
  <1>4. CASE CleanDeletes(u)
    <2>1. /\ UNCHANGED <<connected, registered, state, roomId, opc, opPeer, opRoom, cPeer,
                         cRoom, mpc, peer, claim>>
          /\ cpc[u] = "delete" /\ CleanGoto(u, "unlock") /\ cRoom[u] \in Rooms
          /\ live' = [live EXCEPT ![cRoom[u]] = {}]
      BY <1>4 DEF CleanDeletes, DestroyRoom, Typed, CleanTypes, CleanupKnown
    <2>2. SocketsKnown' /\ NewRooms'
      BY <2>1, <1>0, <1>1
      DEF SocketsKnown, NewRooms, Known, Committed, Holding, CleanGoto, Typed, CleanTypes
    <2>3. \A r \in Rooms : live'[r] \subseteq live[r]
      BY <2>1 DEF Typed, RedisTypes
    <2>4. RoomSeen'
      BY <2>1, <2>3, <1>0
      DEF RoomSeen, CleanGoto, Typed, OpTypes, CleanTypes, LeaveKnown, CleanupKnown
    <2>5. live[cRoom[u]] \subseteq {u, cPeer[u]}
      BY <2>1, <1>0 DEF RoomSeen
    <2>6. ActiveIsHeard'
      <3>1. Told(cPeer[u])'
        BY <2>1 DEF Told, CleanGoto, Typed, CleanTypes
      <3>2. \A v \in Users : Told(v) => Told(v)'
        BY <2>1 DEF Told, CleanGoto, Typed, CleanTypes
      <3>3. \A v \in Users : roomId[v] # None /\ v \in live[roomId[v]]
              => v \in live'[roomId[v]] \/ v \in live[cRoom[u]]
        BY <2>1 DEF Typed, RedisTypes, SocketTypes
      <3>4. QED
        BY <3>1, <3>2, <3>3, <2>1, <2>5, <1>0, <1>1 DEF ActiveIsHeard, Seat
    <2>7. QED
      BY <2>2, <2>4, <2>6 DEF Seated
  <1>5. CASE CleanLocks(u) \/ CleanUnlocks(u)
    <2>1. UNCHANGED <<live, connected, registered, opc, opPeer, opRoom, mpc, peer, claim>>
      BY <1>5 DEF CleanLocks, CleanUnlocks
    <2>2. \/ cpc[u] = "lock" /\ CleanGoto(u, "delete") /\ UNCHANGED <<state, roomId, cPeer, cRoom>>
          \/ /\ cpc[u] \in {"lock", "unlock"} /\ CleanEnds(u)
             /\ PartnerIdle(cPeer[u]) \/ (cpc[u] = "lock" /\ UNCHANGED <<state, roomId>>)
      BY <1>5 DEF CleanLocks, CleanUnlocks
    <2>3. /\ \A v \in Users :
               state'[v] = "active" => state[v] = "active" /\ roomId'[v] = roomId[v]
          /\ cpc[u] = "unlock"
               => \A v \in Users : connected[v] /\ state'[v] = "active" => v # cPeer[u]
      BY <2>2, <1>0, PartnerIdled
    <2>4. /\ \A q \in Users : q # u => /\ cpc'[q] = cpc[q] /\ cPeer'[q] = cPeer[q]
                                       /\ cRoom'[q] = cRoom[q]
          /\ cpc'[u] \in {"delete", "done"} /\ cRoom'[u] \in {cRoom[u], None}
          /\ cpc'[u] = "delete" => cpc[u] = "lock" /\ cPeer'[u] = cPeer[u] /\ cRoom'[u] = cRoom[u]
      BY <2>2 DEF CleanEnds, CleanGoto, Typed, CleanTypes
    <2>5. SocketsKnown'
      BY <2>1, <2>3, <2>4, <1>0, <1>1 DEF SocketsKnown, Known, Committed
    <2>6. NewRooms'
      BY <2>1, <2>4, <1>0, ConstantsAssumption
      DEF NewRooms, Holding, Typed, MatchTypes, AttemptKnown
    <2>7. RoomSeen'
      BY <2>1, <2>4, <1>0 DEF RoomSeen
    <2>8. ActiveIsHeard'
      <3>1. \A v \in Users : Told(v) => Told(v)' \/ (cpc[u] = "unlock" /\ v = cPeer[u])
        BY <2>1, <2>4 DEF Told
      <3>2. QED
        BY <3>1, <2>1, <2>3, <1>0 DEF ActiveIsHeard, Seat
    <2>9. QED
      BY <2>5, <2>6, <2>7, <2>8 DEF Seated
  <1>6. QED
    BY <1>2, <1>3, <1>4, <1>5 DEF Cleanup

LEMMA NextSeated ==
  ASSUME Typed, Exclusive, BoundInRoom, Pairs, Seated, [Next]_vars
  PROVE  Seated'
  <1> USE DEF redisVars, socketVars, matchVars, opVars, cleanVars
  <1>1. CASE Tick
    <2>1. /\ UNCHANGED <<live, connected, registered, state, roomId, opc, opPeer, opRoom, cpc,
                         cPeer, cRoom, peer, claim>>
          /\ \A v \in Users : mpc'[v] = mpc[v] \/ mpc'[v] = "find"
      BY <1>1 DEF Tick
    <2>2. QED
      BY <2>1, QuietSeated DEF Holding, Committed
  <1>2. CASE QueueExpires \/ (\E u \in Users : Receive(u) \/ ClaimExpires(u)) \/ UNCHANGED vars
    <2>1. UNCHANGED <<live, connected, registered, state, roomId, opc, opPeer, opRoom, cpc,
                      cPeer, cRoom, mpc, peer, claim>>
      BY <1>2 DEF QueueExpires, Receive, ClaimExpires, vars
    <2>2. QED
      BY <2>1, QuietSeated DEF Holding, Committed
  <1>3. ASSUME NEW u \in Users, Disconnect(u)
        PROVE  Seated'
    <2>1. /\ UNCHANGED <<live, state, roomId, opc, opPeer, opRoom, cPeer, cRoom, mpc, peer,
                         claim>>
          /\ connected' = [connected EXCEPT ![u] = FALSE] /\ connected[u]
          /\ registered' = [registered EXCEPT ![u] = FALSE]
          /\ \E pc \in {"read", "done"} : CleanGoto(u, pc)
      BY <1>3 DEF Disconnect
    <2>2. cpc[u] = "none"
      BY <2>1 DEF Seated, SocketsKnown
    <2>3. SocketsKnown' /\ ActiveIsHeard' /\ NewRooms' /\ RoomSeen'
      <3>1. /\ \A v \in Users : v # u => connected'[v] = connected[v]
                                         /\ registered'[v] = registered[v] /\ cpc'[v] = cpc[v]
            /\ ~connected'[u] /\ cpc'[u] \in {"read", "done"}
        BY <2>1 DEF CleanGoto, Typed, SocketTypes, CleanTypes
      <3>2. SocketsKnown'
        BY <2>1, <3>1 DEF Seated, SocketsKnown, Known, Committed, Typed, MatchTypes, AttemptKnown
      <3>3. ActiveIsHeard'
        <4>1. \A v \in Users : Told(v) => Told(v)'
          BY <2>1, <2>2, <3>1 DEF Told
        <4>2. QED
          BY <4>1, <3>1, <2>1 DEF Seated, ActiveIsHeard, Seat
      <3>4. NewRooms' /\ RoomSeen'
        BY <2>1, <3>1 DEF Seated, NewRooms, RoomSeen, Holding
      <3>5. QED
        BY <3>2, <3>3, <3>4
    <2>4. QED
      BY <2>3 DEF Seated
  <1>4. QED
    BY <1>1, <1>2, <1>3, AttemptSeated, SocketOpSeated, CleanupSeated DEF Next

\* Rooms, their members and the handlers that are about to delete them, with any failures
\* of Redis, as long as no claim lapses under its attempt.
LEMMA SeatedAlways ==
  ASSUME ClaimMayLapse = FALSE
  PROVE  Spec => [](Typed /\ Exclusive /\ BoundInRoom /\ Pairs /\ Seated)
  <1>1. Init => Typed /\ Exclusive /\ BoundInRoom /\ Pairs /\ Seated
    BY InitTyped, InitExclusive, InitSettled, InitSeated DEF Settled
  <1>2. Typed /\ Exclusive /\ BoundInRoom /\ Pairs /\ Seated /\ [Next]_vars
          => (Typed /\ Exclusive /\ BoundInRoom /\ Pairs /\ Seated)'
    BY NextTyped, NextExclusive, NextShape, ShapePaired, NextSeated
  <1>3. QED
    BY <1>1, <1>2, PTL DEF Spec

\* No connected user is left in a conversation whose room is gone (room.handler.ts): the
\* leave or the cleanup that deleted it is still on its way to tell, whatever matches,
\* leaves, disconnects and failures overlap.
THEOREM ActiveInRoom ==
  ASSUME ClaimMayLapse = FALSE
  PROVE  Spec => []ActiveHasRoom
  <1>1. Seated => ActiveHasRoom
    BY DEF Seated, ActiveIsHeard, Seat, Told, ToldBy, ActiveHasRoom
  <1>2. QED
    BY <1>1, SeatedAlways, PTL

-----------------------------------------------------------------------------
(* Two users who wait can find each other, as long as no call to Redis      *)
(* fails; claims may lapse.                                                 *)

\* Somebody is about to put u in the queue, if u is still searching by then: its own join,
\* an attempt that has its claim yet to release, or one that requeues it.
Requeues(w, u) ==
    /\ mpc[w] = "requeue"
    /\ \/ u = w /\ selfTodo[w] \in {"check", "add"}
       \/ u = peer[w] /\ peerTodo[w] \in {"check", "add"}
Covered(u) ==
    \/ opc[u] \in {"joinQueued", "joinAdd"}
    \/ \E w \in Users : (Holding(w) /\ u \in {w, peer[w]}) \/ Requeues(w, u)
Waits(u) == Searching(u) /\ EntriesOf(u) = {}
Stranded(u) == Waits(u) /\ ~Covered(u)

\* Only the queue's TTL strands anybody, and it ends a wait for at most one.
OneStranded == \A u, v \in Users : Stranded(u) /\ Stranded(v) => u = v
Gone == \A u \in Users : cpc[u] # "none" => ~connected[u]

\* No step but the TTL's strands a user who was not.
Unharmed == \A x \in Users : Stranded(x)' => Stranded(x)

LEMMA UnharmedKeeps == OneStranded /\ Unharmed => OneStranded'
  BY DEF OneStranded, Unharmed

LEMMA GoneKeeps == Typed /\ Gone /\ [Next]_vars => Gone'
  <1> SUFFICES ASSUME Typed, Gone, [Next]_vars PROVE Gone'
    OBVIOUS
  <1> USE DEF redisVars, socketVars, matchVars, opVars, cleanVars
  <1>1. ASSUME NEW u \in Users, Attempt(u) \/ Fault(u) PROVE Gone'
    BY <1>1, AttemptFrame DEF Gone
  <1>2. ASSUME NEW u \in Users, SocketOp(u) PROVE Gone'
    <2>1. UNCHANGED <<connected, cpc>>
      BY <1>2 DEF SocketOp, BeginJoin, JoinChecksRoom, JoinChecksQueue, JoinAdds, JoinTries,
                  BeginCancel, CancelReadsQueue, CancelRemovesEntry, BeginLeave, LeaveLocks,
                  LeaveDeletes, LeaveUnlocks, LeaveEnds
    <2>2. QED
      BY <2>1 DEF Gone
  <1>3. ASSUME NEW u \in Users, Cleanup(u) PROVE Gone'
    <2>1. cpc[u] # "none" /\ UNCHANGED connected /\ \E pc : CleanGoto(u, pc)
      BY <1>3 DEF Cleanup, CleanReadsQueue, CleanRemovesEntry, CleanChecksRoom, CleanLocks,
                  CleanDeletes, CleanUnlocks, CleanEnds
    <2>2. QED
      BY <2>1 DEF Gone, CleanGoto, Typed, CleanTypes
  <1>4. ASSUME NEW u \in Users, Disconnect(u) PROVE Gone'
    BY <1>4 DEF Disconnect, CleanGoto, Gone, Typed, SocketTypes, CleanTypes
  <1>5. CASE Tick \/ QueueExpires \/ (\E u \in Users : Receive(u) \/ ClaimExpires(u))
             \/ UNCHANGED vars
    BY <1>5 DEF Tick, QueueExpires, Receive, ClaimExpires, vars, Gone
  <1>6. QED
    BY <1>1, <1>2, <1>3, <1>4, <1>5 DEF Next

\* A step after which whoever waits was waiting before, and was not covered by anything
\* that it ends.
LEMMA StillStranded ==
  ASSUME \A x \in Users : Waits(x)' /\ ~Covered(x)' => Waits(x),
         \A x \in Users : Waits(x)' /\ Covered(x) => Covered(x)'
  PROVE  Unharmed
  BY DEF Unharmed, Stranded

\* A user whose members of the queue are all still there.
LEMMA QueueKept ==
  ASSUME queue \subseteq queue', NEW x, EntriesOf(x)' = {}
  PROVE  EntriesOf(x) = {}
  BY DEF EntriesOf

\* Whoever an attempt covers before a step inside it, it covers after.
LEMMA InsideCovers ==
  ASSUME Typed, NEW u \in Users, Holding(u), NEW pc \in AttemptPc \ {"idle", "find", "requeue"},
         NEW self, NEW other, MatchStep(u, pc, self, other), NEW x \in Users
  PROVE  /\ Covered(x) => Covered(x)'
         /\ x \in {u, peer[u]} => Covered(x)'
  BY DEF MatchStep, MatchGoto, Holding, Covered, Requeues, Typed, MatchTypes, opVars

\* The end of an attempt uncovers at most its two users, and those who have joins of their
\* own not even then.
LEMMA EndCovers ==
  ASSUME Typed, NEW u \in Users, NEW S, AttemptEnds(u, S), NEW x \in Users, Covered(x)
  PROVE  \/ Covered(x)'
         \/ Holding(u) /\ x \in {u, peer[u]}
         \/ Requeues(u, x)
  <1>1. CASE opc[x] \in {"joinQueued", "joinAdd"}
    BY <1>1 DEF AttemptEnds, Covered, Typed, OpTypes
  <1>2. CASE \E w \in Users : Holding(w) /\ x \in {w, peer[w]}
    BY <1>2 DEF AttemptEnds, MatchGoto, Holding, Covered, Typed, MatchTypes
  <1>3. CASE \E w \in Users : Requeues(w, x)
    BY <1>3 DEF AttemptEnds, MatchGoto, Holding, Covered, Requeues, Typed, MatchTypes
  <1>4. QED
    BY <1>1, <1>2, <1>3 DEF Covered

\* Requeueing covers a user until its turn has come.
LEMMA RequeuedCovers ==
  ASSUME Typed, NEW u \in Users, mpc[u] \in {"readd", "requeue"}, NEW self \in Todo,
         NEW other \in Todo, Requeued(u, self, other), NEW x \in Users, Covered(x),
         x = u /\ selfTodo[u] \in {"check", "add"} => self \in {"check", "add"},
         x = peer[u] /\ peerTodo[u] \in {"check", "add"} => other \in {"check", "add"}
  PROVE  Covered(x)'
  <1>1. CASE AttemptEnds(u, {u, peer[u]}) /\ mpc[u] = "requeue" /\ self = "no" /\ other = "no"
    BY <1>1, EndCovers DEF Holding, Requeues
  <1>2. CASE mpc[u] = "readd" /\ \E pc \in {"readd", "readClaim"}, s \in Todo, o \in Todo :
                                    MatchStep(u, pc, s, o)
    <2>1. {"readd", "readClaim"} \subseteq AttemptPc \ {"idle", "find", "requeue"}
      BY DEF AttemptPc
    <2>2. QED
      BY <1>2, <2>1, InsideCovers DEF Holding
  <1>3. CASE mpc[u] = "requeue" /\ MatchStep(u, "requeue", self, other)
    BY <1>3 DEF MatchStep, MatchGoto, Holding, Covered, Requeues, Typed, MatchTypes, opVars
  <1>4. QED
    BY <1>1, <1>2, <1>3 DEF Requeued, Todo

\* Whoever is in the queue does not wait for a place in it.
LEMMA QueuedWaitNot ==
  ASSUME NEW x, NEW t, NEW q, queue' = q \cup {<<x, t>>}
  PROVE  ~Waits(x)'
  <1>1. <<x, t>> \in queue' /\ <<x, t>>[1] = x
    OBVIOUS
  <1>2. EntriesOf(x)' # {}
    BY <1>1 DEF EntriesOf
  <1>3. QED
    BY <1>2 DEF Waits

LEMMA AttemptUnharmed ==
  ASSUME Typed, NEW u \in Users, Attempt(u)
  PROVE  Unharmed
  <1> SUFFICES ASSUME NEW x \in Users, Waits(x)'
               PROVE  (Waits(x) \/ Covered(x)') /\ (Covered(x) => Covered(x)')
    BY DEF Unharmed, Stranded
  <1> USE DEF redisVars, socketVars
  <1>1. UNCHANGED socketVars => (Searching(x)' <=> Searching(x))
    BY DEF Searching
  <1>2. UNCHANGED socketVars /\ queue \subseteq queue' => Waits(x)
    BY <1>1, QueueKept DEF Waits
  <1>3. CASE FindNone(u)
    <2>1. Waits(x)
      BY <1>2, <1>3 DEF FindNone
    <2>2. Covered(x) => Covered(x)'
      BY <1>3, EndCovers DEF FindNone, Holding, Requeues
    <2>3. QED
      BY <2>1, <2>2
  <1>4. CASE FindMatch(u)
    <2>1. PICK e \in Candidates(u), pc \in {"removeSelf", "removePeer", "roomSelf"} :
            /\ e[1] \in Users
            /\ \A y \in Users \ {u, e[1]} : EntriesOf(y)' = {} => EntriesOf(y) = {}
            /\ peer' = [peer EXCEPT ![u] = e[1]] /\ mpc' = [mpc EXCEPT ![u] = pc]
      <3>1. PICK e \in Candidates(u), r \in Rooms :
              /\ ClaimPair(u, e, r)
              /\ peer' = [peer EXCEPT ![u] = e[1]]
              /\ MatchGoto(u, IF ~Searching(u) THEN "removeSelf"
                              ELSE IF ~Searching(e[1]) THEN "removePeer"
                              ELSE "roomSelf")
        BY <1>4 DEF FindMatch
      <3>2. e \in queue /\ e[1] \in Users
        BY DEF Candidates, Typed, RedisTypes
      <3>3. \A d \in queue : d[1] \notin {u, e[1]} => d \in queue'
        BY <3>1 DEF ClaimPair, EntriesOf
      <3>4. \A y \in Users \ {u, e[1]} : EntriesOf(y)' = {} => EntriesOf(y) = {}
        BY <3>3 DEF EntriesOf
      <3>5. QED
        BY <3>1, <3>2, <3>4 DEF MatchGoto
    <2>2. mpc[u] = "find" /\ UNCHANGED <<opc, selfTodo, peerTodo>> /\ UNCHANGED socketVars
      BY <1>4 DEF FindMatch, opVars
    <2>3. CASE x \in {u, e[1]}
      BY <2>1, <2>2, <2>3 DEF Covered, Holding, Typed, MatchTypes
    <2>4. CASE x \notin {u, e[1]}
      <3>1. Waits(x)
        BY <2>1, <2>2, <2>4, <1>1 DEF Waits
      <3>2. Covered(x) => Covered(x)'
        BY <2>1, <2>2, <2>4 DEF Covered, Requeues, Holding, Typed, MatchTypes
      <3>3. QED
        BY <3>1, <3>2
    <2>5. QED
      BY <2>3, <2>4
  <1>5. CASE AbortReadsQueue(u) \/ AbortRemovesEntry(u)
    <2>1. mpc[u] \in {"removeSelf", "removeBusy", "removePeer", "dropSelf", "dropBusy",
                      "dropPeer"} /\ Holding(u) /\ UNCHANGED socketVars
      BY <1>5 DEF AbortReadsQueue, AbortRemovesEntry, Holding
    <2>2. PICK pc \in {"readd", "readClaim", "dropSelf", "dropBusy", "dropPeer"},
               s \in Todo, o \in Todo : MatchStep(u, pc, s, o)
      <3>1. AfterRemoval(u) => \E pc \in {"readd", "readClaim"}, s \in Todo, o \in Todo :
                                   MatchStep(u, pc, s, o)
        BY <2>1 DEF AfterRemoval, Todo
      <3>2. QED
        BY <1>5, <3>1 DEF AbortReadsQueue, AbortRemovesEntry, Todo
    <2>3. pc \in AttemptPc \ {"idle", "find", "requeue"}
      BY DEF AttemptPc
    <2>4. (Covered(x) => Covered(x)') /\ (x \in {u, peer[u]} => Covered(x)')
      BY <2>1, <2>2, <2>3, InsideCovers
    <2>5. x \notin {u, peer[u]} => (EntriesOf(x)' = {} => EntriesOf(x) = {})
      BY <1>5 DEF AbortReadsQueue, AbortRemovesEntry, Removed, EntriesOf
    <2>6. QED
      BY <2>1, <2>4, <2>5, <1>1 DEF Waits
  <1>6. CASE CheckSelfRoom(u) \/ CheckPeerRoom(u) \/ ReadClaim(u)
    <2>1. Holding(u) /\ UNCHANGED socketVars /\ UNCHANGED queue
      BY <1>6 DEF CheckSelfRoom, CheckPeerRoom, ReadClaim, Holding
    <2>2. PICK pc \in {"removeBusy", "roomPeer", "removePeer", "mint", "dropClaim"},
               s \in Todo, o \in Todo : MatchStep(u, pc, s, o)
      BY <1>6 DEF CheckSelfRoom, CheckPeerRoom, ReadClaim, Todo
    <2>3. pc \in AttemptPc \ {"idle", "find", "requeue"}
      BY DEF AttemptPc
    <2>4. QED
      BY <2>1, <2>2, <2>3, <1>2, InsideCovers
  <1>7. CASE CreateRoom(u)
    <2>1. /\ AttemptEnds(u, {u, peer[u]}) /\ peer[u] \in Users /\ mpc[u] = "mint"
          /\ UNCHANGED <<queue, connected, registered>>
          /\ state' = [state EXCEPT ![u] = "active", ![peer[u]] = "active"]
      BY <1>7 DEF CreateRoom, Typed, MatchTypes, AttemptKnown
    <2>2. x \notin {u, peer[u]} /\ Searching(x)
      BY <2>1 DEF Waits, Searching, Typed, SocketTypes
    <2>3. Waits(x)
      BY <2>1, <2>2, QueueKept DEF Waits
    <2>4. Covered(x) => Covered(x)'
      BY <2>1, <2>2, EndCovers DEF Requeues
    <2>5. QED
      BY <2>3, <2>4
  <1>8. CASE DropClaim(u)
    <2>1. Holding(u) /\ UNCHANGED queue /\ UNCHANGED socketVars
      BY <1>8 DEF DropClaim, Holding
    <2>2. Waits(x) /\ Searching(x)
      BY <2>1, <1>2 DEF Waits
    <2>3. CASE Searching(u) \/ Searching(peer[u])
      <3>1. PICK s \in {"check", "no"}, o \in {"check", "no"} :
              /\ MatchStep(u, "requeue", s, o)
              /\ Searching(u) => s = "check"
              /\ Searching(peer[u]) => o = "check"
        BY <1>8, <2>3 DEF DropClaim
      <3>2. CASE x \in {u, peer[u]}
        <4>1. Requeues(u, x)'
          BY <3>1, <3>2, <2>2 DEF Requeues, MatchStep, MatchGoto, Typed, MatchTypes
        <4>2. QED
          BY <4>1, <2>2 DEF Covered
      <3>3. CASE x \notin {u, peer[u]}
        <4>1. Covered(x) => Covered(x)'
          BY <3>1, <3>3, <2>1
          DEF Covered, Requeues, Holding, MatchStep, MatchGoto, Typed, MatchTypes, opVars
        <4>2. QED
          BY <4>1, <2>2
      <3>4. QED
        BY <3>2, <3>3
    <2>4. CASE ~(Searching(u) \/ Searching(peer[u]))
      <3>1. AttemptEnds(u, {u, peer[u]}) /\ mpc[u] = "dropClaim"
        BY <1>8, <2>4 DEF DropClaim
      <3>2. x \notin {u, peer[u]}
        BY <2>2, <2>4
      <3>3. Covered(x) => Covered(x)'
        BY <3>1, <3>2, EndCovers DEF Requeues
      <3>4. QED
        BY <3>3, <2>2
    <2>5. QED
      BY <2>3, <2>4
  <1>9. CASE RequeueCheck(u)
    <2>1. Waits(x) /\ mpc[u] \in {"readd", "requeue"}
      BY <1>9, <1>2 DEF RequeueCheck
    <2>2. {"no", "add"} \subseteq Todo /\ selfTodo[u] \in Todo /\ peerTodo[u] \in Todo
      BY DEF Todo, Typed, MatchTypes
    <2>3. PICK s \in Todo, o \in Todo :
            /\ Requeued(u, s, o)
            /\ x = u /\ selfTodo[u] \in {"check", "add"} => s \in {"check", "add"}
            /\ x = peer[u] /\ peerTodo[u] \in {"check", "add"} => o \in {"check", "add"}
      <3>1. CASE /\ selfTodo[u] = "check"
                 /\ Requeued(u, IF EntriesOf(u) = {} THEN "add" ELSE "no", peerTodo[u])
        BY <3>1, <2>1, <2>2 DEF Waits
      <3>2. CASE /\ peerTodo[u] = "check"
                 /\ Requeued(u, selfTodo[u], IF EntriesOf(peer[u]) = {} THEN "add" ELSE "no")
        BY <3>2, <2>1, <2>2 DEF Waits
      <3>3. QED
        BY <1>9, <3>1, <3>2 DEF RequeueCheck
    <2>4. QED
      BY <2>1, <2>3, RequeuedCovers
  <1>10. CASE RequeueAdd(u)
    <2>1. mpc[u] \in {"readd", "requeue"} /\ queue \subseteq queue' /\ UNCHANGED socketVars
      BY <1>10 DEF RequeueAdd
    <2>2. {"no", "add"} \subseteq Todo /\ selfTodo[u] \in Todo /\ peerTodo[u] \in Todo
      BY DEF Todo, Typed, MatchTypes
    <2>3. PICK s \in Todo, o \in Todo :
            /\ Requeued(u, s, o)
            /\ x = u /\ selfTodo[u] \in {"check", "add"} => s \in {"check", "add"}
            /\ x = peer[u] /\ peerTodo[u] \in {"check", "add"} => o \in {"check", "add"}
      <3>1. ASSUME NEW t \in Stamps, selfTodo[u] = "add", queue' = queue \cup {<<u, t>>},
                   Requeued(u, "no", peerTodo[u])
            PROVE  x # u
        BY <3>1, QueuedWaitNot
      <3>2. ASSUME NEW t \in Stamps, peerTodo[u] = "add", queue' = queue \cup {<<peer[u], t>>},
                   Requeued(u, selfTodo[u], "no")
            PROVE  x # peer[u]
        BY <3>2, QueuedWaitNot
      <3>3. QED
        BY <1>10, <3>1, <3>2, <2>2 DEF RequeueAdd
    <2>4. QED
      BY <2>1, <2>3, <1>2, RequeuedCovers
  <1>11. QED
    BY <1>3, <1>4, <1>5, <1>6, <1>7, <1>8, <1>9, <1>10 DEF Attempt

\* Steps that leave the attempts alone: nobody starts to wait but by a join that is about
\* to add them.
LEMMA OpUnharmed ==
  ASSUME UNCHANGED <<mpc, peer, selfTodo, peerTodo>>,
         \A x \in Users : Waits(x)' => Waits(x) \/ opc'[x] \in {"joinQueued", "joinAdd"},
         \A x \in Users : Waits(x)' /\ opc[x] \in {"joinQueued", "joinAdd"}
                            => opc'[x] \in {"joinQueued", "joinAdd"}
  PROVE  Unharmed
  <1> SUFFICES ASSUME NEW x \in Users, Stranded(x)' PROVE Stranded(x)
    BY DEF Unharmed
  <1>1. Waits(x)' /\ ~Covered(x)' /\ opc'[x] \notin {"joinQueued", "joinAdd"}
    BY DEF Stranded, Covered
  <1>2. Waits(x) /\ opc[x] \notin {"joinQueued", "joinAdd"}
    BY <1>1
  <1>3. ~Covered(x)
    BY <1>1, <1>2 DEF Covered, Requeues, Holding
  <1>4. QED
    BY <1>2, <1>3 DEF Stranded

LEMMA SocketOpUnharmed ==
  ASSUME Typed, NEW u \in Users, SocketOp(u)
  PROVE  Unharmed
  <1> USE DEF redisVars, socketVars, matchVars, Typed
  <1>1. CASE BeginJoin(u) \/ CancelRemovesEntry(u) \/ LeaveEnds(u)
    <2>1. /\ ~Searching(u)' /\ UNCHANGED <<mpc, peer, selfTodo, peerTodo>>
          /\ \A x \in Users \ {u} : Searching(x)' => Searching(x)
      <3>1. UNCHANGED <<connected, mpc, peer, selfTodo, peerTodo>>
        BY <1>1 DEF BeginJoin, CancelRemovesEntry, LeaveEnds
      <3>2. /\ state' = [state EXCEPT ![u] = "idle"]
            /\ \A x \in Users \ {u} : registered'[x] = registered[x]
        BY <1>1 DEF BeginJoin, CancelRemovesEntry, LeaveEnds, SocketTypes
      <3>3. QED
        BY <3>1, <3>2 DEF Searching, SocketTypes
    <2>2. \A x \in Users \ {u} : opc'[x] = opc[x] /\ (EntriesOf(x)' = {} => EntriesOf(x) = {})
      BY <1>1 DEF BeginJoin, CancelRemovesEntry, LeaveEnds, OpGoto, EntriesOf, OpTypes
    <2>3. QED
      BY <2>1, <2>2, OpUnharmed DEF Waits
  <1>2. CASE BeginCancel(u) \/ BeginLeave(u)
    <2>1. UNCHANGED <<queue, connected, registered, state, mpc, peer, selfTodo, peerTodo>>
          /\ opc[u] = "none"
      BY <1>2 DEF BeginCancel, BeginLeave, StartsNext
    <2>2. \A x \in Users \ {u} : opc'[x] = opc[x]
      BY <1>2 DEF BeginCancel, BeginLeave, OpGoto, OpTypes
    <2>3. QED
      BY <2>1, <2>2, OpUnharmed DEF Waits, Searching, EntriesOf
  <1>3. CASE JoinChecksRoom(u) \/ CancelReadsQueue(u)
    <2>1. UNCHANGED <<queue, connected, registered, mpc, peer, selfTodo, peerTodo>>
          /\ opc[u] \in {"joinRoom", "cancelRead"}
      BY <1>3 DEF JoinChecksRoom, CancelReadsQueue
    <2>2. \A x \in Users \ {u} : opc'[x] = opc[x]
      BY <1>3 DEF JoinChecksRoom, CancelReadsQueue, OpGoto, OpTypes
    <2>3. \A x \in Users : Searching(x)' => Searching(x) \/ opc'[x] \in {"joinQueued", "joinAdd"}
      BY <1>3 DEF JoinChecksRoom, CancelReadsQueue, OpGoto, OpTypes, Searching, SocketTypes
    <2>4. QED
      BY <2>1, <2>2, <2>3, OpUnharmed DEF Waits, EntriesOf
  <1>4. CASE JoinAdds(u)
    <2>1. PICK t \in Stamps : queue' = queue \cup {<<u, t>>}
      BY <1>4 DEF JoinAdds
    <2>2. ~Waits(u)'
      BY <2>1, QueuedWaitNot
    <2>3. UNCHANGED <<connected, registered, state, mpc, peer, selfTodo, peerTodo>>
      BY <1>4 DEF JoinAdds
    <2>4. \A x \in Users \ {u} : opc'[x] = opc[x]
      BY <1>4 DEF JoinAdds, OpGoto, OpTypes
    <2>5. \A x \in Users : EntriesOf(x)' = {} => EntriesOf(x) = {}
      BY <2>1, QueueKept
    <2>6. QED
      BY <2>2, <2>3, <2>4, <2>5, OpUnharmed DEF Waits, Searching
  <1>5. CASE JoinChecksQueue(u) \/ JoinTries(u)
    <2>1. /\ UNCHANGED <<queue, connected, registered, state, peer, selfTodo, peerTodo>>
          /\ ScriptAnswered(u)
          /\ TryFindMatch(u) \/ (opc' = [opc EXCEPT ![u] = "joinAdd"] /\ UNCHANGED <<matching, mpc>>)
          /\ opc[u] = "joinQueued" => EntriesOf(u) # {} \/ opc' = [opc EXCEPT ![u] = "joinAdd"]
          /\ opc[u] \in {"joinQueued", "joinTry"}
      BY <1>5 DEF JoinChecksQueue, JoinTries, OpGoto
    <2>2. \A x \in Users : Waits(x)' => Waits(x)
      BY <2>1 DEF Waits, Searching, EntriesOf
    <2>3. /\ \A x \in Users \ {u} : opc'[x] = opc[x]
          /\ Waits(u)' /\ opc[u] = "joinQueued" => opc'[u] = "joinAdd"
      BY <2>1, <2>2 DEF TryFindMatch, OpGoto, OpTypes, Waits
    <2>4. CASE UNCHANGED mpc
      BY <2>1, <2>2, <2>3, <2>4, OpUnharmed
    <2>5. CASE u \notin matching /\ mpc' = [mpc EXCEPT ![u] = "find"]
      <3>1. mpc[u] = "idle"
        BY <2>1, <2>5 DEF ScriptAnswered
      <3>2. ASSUME NEW x \in Users, Waits(x)', Covered(x)
            PROVE  Covered(x)'
        BY <3>1, <3>2, <2>1, <2>3, <2>5 DEF Covered, Requeues, Holding, MatchTypes
      <3>3. QED
        BY <3>2, <2>2, StillStranded
    <2>6. QED
      BY <2>1, <2>4, <2>5 DEF TryFindMatch, MatchGoto
  <1>6. CASE LeaveLocks(u) \/ LeaveDeletes(u) \/ LeaveUnlocks(u)
    <2>1. UNCHANGED <<queue, connected, registered, mpc, peer, selfTodo, peerTodo>>
          /\ opc[u] \in {"leaveLock", "leaveDelete", "leaveUnlock"}
      BY <1>6 DEF LeaveLocks, LeaveDeletes, LeaveUnlocks, DestroyRoom
    <2>2. \A x \in Users \ {u} : opc'[x] = opc[x]
      BY <1>6 DEF LeaveLocks, LeaveDeletes, LeaveUnlocks, OpGoto, OpTypes
    <2>3. \A x \in Users : Searching(x)' => Searching(x)
      BY <1>6 DEF LeaveLocks, LeaveDeletes, LeaveUnlocks, PartnerIdle, Searching, SocketTypes
    <2>4. QED
      BY <2>1, <2>2, <2>3, OpUnharmed DEF Waits, EntriesOf
  <1>7. QED
    BY <1>1, <1>2, <1>3, <1>4, <1>5, <1>6 DEF SocketOp

LEMMA CleanupUnharmed ==
  ASSUME Typed, Gone, NEW u \in Users, Cleanup(u)
  PROVE  Unharmed
  <1> USE DEF redisVars, socketVars, matchVars, opVars
  <1>1. ~connected[u]
    BY DEF Gone, Cleanup, CleanReadsQueue, CleanRemovesEntry, CleanChecksRoom, CleanLocks,
           CleanDeletes, CleanUnlocks
  <1>2. UNCHANGED <<connected, registered, mpc, peer, selfTodo, peerTodo, opc>>
    BY DEF Cleanup, CleanReadsQueue, CleanRemovesEntry, CleanChecksRoom, CleanLocks,
           CleanDeletes, CleanUnlocks
  <1>3. \A x \in Users : Searching(x)' => Searching(x)
    BY <1>2 DEF Cleanup, CleanReadsQueue, CleanRemovesEntry, CleanChecksRoom, CleanLocks,
                CleanDeletes, CleanUnlocks, PartnerIdle, Searching, Typed, SocketTypes
  <1>4. \A x \in Users \ {u} : EntriesOf(x)' = {} => EntriesOf(x) = {}
    BY DEF Cleanup, CleanReadsQueue, CleanRemovesEntry, CleanChecksRoom, CleanLocks,
           CleanDeletes, CleanUnlocks, EntriesOf
  <1>5. QED
    BY <1>1, <1>2, <1>3, <1>4, OpUnharmed DEF Waits, Searching

\* The queue's TTL runs out while fewer than two users wait.
LEMMA ExpiryStrandsOne ==
  ASSUME IsFiniteSet(Users), QueueExpires
  PROVE  OneStranded'
  <1> SUFFICES ASSUME NEW u \in Users, NEW v \in Users, Stranded(u)', Stranded(v)', u # v
               PROVE  FALSE
    BY DEF OneStranded
  <1> DEFINE S == {x \in Users : Searching(x)}
  <1>1. u \in S /\ v \in S
    BY DEF QueueExpires, socketVars, Stranded, Waits, Searching
  <1>2. S \subseteq Users /\ {u, v} \subseteq S
    BY <1>1
  <1>3. IsFiniteSet(S) /\ Cardinality({u, v}) <= Cardinality(S)
    BY <1>2, FS_Subset
  <1>4. Cardinality({u, v}) = 2
    <2>1. IsFiniteSet({u}) /\ Cardinality({u}) = 1
      BY FS_Singleton
    <2>2. Cardinality({u} \cup {v}) = 2
      BY <2>1, FS_AddElement
    <2>3. {u} \cup {v} = {u, v}
      OBVIOUS
    <2>4. QED
      BY <2>2, <2>3
  <1>5. Cardinality(S) < 2
    BY DEF QueueExpires
  <1>6. Cardinality(S) \in Nat
    BY <1>3, FS_CardinalityType
  <1>7. QED
    BY <1>3, <1>4, <1>5, <1>6

LEMMA NextOneStranded ==
  ASSUME IsFiniteSet(Users), FailingCalls = {}, Typed, Gone, OneStranded, [Next]_vars
  PROVE  OneStranded'
  <1> USE DEF redisVars, socketVars, matchVars, opVars
  <1>1. CASE Tick
    <2>1. /\ UNCHANGED <<queue, connected, registered, state, opc, peer, selfTodo, peerTodo>>
          /\ \A w \in Users : mpc'[w] = mpc[w] \/ mpc[w] = "idle"
      BY <1>1 DEF Tick, Eligible
    <2>2. \A x \in Users : (Waits(x)' => Waits(x)) /\ (Covered(x) => Covered(x)')
      BY <2>1 DEF Waits, Searching, EntriesOf, Covered, Requeues, Holding
    <2>3. QED
      BY <2>2, StillStranded, UnharmedKeeps
  <1>2. ASSUME NEW u \in Users, Receive(u) \/ ClaimExpires(u)
        PROVE  OneStranded'
    <2>1. UNCHANGED <<queue, connected, registered, state, opc, mpc, peer, selfTodo, peerTodo>>
      BY <1>2 DEF Receive, ClaimExpires
    <2>2. QED
      BY <2>1, OpUnharmed, UnharmedKeeps DEF Waits, Searching, EntriesOf
  <1>3. ASSUME NEW u \in Users, Disconnect(u)
        PROVE  OneStranded'
    <2>1. UNCHANGED <<queue, state, opc, mpc, peer, selfTodo, peerTodo>>
      BY <1>3 DEF Disconnect
    <2>2. \A x \in Users : Searching(x)' => Searching(x)
      BY <1>3 DEF Disconnect, Searching, Typed, SocketTypes
    <2>3. QED
      BY <2>1, <2>2, OpUnharmed, UnharmedKeeps DEF Waits, EntriesOf
  <1>4. CASE UNCHANGED vars
    <2>1. UNCHANGED <<queue, connected, registered, state, opc, mpc, peer, selfTodo, peerTodo>>
      BY <1>4 DEF vars
    <2>2. QED
      BY <2>1, OpUnharmed, UnharmedKeeps DEF Waits, Searching, EntriesOf
  <1>5. ASSUME NEW u \in Users, Fault(u)
        PROVE  FALSE
    BY <1>5 DEF Fault, CreateRoomFails, RequeueFails, FindReplyLost, JoinAddFails, Fails
  <1>6. QED
    BY <1>1, <1>2, <1>3, <1>4, <1>5, ExpiryStrandsOne, AttemptUnharmed, SocketOpUnharmed,
       CleanupUnharmed, UnharmedKeeps DEF Next

\* Of two users who wait, with nothing in progress for either, one is in the queue: every
\* path of match.handler.ts that takes a searching user off the queue puts it back or gives
\* it a room, a cancel or a cleanup takes off only who stops searching, and the queue's TTL
\* hits at most one.  Claims that lapse under their attempts do not break it.
THEOREM SearchersReachableAlways ==
  ASSUME IsFiniteSet(Users), FailingCalls = {}
  PROVE  Spec => []SearchersReachable
  <1>1. Init => Typed /\ Gone /\ OneStranded
    BY InitTyped DEF Init, Gone, OneStranded, Stranded, Waits, Searching
  <1>2. Typed /\ Gone /\ OneStranded /\ [Next]_vars => (Typed /\ Gone /\ OneStranded)'
    BY NextTyped, GoneKeeps, NextOneStranded
  <1>3. Typed /\ OneStranded => SearchersReachable
    <2> SUFFICES ASSUME Typed, OneStranded, NEW u \in Users, NEW v \in Users, u # v,
                        Searching(u), Searching(v), Quiet(u), Quiet(v),
                        EntriesOf(u) \cup EntriesOf(v) = {}
                 PROVE  FALSE
      BY DEF SearchersReachable
    <2>1. \A x \in Users : Quiet(x) => ~Covered(x)
      BY DEF Quiet, Covered, Requeues, Holding
    <2>2. Stranded(u) /\ Stranded(v)
      BY <2>1 DEF Stranded, Waits
    <2>3. QED
      BY <2>2 DEF OneStranded
  <1>4. QED
    BY <1>1, <1>2, <1>3, PTL DEF Spec
=============================================================================
