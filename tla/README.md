# TLA+ models of the chat service

This directory holds TLA+ specifications of the random video-chat service in
`src/apps/api` (the API server: Express, Socket.IO, Redis), `src/apps/web` (the browser
client) and `src/apps/admin` (the dashboard), the TLC configurations that check them on
small instances, and TLAPS proofs of the results that matter most for every instance.

1. [The system](#1-the-system)
2. [What makes it hard](#2-what-makes-it-hard)
3. [The modules](#3-the-modules)
4. [Matchmaking: the module and the code](#4-matchmaking-the-module-and-the-code)
5. [SessionResume: the module and the code](#5-sessionresume-the-module-and-the-code)
6. [The other modules and the code](#6-the-other-modules-and-the-code)
7. [Runs, bounds, fairness](#7-runs-bounds-fairness)
8. [Proofs](#8-proofs)
9. [Disagreements between code and documentation](#9-disagreements-between-code-and-documentation)
10. [What is not modelled](#10-what-is-not-modelled)

## 1. The system

One Node.js process (one replica: `apps/api/k8s/deployment.yaml`) accepts Socket.IO
connections, pairs waiting users two by two into *rooms*, relays chat messages and
WebRTC signalling inside a room, and ends the room when somebody leaves. All state that
has to outlive a handler is in Redis, over one connection. Browsers run a set of React
hooks that follow the server's events and a peer-connection manager that negotiates
media. Administrators watch, and intervene, through a namespace of their own.

| component (paths under `src/apps/`) | state it keeps | operations | what makes it correct |
|---|---|---|---|
| **Matchmaking** `api/src/handlers/socketio/match.handler.ts`, `services/chat/matchmaking.service.ts`, `scripts/redis/match.lua` | sorted set `matchmaking:queue`, claims in `user:room:<uid>`, `matchingInProgress` | join, cancel, the matcher's tick, `tryFindMatch`, `createAndNotifyMatch`, `releaseAndRequeue` | a user is in one pair at a time; no claim, lock or queue entry outlives its purpose; two searchers find each other |
| **Rooms** `services/chat/room.service.ts`, `handlers/socketio/room.handler.ts` | `room:<id>`, `user:room:<uid>`, delete lock, `room:count`, chat list | createRoom, deleteRoom, leave, cleanup after a disconnect, stale-room sweep | a room's members are bound to it until it is deleted; nobody stays in a room that is gone; no room without people |
| **Sockets** `handlers/socketio/index.ts`, `connection.handler.ts` | `connections` map, `socket.state/roomId/partnerId`, a promise chain per socket, per-IP counters | handshake, register, serialised operations, disconnect | operations of one socket run in order; the registry points at the live socket |
| **Session resume** `services/chat/sessionResume.ts`, `index.ts` | held sessions with a grace timer, resume tokens | hold, claim, expiry, restore | a drop is answered by exactly one of restore and teardown; nobody is told of a room that is gone |
| **Maintenance, scheduler** `services/admin/maintenance.service.ts`, `services/scheduler/statusScheduler.ts`, `app.ts`, `web/src/providers/MaintenanceGuard.tsx` | `system:maintenance` in Redis, a cached copy, `lastApplied`, what a page shows | toggle, refresh, nightly close, boot, poll | a toggle is enforced, lasts, and survives a restart; every page follows |
| **Redis protection** `services/core/redis.ts`, `lib/circuitBreaker.ts`, `lib/retryHandler.ts` | breaker state and counters | execute, onSuccess, onFailure, reset | an open breaker rejects, recovers after its timeout, and concurrent calls keep its counters meaningful |
| **Bots** `services/bots/*`, `handlers/socketio/bot.handler.ts` | bot pool, their queue members and keys, error counter | enable, disable, claim, fall back, answer, fail | map, keys and rooms agree; a disable leaves nobody with a bot |
| **Chat relay** `handlers/socketio/chat.handler.ts`, `web/src/hooks/useChat.ts` | chat list in Redis, messages and indicator of each page | message, typing, bot reply, incident scan | messages stay in their chat, in order, recorded; none is lost untold |
| **Signalling relay** `handlers/socketio/signal.handler.ts` | counters per uid | relay, reset | signals reach only the partner of the same room |
| **Client peer connection** `web/src/services/rtc/**` | peer connection, epoch, signal inbox, restart timers | offer/answer/ICE, restart, rebuild | both sides end with one connection of one generation, or say that they gave up |
| **Client session** `web/src/hooks/useMatchmaking.ts`, `useVideoChat.ts`, `useRtc.ts` | match state, session on the screen, call that is up | start, stop, next, leave, every event of the server, timers | the page follows the server, whatever the order of events |
| **Administration** `handlers/socketio/admin.handler.ts`, `admin/src/hooks/useAdminSocket.ts` | admin connections, batches of updates, monitored and taken-over rooms, the lists of a dashboard | announce, list, monitor, note, impersonate, kick, close | the dashboard converges to what the server has; a watcher is served and nobody else |
| **Rate limiters** `utils/boundedRateLimiter.ts`, `socketRateLimiter.ts`, `middleware/rateLimiter.ts` | bounded maps of token buckets | consume, evict, sweep | a refusal is reported; no more than burst + rate × time per key |
| **Other** (HTTP API, tracking, incidents, recordings, analytics, user interfaces, deployment) | database rows, view state | request/response | outside the protocols below |

How they interact. A packet from a browser is put on its socket's promise chain
(`index.ts:287`), which runs `handleJoin`, `handleCancel` or `handleLeave` one at a time;
messages, typing and signals are not put on it.
A timer runs `processQueuedUsers` twice a second; it starts several `tryFindMatch` calls
without awaiting them. Each call runs `match.lua`, which claims two users and takes them
off the queue in one atomic script, and then checks, mints ICE servers, creates the room
and makes the two sockets active. When a socket closes, the connection handler forgets it
synchronously, and either the session is held for a grace period or
`cleanupUserOnDisconnect` takes the user out of the queue and out of its room. All of
these read and write the same Redis keys and the same fields of the *other* user's socket
object, with awaits in between, and each announces to the dashboards what it did, or
forgets to.

## 2. What makes it hard

The hazards, each at the line where it bites and with the properties that would catch it,
are in `PROJECT.json` under `hazards`. The groups:

* **Interleavings between awaits.** Several attempts are in flight at a time, each touching
  two users; joins, cancels, leaves, disconnects and cleanups of those users run between
  any two of their steps. The same goes for the pages: a match, a departure and a press of
  a button meet in the awaits of `handleMatched` and `endSessionFinal`.
* **Checks made before an await and used after it**: sockets captured before ICE is
  minted, a claim read before it is deleted, the queue read before it is written, a held
  session claimed before its room is read, the maintenance flag asked before it is set.
* **Order**: urgent updates pass batched ones; a flagged message is passed by later ones;
  an answer of an old generation arrives after the next offer.
* **Partial failure**: any Redis call may throw, and each attempt has several catch blocks
  which must undo locks, claims and queue entries of *two* users; a disable goes on after
  a step that failed; a limiter refuses one message of several.
* **Timeouts**: the 30 s claim against a live attempt; the grace timer against the
  returning user; the breaker's recovery against calls started before it opened; two
  rebuild timers against a call that is coming up; the dashboard that forgets users who
  have been silent for two minutes.
* **Liveness**: two attempts that refuse each other forever, a flag that is never taken
  back, a call that is silently dead, an indicator that never goes off.

## 3. The modules

A module *X* has its runs in `MCX.tla` / `MCX*.cfg`, and its proofs in `XProofs.tla`; the
proofs about `CircuitBreaker` and `Maintenance` share `ServiceProofs`, those about
`Moderation` and `AdminFeed` share `AdministrationProofs`.

| module | what it specifies | how it meets the others |
|---|---|---|
| `Pairing` | what pairing promises: claims, releases, rooms opened and closed for whole pairs | abstract |
| `Matchmaking` | queue, attempts, socket operations, rooms, cleanups | implements `Pairing` |
| `SessionResume` | drops, grace timers, restores, teardowns, closing of the site, what the clients are told | a match is one step, detailed in `Matchmaking` |
| `CircuitBreaker` | the breaker under concurrent calls, with retries | below every Redis call |
| `Maintenance` | stored flag, cached copy, scheduler, restarts, the page that polls | `SessionResume` has what closing does to chats |
| `BotPool` | the pool of bots, its members in the queue, chats with one, failing replies, enable and disable | the bot branches that `Matchmaking` leaves out |
| `PeerNegotiation` | both browsers' `PeerManager` over the signalling relay: offers, collisions, generations, rebuilds, timers, resumes | the events of a resume come from `SessionResume` |
| `ClientSession` | one browser's match state, session on the screen and call | the server of `Matchmaking` and `SessionResume` as one component, with the await of a cancel |
| `ChatRelay` | messages, typing and bot replies, from `useChat` through the server to `useChat` | chats made in one step, left in two; a chat with a bot has one of its own |
| `AdminFeed` | users and rooms as a dashboard shows them against those of the server | a coarser `Matchmaking` and `SessionResume`, cut where they announce |
| `Moderation` | tabs of an administrator who watches, moderates, impersonates and is revoked | the messages of a room, which it reads from the history |

The compositions are by abstraction: each module carries the part of the others that its
properties need, at the granularity stated in its header, because the product of two full
models is beyond TLC. Only `Matchmaking` refines a separate specification.

Still to be written, in this order: `RateLimiter` (the bounded buckets and their eviction
against an abstract bucket per key), `RoomStore` (the delete lock with its TTL,
`room:count`, the stale-room sweep), `MatchScript` (candidate choice of `match.lua`
against a reference definition), and an abstract session for `SessionResume` to implement.

## 4. Matchmaking: the module and the code

**Granularity.** The handlers are async functions of one event loop sharing one Redis
connection, whose replies come in the order of the commands. A step is one command (or
script) with the synchronous code that runs when its reply arrives, up to the next await.
Local events (a packet, a disconnect, the tick) are steps of their own. Merged into one
step: the commands of `createRoom` with the lines after it that make the sockets active
(both keys hold the claim's id already; a leave or cleanup that saw the room needs at
least five more round trips, `createRoom` three); the two GETs of `getRoomByUserId`; the
two GETs, and the two DELs, that `releaseClaim` issues together.

**Actors.** Each user has, at a time, at most one attempt (`mpc`), one running socket
operation with a queue behind it (`opc`, `chain`) and one cleanup (`cpc`).

| state | code |
|---|---|
| `queue` | members of `matchmaking:queue`, as ⟨uid, joinedAt⟩: `removeFromQueue` removes exactly the member it read, and an old and a new entry of one user are different members |
| `userRoom` | `user:room:<uid>`: a claim (match.lua) or a binding (createRoom); the two share the key |
| `live` | `room:<id>`, as the set of its members |
| `delLock` | `lock:room:delete:<id>` |
| `connected`, `registered`, `state`, `roomId` | `socket.connected`, membership of `connections`, `socket.state`, `socket.roomId` |
| `matching` | `matchingInProgress` |
| `mpc`, `peer`, `claim`, `mEntry`, `selfTodo`, `peerTodo` | locals of `tryFindMatch`, `createAndNotifyMatch`, `removeFromQueue`, `releaseClaim`, `releaseAndRequeue` |
| `chain`, `opc`, `op*` | the socket's promise chain and the locals of the running handler |
| `cpc`, `c*` | locals of `cleanupUserOnDisconnect` |

| actions | code |
|---|---|
| `Tick` | `processQueuedUsers` |
| `FindMatch`, `FindNone` | `match.lua`, its reply, and `createAndNotifyMatch` up to its first await |
| `AbortReadsQueue`, `AbortRemovesEntry`, `RequeueCheck`, `RequeueAdd` | the abort paths: `removeFromQueue`, then `addToQueue` for the user who is still there |
| `CheckSelfRoom`, `CheckPeerRoom`, `CreateRoom` | the rest of `createAndNotifyMatch` |
| `ReadClaim`, `DropClaim` | `releaseClaim` inside `releaseAndRequeue` |
| `Receive`, `Begin*`, `Join*`, `Cancel*`, `Leave*` | packets and their handlers |
| `Disconnect`, `Clean*` | `handleDisconnection`, `cleanupUserOnDisconnect` |
| `ClaimExpires`, `QueueExpires` | TTLs of a claim and of the queue |
| `CreateRoomFails`, `RequeueFails`, `FindReplyLost`, `JoinAddFails` | a Redis call that throws, with the catch blocks it reaches |

**Abstracted.** Which of several candidates `match.lua` prefers (gender tiers, last
partner) and which waiting users a batch of the tick takes are left open: every choice of
the code is one the model makes too. Messages, names, statistics, rate limits and the
chat archive are left out. A uuid never equals one that Redis or a handler still knows.
Bots are disabled (`BotPool` has them). A disconnected socket does not come back (resuming
is `SessionResume`).

**The abstract specification.** `Pairing` has two variables: what each user is bound to,
and which pairs are open. A claim binds two unbound users, a release unbinds members of a
pair that is not open, opening needs both bound to the same fresh id, closing unbinds both.
`Matchmaking` implements it with `bound <- userRoom` and `open <- live`: no interleaving
of attempts, leaves and cleanups opens a room for a pair that was torn apart, or takes a
binding from an open room.

## 5. SessionResume: the module and the code

When the network drops, an active chat is *held* for a grace period: the room stays, the
partner is told to wait, and a timer runs. The client comes back with a token on a new
socket (`Return`), and `restoreSession` looks the room up, makes the socket active,
requests ICE and tells both clients. Leaves, goodbyes, expired timers and the closing of
the site end the room meanwhile.

| state | code |
|---|---|
| `live`, `used`, `userRoom` | `room:<id>`, room ids handed out, `user:room:<uid>` |
| `owner`, `up`, `state`, `roomOf`, `partnerOf` | a socket's `uid`, `connected`, `state`, `roomId`, `partnerId` |
| `shows`, `away` | what the client was told last: the room it shows, and whether its partner is shown as reconnecting |
| `conn` | `connections` |
| `held` | `PendingSessionRegistry.pending`, with its timers |
| `open` | `maintenanceService.isOpen()` |
| `rpc`, `session` | `restoreSession`: waiting for `getRoom` ("room") or for ICE ("mint") |
| `lpc`, `lRoom`, `lPeer` | `handleLeave`: archived and about to delete ("delete"), saving the partner history ("end") |
| `jobs` | runs of `cleanupUserOnDisconnect`, before and after they found the room |

| actions | code |
|---|---|
| `Arrive`, `Join`, `Match` | a new client's handshake and join; a later join; `createAndNotifyMatch` |
| `Drop`, `Bye` | `handleDisconnection` for a transport drop and for a close on purpose |
| `GraceExpires`, `Return` | the timer of `hold`; `claim` |
| `RestoreReads`, `RestoreFails`, `RestoreTells` | `restoreSession` between its awaits |
| `Leave`, `LeaveDeletes`, `LeaveEnds` | `handleLeave` between its awaits |
| `CleanupLooks`, `CleanupDeletes` | `cleanupUserOnDisconnect` |
| `CloseSite`, `OpenSite` | `applyMaintenanceState` |

**Abstracted.** A match is one step, and so is a deletion with the notice to the partner,
which follow each other within a few round trips. `JoinedAfter` keeps the order that one
Redis connection imposes: what a user's earlier handler had started is over before the
user's new join is matched. The archive and the ICE request may take any time. Sockets and
room ids are used up in a fixed order. A browser that returns without a held session gets
a new uid, so it is another user. A token names a held session and nothing else. Sockets
of an administrator who takes a chat over are left out.

*What each property says*

* `HeldAlone`: a held session belongs to a user who is absent and whose grace teardown has
  not begun; a grace teardown belongs to a user who cannot come back. A drop is answered
  by a restore or by a teardown, never by both.
* `RoomAttended`: every member of every room has a socket, a held session *for that room*,
  or a handler on its way to end it. No room is left to its TTL.
* `AwayResolves`: a partner who sees "reconnecting" in a live chat does not see it forever.
  It speaks of live rooms: a client that was told 'reconnected' about a room that is gone
  (section 9) is beyond what the server does later.
* `EmptyRoomEnds`: a room whose members are both gone is deleted or one of them returns.

## 6. The other modules and the code

In each, a coroutine is cut at its awaits; what runs between two of them is one step.

### CircuitBreaker

`executeWithProtection` wraps a Redis operation in the breaker, and the optional retry
loop runs *inside* it. Handlers interleave, so many calls are between their look at the
breaker and their report to it.

| state | code |
|---|---|
| `state`, `failureCount`, `successCount` | the fields of that name; the failure count stops at the threshold, as only that comparison matters |
| `wait` | `nextAttempt` minus the present, not below 0 |
| `sinceFailure` | the present minus `lastFailureTime`, not above `ResetTimeout + 1` |
| `pc`, `retry`, `attempt` | where a call is, its `options.retry`, the loop variable of `executeWithRetry` |
| `healthy` | whether Redis works; an attempt ends accordingly |

`Execute`, `Succeeds`, `Fails`, `TriesAgain` are `execute` and `executeWithRetry` between
their awaits, `Reset` is `reset()`, `Tick` lets time pass, `Changes` breaks or heals
Redis. `reset()` is documented (`docs/WEBSOCKET_API.md:579`) and public, though no handler
calls it; every property holds with it and without it. Left out: `connect`, the subscriber
pool, the cached health flag, the metrics.

* `CountersFit`: a closed breaker has room for another failure; successes are counted in
  the half-open state only and start from zero, whatever late calls report.
* `OpenUntilTimeout`: only `execute()` after `nextAttempt`, or `reset()`, ends the open
  state; no late success does.
* `Recovers`: once Redis is healthy for good, the breaker closes for good.

### Maintenance

`stored` is the key in Redis, `proc` the process with the copy that joins are refused by
(`cached`), the one the dashboards get (`status`), `lastApplied` and the flags of the
boot; `queue` holds the commands that Redis has not answered, in order; `page` is a
browser that polls. `Boot`, `Die`, `Toggle`, `Tick`, `Hour`, `Join` and the poll of the page
are actions; `Read`, `ReadFails`, `Store` and `StoreFails` answer the command at the head of
the queue, with the continuation that awaits it; `Expire` ends the time that a cached
read is good for. A process may die and start again at any time. The server listens before
the flag has been read (`app.ts:393`, `:410`): joins of that time meet the default, and a
toggle of that time (`proc.early`) goes on beside the start.

* `EnforcedIsStored`: joins are refused by what is stored, however toggles, ticks and boots
  overlap. `torn` marks the two exceptions the code has: a failed command, and a read that
  was asked before a write and comes after it.
* `ClosedIsEmpty`: in a closed site nobody remains but those whose join had passed the gate.
* `AdminReopens`: a close that stands in an administrator's name is reopened by an
  administrator, or by a start that had asked for the state before the close was given. That
  the code lets this start do so is a line of section 9 (`StartSparesAdmin`), as is the close
  that a tick renames (`AdminCloseKeepsName`).
* `PageFollows`: every page comes to show the stored state.

### BotPool

Bots are numbered 1..`pool`, because a disable clears the map and starts the numbers again,
so a number names different bots at different times, as the code's ids do. `bot` holds for
each number the chat in the map, the members in the queue and the key in Redis; `user` a
man's search and attempt, `socket.state` (`st`) and whether his page shows a chat (`shown`);
the two differ after a bot's end of the chat, which tells the page and leaves the socket
'active' (`bot.handler.ts:77`); `tasks` the coroutines that have only steps to do (a
leave, a cleanup, a disable) and `replies` those of the model. `MaxErrors` is 2 where the
code has 3. Women are left out: a bot claimed for one is released at once.
`ghost.odd` names the three ways in which the code itself lets map, keys and rooms come
apart ("shared": the fallback takes a bot that an attempt has claimed; "crossed": a failed
reply ends another chat; "late": a step outlives a disable); the two agreement
properties say that there is no other.

* `ActiveHasRoom`: a man who is shown a chat has its room and its key.
* `BotsAndRoomsAgree`: a live room has its bot in the map and under its key, or is being
  deleted; a bot in a chat has a live room, or will be freed.
* `DisabledIsClean`: after a disable no room with a bot remains and none can be matched.

### PeerNegotiation

`PeerManager.run` queues its operations, so an operation is a step. `chan[p]` is what is
under way to a peer: the relay, the inbox and the queue, all FIFO. A description is a tag
(who offered, generation, count); SDP, candidates and tracks are reduced to what collisions
and generations depend on. Faults are lost signals, broken networks, resumed sockets and
timers that end before a signal does.

* `SignallingConverges`: with nothing under way and no signal lost, both have completed
  the same exchange, whatever collided.
* `AnswersOwnOffer`: no answer is applied to an offer it does not answer.
* `LatestTrackIsSent`: what a peer sends is its latest track, however a switch falls
  between an offer, its rollback and a rebuild.
* `NeverSilentlyDead`, `CallRecovers`: any one fault is recovered from within
  `MAX_CONSECUTIVE_REBUILDS` (3, as in the code); after two the limit may be reached, and
  then a peer says so. At the limit a newer offer is applied to a connection that was not
  rebuilt, and answered with the old generation (`peer.manager.ts:357`): such a call is
  one of those that end by giving up.

### ClientSession

`mm` is `useMatchmaking`, `vc` is `useVideoChat` with `useRtc`, `matched` the runs of
`handleMatched`, which may overlap, cut at `leaveRTC`, at `service.join` and at the second
between the attempts. `srv` is the server behind two FIFO channels: it takes up one request
after the other, answers a join and a leave at once, and a cancel after its await, in which a
match may come. A match is with a human or a bot (`rtc`); one with a bot has no call. The
timer of a resume is a part of the machine (`grace`): `handleClose` arms it, every message
that ends the wait clears it. Three parts of `ghost` name what a property has to set apart:
`lost` are the rooms that a refused join met or that came while a cancel was under way,
`failed` those whose call failed twice, and `stray` tells that a call may be up that no
session has: a set-up outlived its session or overlapped another, or a bot came over a call.
`machines/matchmaking.machine.ts` and `useMatchmakingMachine.ts` are exported and used by
nothing, so they are not what the model follows.

* `MatchmakingAgrees`: with nothing under way, page and server agree on room and search; a
  `lost` room the page may have forgotten, but it never has another room for it.
* `CallFollowsSession`: the call that is up is the one of the session on the screen, none for
  a bot, unless one has gone astray. A stray call ends with the next match that has a call,
  or the next leave, that finds no set-up about.
* `CallComesUp`: every session with a human gets its call, unless both attempts fail.
* `ResumeResolves`: a wait for the socket ends, and with it the session, unless it is back:
  not just the flag, but the screen follows the end.
* `LeavingResolves`: no guard flag stays.

### ChatRelay

`up` and `down` are the wires; `calls` the runs of `handleMessage` that wait for Redis,
which answers in order; `scans` those whose incidents are being written; `replies` those of
a bot; `cli` is `useChat` with the parts of the session that it depends on, and `cli.kept`
what `pendingIncomingRef` comes to when a session begins. A message that is sent to a
browser has the room of socket.io that it was sent into, which the browser is not told
(`room`), beside the chat that its writer's page had (`chat`): the two may differ, see
section 9. Messages do not
go through the socket's chain, so a leave or a join may run between any two awaits. Only
the one who is `Talker` writes, and only the first message may have something in it for
the scan. A limiter's refusal is a choice, and so is a lookup of the room or a write to the
history that fails: both are swallowed, and the message is refused, or goes on unrecorded
(`room.lost`). The typing indicator's timer is modelled as it
behaves: `useVideoChat.ts:237` passes new callbacks on each render, so every change of
state runs the effect again and clears the timer (`useChat.ts:176`).

* `NoCrossTalk`: what a person said and the server sent into a chat comes to a browser only
  while the last news of a match that it has had, or has before it, are of that chat, or
  while it shows no chat at all.
* `CleanOrderKept`: messages that the scan does not flag keep their order, those kept for
  the session included; a flagged one is passed by later ones.
* `ShownIsRecorded`: what the partner reads is in the history while the room is there,
  unless its own write failed; a bot's reply is shown before it is stored. The archive that
  a leave writes may still miss what is shown between its read and the removal of the room.
* `SaidIsSettled`: every message to a person is shown, or refused to its sender, or its
  chat ends.
* `BotStopsTyping`: a bot's indicator goes off, whether it answers, fails or is gone.

### AdminFeed

`sock`, `rooms`, `op`, `clean`, `making` and `order` are the server, cut where handlers
announce; `feed` is the dashboard with the queued batches; `lists` the full lists that are
being read. The wire is FIFO, so an update counts as received when it is sent: the urgent
ones at once (`TellNow`, `TellDeleted`), the others with their batch (`Tell`, `TellCreated`,
`Flushed`). `feed.badUsers` and `feed.badRooms` collect those whose last word was one of:
untrue when sent, ahead of a queued older one, never sent, overtaken by a resume, read before
a change, two minutes old. `Pending` and `PendingRoom` are those on whom a word is still to
come: a leave that is not announced yet, a user who is held for a resume, a match that is
being made, a deletion that is being told. Names that `Moderation` has too begin with `Feed`.

* `DashboardAgrees`: apart from those, users and rooms are shown as they are. Every entry of
  the exceptions is a line of section 9.

Two of the exceptions were found by looking for the inductive invariant, and are beyond the
bounds of the run. A member whose grace is running when the partner is kicked may be back
before the partner's cleanup: its `room_deleted` makes the dashboard drop everybody it shows
in the room, and nothing more is said of the one who is back (`Dropped`). And a cleanup that
tells the dashboard "idle" of a partner who is being restored is overtaken by the restore,
which makes the partner active again and announces nothing (`PartnerIdle`).

### Moderation

One administrator with several tabs and one room. The server keeps `monitoredRooms` and
`takeoverRooms` per administrator, the page per tab. `conns` are connections, which
authenticate over an await and are noticed broken late; `msgs` the history and the messages
stored but not yet broadcast. `getChatHistory` returns the *first* hundred messages, here
`Limit` = 1.

* `WatcherHasSocket`: nobody is recorded as watching or moderating without a connection.
* `MessagesShownOnce`: a page that has the history shows each message once, but for the two
  races with that history and the tabs that another one has silenced.
* `WaiterIsTold`: a member told to wait for an impersonated one is still to be told how it
  ended. Two handlers may do so, the cleanup of the one who was put out and the waiter's own
  leave, each cut at its awaits (`CleanupFind`, `CleanupDelete`, `CleanupTell`;
  `WaiterLeaves`, `EndByWaiter`, `WaiterIsOut`): the one that finds the room gone says
  nothing, so the other must. The administrator's tab may come in between. A cleanup of which
  a call fails (`CleanupFails`) leaves him waiting: section 9.

## 7. Runs, bounds, fairness

| run | bounds | checks |
|---|---|---|
| `core3` | 3 users, 3 room ids, batch of 2, 4 packets or disconnects | `PairExclusive`, `AttemptsSettle`, `SearchersReachable`, `BindingEndsWithRoom`, `ImplementsPairing` |
| `faults` | 2 users, 2 stamps, 3 packets, one failing call, fairness | `PairingInv`, `ActiveHasRoom`, `EventuallyPaired` |
| `resume` | 2 users, 4 sockets, 2 rooms, 3 events, one failing lookup, fairness | `HeldAlone`, `RoomAttended`, `AwayResolves`, `EmptyRoomEnds` |
| `breaker` | 3 calls, thresholds 3 and 2, 1 retry, 4 changes of health, fairness | `OpenUntilTimeout`, `Recovers` |
| `maintenance` | 2 toggles, 2 faults, 2 changes of the hour, fairness | `EnforcedIsStored`, `ClosedIsEmpty`, `AdminReopens`, `PageFollows` |
| `reopen_undone` | the same | `SchedulerSparesToggle`, violated: see section 9 |
| `bots` | 2 men, 2 bots, 2 searches, 2 rooms, 2 messages, 1 request | `ActiveHasRoom`, `BotsAndRoomsAgree`, `DisabledIsClean` |
| `peer` | 2 peers, 3 rebuilds, 1 switch, 2 faults, fairness | `SignallingConverges`, `LatestTrackIsSent`, `AnswersOwnOffer`, `NeverSilentlyDead`, `CallRecovers` |
| `client` | 2 rooms, each with a human or a bot, 2 presses, 1 drop, 1 media fault, fairness | `MatchmakingAgrees`, `CallFollowsSession`, `ResumeResolves`, `LeavingResolves`, `CallComesUp` |
| `chat` | 2 people and a bot, 2 chats, 2 messages, 1 move, 3 acts, fairness | `NoCrossTalk`, `CleanOrderKept`, `ShownIsRecorded`, `SaidIsSettled`, `BotStopsTyping` |
| `feed` | 2 users, 1 room, 2 joins, batches of 2, 2 further events | `DashboardAgrees` |
| `moderation` | 2 tabs, 2 connections, 2 messages, 3 acts | `WatcherHasSocket`, `MessagesShownOnce`, `WaiterIsTold` |

Each property has a mutant of the code in `PROJECT.json` that breaks it within these
bounds. `TypeOK` is no invariant of the runs: it is proved where section 8 says so, and a
configuration becomes a check of it by adding one line.

*Why the bounds are enough.* In `Matchmaking`, two users give every race between one
attempt and the packets, disconnects and cleanups of both its users, and two attempts for
the same pair (both ticked together). The third user adds two attempts competing for one
partner, and a user matched into a second room while handlers of the first are still
running; with `Batch = 2` the tick also has to choose. Four packets are two joins and two
further events (leave, cancel, disconnect, second join) at any time. Two stamps tell an
old queue member from a new one. Three room ids leave one to spare whenever two are in
use. `MaxChain = 2` lets a packet wait behind another one behind a running one.

In `SessionResume` an event is a drop, a goodbye, a leave or a toggle of the site. Three of
them are, for example, two drops and a leave between them; two arrivals leave two sockets,
for two returns; the second room lets a partner be in the next chat while a handler of the
last one still runs.

In `CircuitBreaker` three calls are one that fills the threshold and two that report late
or probe together, and four changes of health are two failures and recoveries. The timers
are two ticks and one, which tells apart "before", "at" and "after"; no other length
matters, because attempts take any time.

In `Maintenance` two toggles and two changes of the hour let a toggle, a tick and a boot
overlap in every order, with a command of each failing. In `BotPool` two men and two bots
let two attempts want one bot; one request of the administrator starts a disable at any
point, and two failures disable the bots as well; two requests (a disable and an enable) are
beyond the run's time. In `PeerNegotiation` one fault is what the code must survive and two
are what it may give up on; one switch of a track is enough to fall anywhere in an exchange.
In `ClientSession` two presses are a start and a stop, a Next, an End or a second start at
any time, and a Next brings the second room, with a human or a bot; a drop and a failing
call fall anywhere in this. More presses are left to the proofs of the two invariants. In
`ChatRelay` two messages can be overtaken, two chats can be confused, one move ends the
first of them, and three acts leave one refusal, or failing call, beside the two messages or
a message, a move and a refusal. That a message of the last chat finds its reader in the
next one with somebody else takes a third person and a second move; `NoCrossTalk` holds
there too (3 people, 1 message: 2.4 million states), and section 8 proves it. In `AdminFeed`
one room is made, announced and ended with one more event in between; the dashboard's
exceptions concern the last update of one user or room, so two users suffice. What takes a
second room is left to the proof of `DashboardConverges`, and was looked at once with 2
rooms, 3 joins and 2 further events (5.8 million states). In `Moderation` two tabs, or a tab
and its reconnection, are what the tables confuse.

*What each property of `Matchmaking` says* (those of the other modules are in sections 5
and 6)

* `PairExclusive`: pairs on their way to a room and existing rooms are disjoint.
* `AttemptsSettle`: an attempt that has ended leaves no claim and no lock in
  `matchingInProgress` behind; only a failure may leave one.
* `SearchersReachable`: of two waiting users with nothing in progress at least one is in
  the queue, where the other's attempt finds it.
* `ActiveHasRoom`: nobody is left active in a room that is gone.
* `BindingEndsWithRoom`: bindings of an existing room stay until it goes.
* `PairingInv`: the inductive invariant of section 8, which contains `LiveRoomMapped`.
* `EventuallyPaired`: two users do not both search forever.

*Fairness* (`FairSpec`). In `Matchmaking`, `setInterval` fires again and again: weak
fairness of `Tick`. Redis answers and a promise chain runs what it holds: weak fairness of
each user's attempt, operation and cleanup. A TTL ends: weak fairness of `ClaimExpires`.
Clients, failures and the queue's TTL owe nothing. In `SessionResume`, Redis and the ICE
provider answer (ICE is cut off after 4 s), so restores, leaves and cleanups go on, and
grace timers fire. In `CircuitBreaker`, time passes, operations end, and handlers go on
calling Redis: without traffic the breaker would stay open, since only `execute` half-opens
it. In `Maintenance`, Redis answers or fails, a dead process is started again, and a page
goes on polling. In `PeerNegotiation`, signals are delivered, operations run, timers end and
a complete exchange leads to a connection. In `ClientSession` and `ChatRelay`, awaits end
and events are delivered. No button is ever pressed of necessity, and nobody is matched of
necessity.

*Deadlock* is checked in `breaker` only. Elsewhere a behaviour ends when its packets,
presses or events are used up.

`ClaimMayLapse` is FALSE in the runs: a claim lives 30 s (`claimTtlSeconds`), an attempt
does a few round trips and one ICE request cut off after 4 s
(`services/turn/cloudflare.ts`). With `ClaimMayLapse` TRUE, a claim may lapse under a live
attempt: `LiveRoomMapped` and `BindingEndsWithRoom` then fail, so the code does depend on
that margin, and the proofs assume it.

## 8. Proofs

`MatchmakingProofs` proves, for any sets of users, rooms and stamps, any batch size, any
number of packets and any failures:

| theorem | statement | assumes |
|---|---|---|
| `TypeCorrect` | `Spec => []TypeOK` | |
| `PairingInvariant` | `Spec => []PairingInv` | `ClaimMayLapse = FALSE` |
| `PairsExclusive` | `Spec => []PairExclusive` | `ClaimMayLapse = FALSE` |
| `RoomsMapped` | `Spec => []LiveRoomMapped` | `ClaimMayLapse = FALSE` |
| `BindingsEnd` | `Spec => BindingEndsWithRoom` | `ClaimMayLapse = FALSE` |
| `Implements` | `Spec => ImplementsPairing` | `ClaimMayLapse = FALSE` |
| `ActiveInRoom` | `Spec => []ActiveHasRoom` | `ClaimMayLapse = FALSE` |
| `AttemptsSettled` | `Spec => []AttemptsSettle` | the same, and `FailingCalls = {}` |
| `SearchersReachableAlways` | `Spec => []SearchersReachable` | `FailingCalls = {}`, `Users` finite |

`ClaimMayLapse = FALSE` says that an attempt takes less than the TTL of its claim (section
7 has the run in which it does not, and what fails there); `FailingCalls = {}` that no
command of Redis fails. Both are the constants of the runs that check these properties.
`SearchersReachableAlways` needs the finite set to count who waits.

*The argument.* None of the safety properties is inductive: that an attempt about to write
a room still holds its claim depends on what every other handler may have done to
`user:room`. `PairingInv` adds what the code relies on: an attempt past its script knows
its partner and its id (`AttemptKnown`, `LeaveKnown`, `CleanupKnown`), and while it holds
its claim, exactly its two users are bound to that id, no room of that id exists and no
other attempt uses it (`ClaimsHeld`). Type correctness is proved first, variable group by
variable group. Then each action is shown to have one of five shapes with respect to the
two keys and the attempts: it leaves them alone, claims, releases, opens or closes. One
lemma per shape says that it keeps `ClaimsHeld` and `LiveRoomMapped` and is a step of
`Pairing` or a stutter, so that the invariant, the action property and the refinement all
follow from the same case analysis.

Three further invariants stand on it. `Settled` follows each lock of `matchingInProgress`
and each claim to the attempt that answers for it: an attempt that has not found anybody
owns nothing, no two own the same claim, one that puts a user back has dropped its claim
(`Books`), and whoever is bound to a room's id is one of the room's two members
(`BoundInRoom`, `Pairs`). `Seated` ties the socket to the room: no handler is about to take
down a room that is yet to be written (`NewRooms`), one that takes a room down knows both
of its members (`RoomSeen`), and an active socket has a room or a handler that is about to
tell it (`ActiveIsHeard`). For `SearchersReachable` the invariant is that at most one user
is stranded, waiting in no queue with no handler about to put him back (`OneStranded`): the
TTL of the queue runs out only while fewer than two wait, and every other step strands
nobody who was not (`Unharmed`, one lemma per handler). It does not stand on the claims, so
that they may lapse.

`SessionResumeProofs` proves, for any users, sockets and rooms, any number of events and
any failing lookups:

| theorem | statement |
|---|---|
| `TypeCorrect` | `Spec => []TypeOK` |
| `HeldStaysAlone` | `Spec => []HeldAlone` |
| `RoomsAttended` | `Spec => []RoomAttended` |

*The argument.* A drop hands the responsibility for a room from the socket to a held
session, a return hands it back, an expiry to a cleanup, and the hand-over is right only if
each of them names the same room. `IInv` says so: the registry holds exactly the connected
sockets (`Registry`); while a restore looks for its room its user has nothing else
(`Looking`); and key, held session, session being restored and active socket all name the
room the user is in (`Places`). Five lemmas, one per group of conjuncts and one case per
action, show that every step keeps it. The one assumption is that `None` is no user,
socket, room or session.

`ServiceProofs` proves of `CircuitBreaker`, for any calls, thresholds and times:

| theorem | statement |
|---|---|
| `BreakerTypeCorrect` | `BreakerSpec => []BreakerTypeOK` |
| `CountersAlwaysFit` | `BreakerSpec => []CountersFit` |
| `OpensUpInTime` | `BreakerSpec => OpenUntilTimeout` |

`CountersFit` (which no run has) is inductive with the types; types need that a call that
waits between attempts has one left (`RetriesLeft`). Thresholds have to be at least 1: the
constructor replaces 0 by its default.

and of `Maintenance`, for any number of toggles, ticks, boots and faults:

| theorem | statement |
|---|---|
| `TypeCorrect` | `Spec => []TypeOK` |
| `EnforcedStored` | `Spec => []EnforcedIsStored` |
| `AdminReopensAlways` | `Spec => AdminReopens` |
| `ClosedSiteEmpty` | `Spec => []ClosedIsEmpty` |

*The argument.* A continuation acts on the answer of a command that was asked earlier, so
the invariant speaks of the queue: which kinds of command may be under way in which state of
the process (`Allowed`), that the reads of a boot and of a poll occur at most once, and that
the state which the process caches agrees with what will be stored once the queue is
answered, unless `torn` (`Agrees`). Lemmas on `Append` and `Tail` say how each part follows
a queue that grows at the end or is answered at the front; then one lemma per group of
actions keeps the invariant. A start that nobody came too early for has no write of an
administrator under way beside it, so what it reopens is the scheduler's. `ClosedSiteEmpty`
adds that somebody in a site the process takes for closed has a close under way that will
put him out (`Emptied`).

`AdministrationProofs` proves of `Moderation`, for any tabs, connections, messages, history
limit and acts:

| theorem | statement |
|---|---|
| `TypeCorrect` | `Spec => []TypeOK` |
| `WatcherConnected` | `Spec => []WatcherHasSocket` |
| `MessagesOnce` | `Spec => []MessagesShownOnce` |
| `WaitersAreTold` | `Spec => []WaiterIsTold` |

*The argument.* `Watched` is inductive. It ties the three views of a connection together,
the page's, the network's and the server's (`Linked`): a page's connection is one the
network holds for that page, a page that is authenticated has one that the server let in,
handlers run only for such connections, and the table lists each of those that are up, once.
A page in peace is one the server serves, while monitoring is on (`FreshServed`). The
history holds the messages in the order they were sent, a handler that read it holds a
prefix of it (`Stored`), and a page in peace shows each message that did not race with its
history exactly once, or not at all as long as that message is still being broadcast
(`ShownRight`). While the other member waits, whoever ended the room has still to tell him,
or has failed, and a cleanup that is over had found the room ended (`RoomKnown`). One lemma
per action, and under it a step per group of conjuncts.

It proves of `AdminFeed`, for any number of rooms, joins, departures, orders and lists, and
any size of a batch:

| theorem | statement |
|---|---|
| `FeedTypeCorrect` | `FeedSpec => []FeedTypeOK` |
| `DashboardConverges` | `FeedSpec => []DashboardAgrees` |

*The argument.* What the property says of a user who is not `bad` is not inductive: a user
who is held for a resume is excused, and comes back unannounced, so the dashboard must have
said all along what the resume will restore. `UserGood` adds that: the last word on a held
user is the room that is kept, as long as the room is there, and so while the resume reads
it; on one whose socket died meanwhile the last word is the truth again. That a deleted room
stays gone, so that a `room_deleted` takes no true word away, needs `Apart`: numbers are
given once (`Placed`), who is about to announce a deletion has deleted (`Deleted`), and a
match under way has no socket of a user who is held or being restored (`Unheld`). `RoomGood`
is the property, room by room. One lemma per way of telling (`TellShape`, `TellNowShape`,
`TellCreatedShape`, `TellDeletedShape`, `FlushedShape`) says on whom it changes the last word;
the lemmas on steps then speak of last words only (`SameWords`, `SameRooms`), so that queues
and batches occur in none of them. The assumption is `FeedAssumption`: there are two users,
and a batch holds at least one event.

`PeerNegotiationProofs` proves, for any limit of rebuilds and any number of switches of
camera and of faults:

| theorem | statement |
|---|---|
| `TypeCorrect` | `Spec => []TypeOK` |
| `AnswersTheirOffer` | `Spec => AnswersOwnOffer` |
| `LatestTrack` | `Spec => []LatestTrackIsSent` |
| `SignallingAgrees` | `Spec => []SignallingConverges` |

*The argument.* Nothing in `applyDescription` compares an answer with the offer the peer
waits with: that it is the answer to that offer follows only from what may be under way, and
in which order. `Exchange` says so for each of the two peers: offers under way have tags of
their sender and of its generation or an older one, in the order in which they were made; an
offer of the current generation is the one its sender waits with, or was rolled back, and
then the impolite peer waits with an offer of its own that has not arrived (`RolledBack`);
and an answer of the current generation answers the offer its receiver waits with, is the
only one, and no offer before it can make the receiver roll back (`AnswersOut`). A step
moves the places of what is under way, so each lemma speaks of an order-preserving map from
the places after it to those before (`Carries`): the operations of a peer are one of six
(`Legal`: it is silent, offers, begins a generation, joins, answers or completes), events,
timers, a loss and a resume leave both exchanges alone (`Quietly`). `Sent` does the same for
tracks: whoever has an exchange has laid out or adopted transceivers, and the last switch in
the queue brings the local track. For `SignallingAgrees` the invariant `Converging` says, as
long as no signal was lost, what is under way for whatever is missing: a peer whose
generation is behind has an offer of the newer one coming (`Ahead`), one that waits with an
offer has it on its way to the other, the answer on its way back, or the offer on its way
that will make it yield (`Awaits`, `Yields`), two that are stable in one generation have
completed the same exchange (`Agree`), and the offerer has made its first offer as soon as
it has joined (`Joins`). When nothing is under way, nothing is missing. That the epoch of a
resume is a number needs that a sequence of numbers has a largest one, which is proved from
well-foundedness of the natural numbers.

`ClientSessionProofs` proves, for any number of rooms, clicks, drops and faults:

| theorem | statement |
|---|---|
| `TypeCorrect` | `Spec => [](TypeOK /\ Housed)` |
| `CallOfTheSession` | `Spec => []CallFollowsSession` |
| `MachineAgrees` | `Spec => []MatchmakingAgrees` |

*The argument.* `CallFollowsSession` speaks of moments in which no coroutine of
`useVideoChat` runs, so its invariant `Calls` speaks of those in which one does: a session
is about the room that the machine has, and none is on the screen while one is being left
(`OneSession`); as long as no call has gone astray, at most one coroutine sets a call up,
one that initializes it does so for the session on the screen unless that is being left, and
afterwards the call is the session's (`OneSetUp`). That a set-up is never of a bot's room
needs that messages tell the truth about theirs (`Numbered`). `MatchmakingAgrees` speaks of
a wire with nothing under way, and `Agreement` of one with anything under way: the room that
the machine will have once it has read what the server has sent (`Foresees`) is the
server's, unless a request is under way that changes it or the room is `lost` (`Matches`),
and it will show a search exactly if the server searches, but for a join or a cancel under
way (`Waiting`). A handshake is always the first message of a connection (`Ordered`), a
machine that reconnects has the message coming that resolves it (`Resumes`), and one that
searches while the server has it in a room has the join under way, or had it refused
(`Asks`). `Housed` is needed for the types: a user whom the server has in a room is in one
with a number.

`BotPoolProofs` proves, for any men, bots, rooms, limit of errors and number of searches,
messages and requests:

| theorem | statement |
|---|---|
| `TypeCorrect` | `Spec => []TypeOK` |
| `ActiveInARoom` | `Spec => []ActiveHasRoom` |
| `StoriesAgree` | `Spec => []BotsAndRoomsAgree` |
| `DisabledLeavesNothing` | `Spec => []DisabledIsClean` |

*The argument.* What a coroutine has still to do is a sequence of steps, and it is safe
only if the steps are in the right order and are still about the right thing when their
turn comes. `TasksFit` says which sequences occur: a deletion is of a room that was
created, whoever deletes the room of a chat of the map frees its bot later on, a claim is
dropped for an attempt that is giving up, once (`ReleasedOnce`). `Keys` ties attempts,
claims, keys and rooms together, `Notified` and `InTheirRoom` say that nobody is about to
delete the room of a man who is being told of it or talks in it, and `Chats` that the map
has a bot in a chat only of a room that is or was the bot's. These hold always; the other
half, `Orderly`, only as long as no bot is taken twice and no step outlives a disable:
one attempt and one room per bot, a bot that is taken is free everywhere else, one that a
leave has still to free has a room that is being deleted, only bots of the map are queued,
and `Known`, which is the property. The proofs look at the tasks of a state through two
views, the rooms that some task deletes and the bots that some task frees (`Grows` and
`Lasts` say how a step moves them), so that only the lemmas about views and `TasksNext`
reason about positions in a sequence. `ghost.odd` only grows (`FlagsStay`), so a state
that is tidy after a step was tidy before it. The assumption is `BotPoolAssumption`:
the limits are numbers, those of bots and of errors at least 1.

`ChatRelayProofs` proves, for any people, any of them writing, and any number of chats,
messages, moves and refusals:

| theorem | statement |
|---|---|
| `TypeCorrect` | `Spec => []TypeOK` |
| `SentToItsChat` | `Spec => []NoCrossTalk` |
| `OrderKept` | `Spec => []CleanOrderKept` |
| `ReadIsRecorded` | `Spec => []ShownIsRecorded` |

*The argument.* A message passes through four queues: the wire to the server, the calls that
wait for Redis, maybe the scans, the wire to the browser; and then the screen. The inductive
invariant `Relayed` speaks of all five at once. `Rooms` says that whoever is in a room of
socket.io is a member of its chat, which goes on (one with a bot may be over, but has nobody
else in it), and that nobody is in two chats that go on. `NewsInv` ties the wire to the
rooms: the last news of a match that are under way, or else the page, are of the room that a
browser's socket is in, and each message under way has such news before it; so a relay that
comes late finds its room empty, not full of others. `Messages` says that a message was said
by a member of the chat it was taken for, and that it is in the history from its storing on,
or its write failed, as long as the room is there. `Order` follows the places of two
messages of one person: Redis answers in order, but a call that was answered asks again
behind the others, so the earlier one is ahead in the queue or a phase further on
(`InPhase`). For a browser the lemmas need only two sequences, what is under way to it and
what its session shows or will (`Screen`); every step is one of six for a browser (`Still`,
`Told`, `BotTold`, `Turns`, `Takes`, `Paired`), and one for each queue of the server, so
that each part of the invariant is shown for the shapes and not for the twenty actions
again. The assumption is `ChatAssumption`: writers are people, the bot is none, the bounds
are numbers.

Every invariant and every action property of a passing run is stated by a theorem. Only
model-checked are the liveness properties `EventuallyPaired`, `AwayResolves`,
`EmptyRoomEnds`, `Recovers`, `PageFollows`, `NeverSilentlyDead`, `CallRecovers`,
`ResumeResolves`, `LeavingResolves`, `CallComesUp`, `SaidIsSettled` and `BotStopsTyping`:
liveness under fairness is outside the prover's reach.

## 9. Disagreements between code and documentation

`reopen_undone` is a run that TLC refutes, and the entry of `findings` with the quoted
line: the site that an administrator reopens within the close hour is closed again by the
scheduler's next tick, because the note of the toggle is what makes it due.

The modules state the properties below as well. Each fails, in the configuration of its
module's run (with the bounds named, if others are needed), and is an invariant or property
to add there. Many state what a comment says.

| module, property | what happens |
|---|---|
| `Matchmaking` `SearchersReachable`, `FailingCalls = {"createRoom"}`, `MaxFaults = 1` | when `createRoom` throws, `createAndNotifyMatch` still returns true (`match.handler.ts:716`): both users wait in state `queue` without a queue member |
| `AttemptsSettle`, `FailingCalls = {"addToQueue"}`, `MaxFaults = 1` | an exception on an abort path unlocks the caller only (`match.handler.ts:450`): the partner is never matched again |
| `RoomHasPeople` | a user who disconnects while ICE is minted is cleaned up before the room exists; the room is then created with a member who is gone |
| `MemberIsActive` | a second join sets the socket to `idle` before it is rejected (`connection.handler.ts:306`); a user matched meanwhile is `idle` inside a live room |
| `MatchedNotQueued` | a tick's attempt runs before the ZADD of the user's own join; the user is matched and then queued |
| `SessionResume` `ShowsLiveRoom` | the partner leaves while a restore waits for ICE; the returning client is told 'partner_left' and then 'reconnected' (`index.ts:487`), and shows a chat that is gone |
| `ClosedEndsChats` | rooms whose members are held, or being restored, when the site closes are not ended (`index.ts:711`); their members return to a live chat |
| `DropsAreHeld` | a second drop before the first restore has looked up its room is not held; the room is torn down at once |
| `MemberStaysActive` | a leave whose room was ended by somebody else while it wrote the archive resets the partner, who may be in another room (`room.handler.ts:92`) |
| `HeldPartnerShown` | both drop and one returns; nobody tells it that its partner is away |
| `AwayResolves` without its "unless a call failed" | `getRoom` fails during a restore (`index.ts:469`); the returning user is told that the chat ended, and the partner goes on waiting in a room that lives on |
| `CircuitBreaker` `OldFailuresForgotten` | `lastFailureTime` is overwritten before it is compared (`circuitBreaker.ts:71`), so the failure count is never reset by time |
| `Maintenance` `CloseIsEnforced` | a read that was asked before the close takes the cached state back (`maintenance.service.ts:79`, against `:117`), and a failed read opens the site (`:92`) |
| `ReportedIsEnforced`, `AdminCloseKeepsName` | dashboards are told another state than the enforced one; a tick that overlaps a toggle makes the administrator's close the scheduler's (`app.ts:240`), which the next start undoes (`app.ts:417`) |
| `StartSparesAdmin` | the server listens while a start reads the flag: if that is the scheduler's close, the start reopens the site, over a close that an administrator has given meanwhile (`app.ts:393`, `:410`, `:417`; against "A deploy must not reopen a site someone deliberately closed", `maintenance.integration.test.ts`) |
| `BotPool` `BotHasOneChat` | the fallback takes a bot whose claim is under way (`match.handler.ts:422`, against `botManager.ts:5`) |
| `NoGhostBot` | a match goes on with a bot that has been disabled (against `botManager.ts:456`) |
| `ErrorEndsOwnChat` | a failed reply ends the chat the bot is in by then (against `botManager.ts:464`) |
| `ActiveHasRoom` of `socket.state` instead of the page | a chat that a failed reply or a disable ends leaves the socket 'active' without a room (`bot.handler.ts:77`; `room.handler.ts:137` resets it) until its next join |
| `EnabledBelowLimit`, `MaxSwitches = 2` | replies that fail after a disable are counted, and an enable keeps the count (against `botManager.ts:284`) |
| `PeerNegotiation` `TimersSpareConnected` | a rebuild timer takes a connection down that has come up (`peer.manager.ts:726`, `:902`, against `:889`) |
| `ClientSession` `NoFrozenSession` | a departure whose notice is lost in a drop of the socket that is not resumed, or comes within half a second of Next, leaves a frozen session (against `useMatchmaking.ts:207`) |
| `MatchmakingAgrees` without `ghost.lost` | a match overtakes a cancel that waits for `removeFromQueue` (`match.handler.ts:747`): 'matched' comes before 'cancelled', and the page forgets a room that the server keeps; a refused join makes the socket idle (`connection.handler.ts:306`), so the next drop of this chat is cleaned up instead of held |
| `CallFollowsSession` without `ghost.stray` | a set-up goes on after its wait for `leaveRTC`, or its second before the retry, without asking whose session is on the screen (`useVideoChat.ts:90`, `:109`), or after a leave that waited no longer than 3 s (`useRtc.ts:348`); a match with a bot does not take down the call of a session whose room was gone (`useVideoChat.ts:85`) |
| `ChatIsControlled` | a join refused with "already in a room" hides the chat that is on (against `useMatchmaking.ts:223`) |
| `LeaveIsFinal` | a chat left while the socket is down comes back with the resume (against `useMatchmaking.ts:543`) |
| `RoomIsShown` | a Next while the socket is down leaves the room in the page only: the resume brings the user back into it, the join is refused, and nothing shows the chat |
| `SearchIsTimed` | the late 'cancelled' of a stopped search takes back the mark that the timer of the next search looks at, which then ends without effect (against `timeouts.ts:8`) |
| `ChatRelay` `ShownIsRecorded` without `room.lost` | a failed write to the history is swallowed and the message relayed (`room.service.ts:497`, `chat.handler.ts:192`) |
| `RefusalKeepsChat` | the error of a limiter ("Please slow down", `chat.handler.ts:85`) replaces the page with its chat (`useMatchmaking.ts:333`) |
| `ShownInItsChat`, `ReplyInItsChat` | a message kept for the session, or the reply of a bot, is shown in the next chat (against `useChat.ts:9`) |
| `SentWhereSaid`, 3 chats, 2 moves, 1 message | `handleLeave` tells the partner that its chat is over also when it is in the next one; page and server then have different chats, and what the page sends goes into the server's |
| `TypingEnds` | the indicator of a person who is cut off stays: a render clears its timer (against "auto-hide after 5s", `useChat.ts:13`; the constant is 3 s) |
| `AdminFeed` `NoGhostRoom` | a kick deletes the room untold (`admin.handler.ts:875`); a room that ends before its creation is flushed is shown for good (`:1529`) |
| `NoGhostUser` | 'disconnected' is sent ahead of a queued 'idle' (`admin.handler.ts:1504`) |
| `ConnectedIsShown` | after two minutes of chat a user vanishes (`useAdminSocket.ts:1197`), and after a closing of the site too (`index.ts:719`); so does one who came back to a room while it was being deleted (`useAdminSocket.ts:463`) |
| `DashboardAgrees` without its exception for resumes | a user who is announced idle by the partner's cleanup while being restored is active again, and shown idle (`index.ts:476`) |
| `MemberMayChat` | as `MemberIsActive`, and by a cancel that a match overtook (`match.handler.ts:748`) |
| `Moderation` `TakeoverHoldsRoom` | an impersonation ends the room that it says it holds (`admin.handler.ts:1320`, against `:1324`) |
| `WaiterIsTold` with failed cleanups | `getRoomByUserId` and `removeUserFromRoom` answer null when Redis fails (`room.service.ts:147`, `:335`): the cleanup of the one who was put out ends without a word to the other (`room.handler.ts:243`) |
| `ModeratorWatches`, `WatcherIsServed` | leaving a page leaves moderator mode on (`admin.handler.ts:1190`); one tab's end silences the others (`:387`) |
| `ListedIsOpen`, `RevokedIsOut` | a connection that breaks while it authenticates is listed for good (`admin.handler.ts:466`); one that authenticates while the session is revoked stays (`admin.service.ts:184`) |
| `NoteIsTaken` | the first note of a moderator may be refused (`RoomMonitor.tsx:68`) |

## 10. What is not modelled

`components` in `PROJECT.json` says it per component. The main gaps:

* **Matchmaking and rooms**: which of several candidates `match.lua` prefers, statistics,
  `room:count`, the room's TTL of two hours (which a chat does not refresh,
  `room.service.ts:45`) and the stale-room sweep.
* **Chat**: what a text is made into, the filter for the same text within a second, a
  removal of the room or a lookup of a join that fails, drops in the middle of a message,
  the content of the archive. The ceiling of bot replies "per rolling hour" is a fixed
  window, so twice as many may fall within an hour; the model has only the refusal. A list
  that is pushed to after the room is deleted is made anew, and is left to its TTL.
* **Bots**: pairs of a bot and a woman beyond their release, personas, providers, typing
  delays. Only one request of the administrator fits a run. That a match is given up because its man is in a room already (`match.handler.ts:564`)
  does not occur in this module, where every other room of his ends before he searches.
* **Client session**: the server's leave, and the partner's removal with its notice, are one
  step each (a leave that the partner's overtakes says 'left' a second time, which the page
  takes like the first); Redis calls of a join or a cancel that fail; errors of the chat,
  kicks, expired sessions, device switches.
* **Session resume**: a join of a socket that is in a room, which is refused but makes the
  socket idle first (`connection.handler.ts:306`; `Matchmaking` and `ClientSession` have it).
* **Impersonation**: a takeover tab that finds its room after the chat has ended sends
  'partner_reconnected' into a page that shows no chat (`index.ts:532`, `:596`), which the
  page ignores; two impersonations at a time.
* **Dashboard**: analytics, metrics, incidents, audit, fingerprints that are announced once
  more (`index.ts:414`), reconnections of the dashboard itself.
* **Peer connection**: SDP and candidates, media devices, the permission dialogue.
* **Rate limiters**: a refusal is a choice wherever a module has one; the buckets are not
  modelled.

Not planned: the HTTP API, tracking, incidents, recordings and analytics (requests that
write rows without coordinating with anything), what the user interfaces draw, the ICE
provider and the language-model providers (external services), deployment files. They are
most of the source lines: roughly an eighth of the implementation is what the
modules stand for.
