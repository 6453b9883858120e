---------------------------- MODULE Maintenance ----------------------------
(***************************************************************************)
(* The switch that opens and closes the site (maintenance.service.ts,      *)
(* statusScheduler.ts, app.ts): its value in Redis, the copy that the join *)
(* handler asks, the one the dashboards are told, what the scheduler last  *)
(* applied, the users inside, and a browser that polls /status             *)
(* (MaintenanceGuard.tsx).                                                 *)
(*                                                                         *)
(* One API process, which may die and start again.  Redis executes the     *)
(* commands of its one connection in order, and each continuation runs as  *)
(* its answer comes; a command may fail.  The users are one user: whether  *)
(* somebody is inside, and whether a join has passed the gate and is still *)
(* being processed.  The operator's note, the health of Redis in the       *)
(* answer and the build-time override are left out.                        *)
(***************************************************************************)
EXTENDS Naturals, Sequences

CONSTANTS
    MaxToggles,   \* bound: toggles of the administrator
    MaxFaults,    \* bound: failed commands, failed polls, dead processes
    MaxHours      \* bound: times that 2 o'clock comes or passes

ASSUME MaintenanceAssumption == {MaxToggles, MaxFaults, MaxHours} \subseteq Nat

VARIABLES
    stored,   \* system:maintenance
    proc,     \* the process: its step, the cached state, the flags of App and scheduler, and
              \* whether the administrator came before the start had read the state
    queue,    \* commands that Redis has not answered
    users,    \* a join under way, somebody inside, and whether they should not be
    page,     \* the browser: what it shows, its poll, the answer on the way
    twoAM,    \* the hour is the close hour
    torn,     \* the cached state is known to differ from the stored one
    reopened, \* an administrator reopened the closed site in this close hour
    count     \* the bounded counts

vars == <<stored, proc, queue, users, page, twoAM, torn, reopened, count>>

State == [open : BOOLEAN, by : {"nobody", "admin", "scheduler"}]
OpenByDefault == [open |-> TRUE, by |-> "nobody"]

Get(for) == [op |-> "get", for |-> for, state |-> OpenByDefault]
Set(for, state) == [op |-> "set", for |-> for, state |-> state]
Command == [op : {"get", "set"}, for : {"boot", "poll", "lost", "post", "tick"}, state : State]

\* Every part keeps its range.  A dead process has no command under way and nobody inside,
\* and a poll that waits for Redis or has its answer is one the browser has sent.
TypeOK ==
    /\ stored \in State
    /\ proc \in [at : {"down", "init", "reopen", "up"}, cached : State, fresh : BOOLEAN,
                 status : BOOLEAN, last : {"none", "open", "closed"}, early : BOOLEAN]
    /\ queue \in Seq(Command)
    /\ users \in [joining : BOOLEAN, inside : BOOLEAN, odd : BOOLEAN]
    /\ page \in [shows : {"open", "closed"}, asks : BOOLEAN, sent : BOOLEAN,
                 answer : {"none", "open", "closed"}]
    /\ {twoAM, torn, reopened} \subseteq BOOLEAN
    /\ count \in [toggles : 0..MaxToggles, faults : 0..MaxFaults, hours : 0..MaxHours]
    /\ proc.at = "down" => queue = <<>> /\ ~users.inside /\ ~users.joining
    /\ page.asks \/ page.answer # "none" => page.sent

Word(open) == IF open THEN "open" ELSE "closed"

Init ==
    /\ stored = OpenByDefault
    /\ proc = [at |-> "down", cached |-> OpenByDefault, fresh |-> FALSE, status |-> TRUE,
               last |-> "none", early |-> FALSE]
    /\ queue = <<>>
    /\ users = [joining |-> FALSE, inside |-> FALSE, odd |-> FALSE]
    /\ page = [shows |-> "open", asks |-> FALSE, sent |-> FALSE, answer |-> "none"]
    /\ twoAM \in BOOLEAN /\ torn = FALSE /\ reopened = FALSE
    /\ count = [toggles |-> 0, faults |-> 0, hours |-> 0]

Fault == count.faults < MaxFaults /\ count' = [count EXCEPT !.faults = @ + 1]

-----------------------------------------------------------------------------
(* The process.                                                             *)

\* It listens before the state is read: until then the site is open.
Boot ==
    /\ proc.at = "down"
    /\ proc' = [at |-> "init", cached |-> OpenByDefault, fresh |-> FALSE, status |-> TRUE,
                last |-> "none", early |-> FALSE]
    /\ queue' = <<Get("boot")>>
    /\ torn' = FALSE /\ reopened' = FALSE
    /\ UNCHANGED <<stored, users, page, twoAM, count>>

Die ==
    /\ proc.at # "down" /\ Fault
    /\ proc' = [proc EXCEPT !.at = "down"]
    /\ queue' = <<>>
    /\ users' = [joining |-> FALSE, inside |-> FALSE, odd |-> FALSE]
    /\ page' = [page EXCEPT !.asks = FALSE]
    /\ UNCHANGED <<stored, twoAM, torn, reopened>>

\* maintenanceService.set up to its await: written through to the cache.
Written(p, state) == [p EXCEPT !.cached = state, !.fresh = TRUE]

\* Mutant of Toggle: the cache is left to its time to live.
ToggleStored(open) ==
    /\ proc.at # "down" /\ count.toggles < MaxToggles
    /\ count' = [count EXCEPT !.toggles = @ + 1]
    /\ queue' = Append(queue, Set("post", [open |-> open, by |-> "admin"]))
    /\ UNCHANGED <<stored, proc, users, page, twoAM, torn, reopened>>

\* POST /status, which is served as soon as the process listens.
Toggle(open) ==
    LET state == [open |-> open, by |-> "admin"]
    IN /\ proc.at # "down" /\ count.toggles < MaxToggles
       /\ count' = [count EXCEPT !.toggles = @ + 1]
       /\ proc' = [Written(proc, state) EXCEPT !.early = @ \/ proc.at = "init"]
       /\ queue' = Append(queue, Set("post", state))
       /\ torn' = FALSE
       /\ UNCHANGED <<stored, users, page, twoAM, reopened>>

\* checkSchedule: once a minute, and when the scheduler starts.
Due(p) == twoAM /\ p.last # "closed"
Closing == [open |-> FALSE, by |-> "scheduler"]
Closed(p) == [Written(p, Closing) EXCEPT !.status = FALSE, !.last = "closed"]

Tick ==
    /\ proc.at = "up" /\ Due(proc)
    /\ proc' = Closed(proc)
    /\ queue' = Append(queue, Set("tick", Closing))
    /\ torn' = FALSE /\ reopened' = FALSE
    /\ UNCHANGED <<stored, users, page, twoAM, count>>

Hour ==
    /\ count.hours < MaxHours
    /\ count' = [count EXCEPT !.hours = @ + 1]
    /\ twoAM' = ~twoAM
    /\ reopened' = FALSE
    /\ UNCHANGED <<stored, proc, queue, users, page, torn>>

Expire ==
    /\ proc.fresh
    /\ proc' = [proc EXCEPT !.fresh = FALSE]
    /\ UNCHANGED <<stored, queue, users, page, twoAM, torn, reopened, count>>

\* The scheduler starts from the state that it found, and looks at the clock at once.
Started(p, q) ==
    LET s == [p EXCEPT !.at = "up", !.last = Word(p.status)]
    IN IF Due(s) THEN [proc |-> Closed(s), queue |-> Append(q, Set("tick", Closing))]
       ELSE [proc |-> s, queue |-> q]

\* Mutant of LeftOver: any close is taken for a left-over one.
AnyLeftOver(p) == ~p.cached.open /\ ~twoAM

\* A close that the scheduler left is undone outside its hour.
LeftOver(p) == ~p.cached.open /\ p.cached.by = "scheduler" /\ ~twoAM

Booted(p, q) ==
    LET s == [p EXCEPT !.status = p.cached.open]
        open == [open |-> TRUE, by |-> "scheduler"]
    IN IF LeftOver(s) THEN [proc |-> [Written(s, open) EXCEPT !.at = "reopen"],
                            queue |-> Append(q, Set("boot", open))]
       ELSE Started(s, q)

-----------------------------------------------------------------------------
(* Redis answers.                                                           *)

Asked(op) == queue # <<>> /\ Head(queue).op = op
SetIsUnderWay(q) == \E k \in DOMAIN q : q[k].op = "set"

\* Whoever is inside when a read closes the site stays inside.
ReadInto(state) ==
    users' = [users EXCEPT !.odd = @ \/ (users.inside /\ ~state.open /\ proc.cached.open)]

Answered(p) ==
    page' = IF Head(queue).for = "poll" THEN [page EXCEPT !.asks = FALSE,
                                                          !.answer = Word(p.cached.open)]
            ELSE page

\* init: without the key the cached state stays.
Read ==
    LET state == IF stored.by = "nobody" THEN proc.cached ELSE stored
        p == [proc EXCEPT !.cached = state, !.fresh = TRUE]
    IN /\ Asked("get")
       /\ ReadInto(state)
       /\ LET next == IF Head(queue).for = "boot" THEN Booted(p, Tail(queue))
                      ELSE [proc |-> p, queue |-> Tail(queue)]
          IN proc' = next.proc /\ queue' = next.queue
       /\ Answered(p)
       /\ torn' = IF state = stored THEN SetIsUnderWay(queue) ELSE torn
       /\ UNCHANGED <<stored, twoAM, reopened, count>>

\* An unreadable flag opens the site.
ReadFails ==
    LET p == [proc EXCEPT !.cached = OpenByDefault, !.fresh = TRUE]
    IN /\ Asked("get") /\ Fault
       /\ LET next == IF Head(queue).for = "boot" THEN Booted(p, Tail(queue))
                      ELSE [proc |-> p, queue |-> Tail(queue)]
          IN proc' = next.proc /\ queue' = next.queue
       /\ Answered(p)
       /\ torn' = TRUE
       /\ UNCHANGED <<stored, users, twoAM, reopened>>

\* Mutant of Applies: the scheduler only reports.
AppliesPost(c) == c.for = "post" /\ ~c.state.open

\* applyMaintenanceState ends the chats and clears the queue; a join that has passed the
\* gate goes on.
Applies(c) == ~c.state.open

Applied(c) ==
    users' = IF Applies(c) THEN [users EXCEPT !.inside = FALSE, !.odd = FALSE] ELSE users

\* The continuation of set: the route notes the change (for nobody, until the scheduler has
\* started from what a boot found), the scheduler has done so, a boot goes on.
Continued(c) ==
    LET next == CASE c.for = "post" -> [proc |-> [proc EXCEPT !.status = c.state.open,
                                                              !.last = Word(c.state.open)],
                                        queue |-> Tail(queue)]
                  [] c.for = "boot" -> Started([proc EXCEPT !.status = TRUE], Tail(queue))
                  [] OTHER -> [proc |-> proc, queue |-> Tail(queue)]
    IN /\ proc' = next.proc /\ queue' = next.queue
       /\ reopened' = IF c.for = "post" THEN c.state.open /\ ~stored.open /\ twoAM
                       ELSE reopened

Store ==
    /\ Asked("set")
    /\ stored' = Head(queue).state
    /\ Applied(Head(queue))
    /\ Continued(Head(queue))
    /\ UNCHANGED <<page, twoAM, torn, count>>

\* "change is process-local only".
StoreFails ==
    /\ Asked("set") /\ Fault
    /\ Applied(Head(queue))
    /\ Continued(Head(queue))
    /\ torn' = TRUE
    /\ UNCHANGED <<stored, page, twoAM>>

-----------------------------------------------------------------------------
(* The users and the browser.                                               *)

\* 'join': the gate is asked first, the rest takes several awaits.
Join ==
    /\ proc.at # "down" /\ ~users.joining /\ ~users.inside /\ proc.cached.open
    /\ users' = [users EXCEPT !.joining = TRUE]
    /\ UNCHANGED <<stored, proc, queue, page, twoAM, torn, reopened, count>>

Enter ==
    /\ users.joining
    /\ users' = [joining |-> FALSE, inside |-> TRUE, odd |-> ~proc.cached.open]
    /\ UNCHANGED <<stored, proc, queue, page, twoAM, torn, reopened, count>>

Leave ==
    /\ users.inside
    /\ users' = [users EXCEPT !.inside = FALSE, !.odd = FALSE]
    /\ UNCHANGED <<stored, proc, queue, page, twoAM, torn, reopened, count>>

\* check: one at a time; GET /status answers from the cache while that is fresh.
Poll ==
    /\ ~page.sent /\ proc.at # "down"
    /\ IF proc.fresh
       THEN /\ page' = [page EXCEPT !.sent = TRUE, !.answer = Word(proc.cached.open)]
            /\ UNCHANGED queue
       ELSE /\ page' = [page EXCEPT !.sent = TRUE, !.asks = TRUE]
            /\ queue' = Append(queue, Get("poll"))
    /\ UNCHANGED <<stored, proc, users, twoAM, torn, reopened, count>>

PollAnswered ==
    /\ page.answer # "none"
    /\ page' = [page EXCEPT !.shows = page.answer, !.sent = FALSE, !.answer = "none"]
    /\ UNCHANGED <<stored, proc, queue, users, twoAM, torn, reopened, count>>

\* Nobody waits for the answer of a poll that the browser gave up.
GivenUp == [k \in DOMAIN queue |-> IF queue[k].for = "poll" THEN Get("lost") ELSE queue[k]]

\* Mutant of Failed: a poll that failed is never over.
FailedForGood == [page EXCEPT !.shows = "open", !.answer = "none", !.asks = FALSE]

\* Any failure shows the site.
Failed == [page EXCEPT !.shows = "open", !.sent = FALSE, !.answer = "none", !.asks = FALSE]

\* The poll times out or is lost.
PollFails ==
    /\ page.sent /\ Fault
    /\ page' = Failed
    /\ queue' = GivenUp
    /\ UNCHANGED <<stored, proc, users, twoAM, torn, reopened>>

\* The poll finds no process, or its process is gone.
PollUnheard ==
    /\ page.answer = "none" /\ (proc.at = "down" \/ (page.sent /\ ~page.asks))
    /\ page' = Failed
    /\ UNCHANGED <<stored, proc, queue, users, twoAM, torn, reopened, count>>

Next ==
    \/ Boot \/ Die \/ Tick \/ Hour \/ Expire
    \/ \E open \in BOOLEAN : Toggle(open)
    \/ Read \/ ReadFails \/ Store \/ StoreFails
    \/ Join \/ Enter \/ Leave
    \/ Poll \/ PollAnswered \/ PollFails \/ PollUnheard

Spec == Init /\ [][Next]_vars

\* The process is started again, Redis answers, the browser polls and the cache expires.
FairSpec ==
    /\ Spec
    /\ WF_vars(Boot) /\ WF_vars(Tick) /\ WF_vars(Expire)
    /\ WF_vars(Read) /\ WF_vars(Store)
    /\ WF_vars(Poll) /\ WF_vars(PollAnswered) /\ WF_vars(PollUnheard)

-----------------------------------------------------------------------------
(* What holds.                                                              *)

\* What joins are refused by is what is stored, whatever toggles, ticks and boots overlap,
\* unless a command failed, or a read that was asked before a set came after it.
EnforcedIsStored ==
    proc.at \in {"reopen", "up"} /\ ~torn /\ ~SetIsUnderWay(queue)
        => proc.cached.open = stored.open

\* Nobody stays in a closed site, but whose join had passed the gate before, and whoever
\* came in while the cached state was wrong.
ClosedIsEmpty ==
    users.inside /\ ~proc.cached.open => users.odd \/ SetIsUnderWay(queue)

\* A close that stands in the administrator's name is reopened by an administrator, not by
\* the scheduler and not by a start: the one that a start takes back was given after that
\* start had asked for the state and before it was answered (app.ts:393, :410 and :417).
AdminReopens ==
    [][stored.by = "admin" /\ ~stored.open /\ stored'.open
           => stored'.by = "admin" \/ (Head(queue).for = "boot" /\ proc.early)]_vars

\* Every tab follows the switch in the end.
PageFollows == <>[](stored.by = "nobody" \/ page.shows = Word(stored.open))

-----------------------------------------------------------------------------
(* What the comments say, and the code does not do.                         *)

\* "It does not undo an admin who just opened (or closed) the product": a reopening within
\* the hour from two is undone by the next tick, for the note of it is what makes it due.
SchedulerSparesToggle ==
    [][reopened /\ Len(queue') > Len(queue) => queue'[Len(queue')].for # "tick"]_vars

\* "The enforcing code path sees the new value": a read that was asked before the set takes
\* it back, and a read that fails opens the site.
CloseIsEnforced ==
    [][proc.at = "up" /\ ~proc.cached.open /\ proc'.cached.open => Len(queue') > Len(queue)]_vars

\* "A deploy must not reopen a site someone deliberately closed": a start does that reads the
\* scheduler's close while the administrator's is on its way.
StartSparesAdmin ==
    [][stored.by = "admin" /\ ~stored.open /\ stored'.open => stored'.by = "admin"]_vars

\* Dashboards are told what is enforced: not when a tick overlaps a toggle, nor after a read.
ReportedIsEnforced ==
    proc.at = "up" /\ queue = <<>> => proc.status = proc.cached.open

\* An administrator's close keeps its name: a tick before its continuation, or after a boot
\* that could not read it, makes it the scheduler's, which the next start undoes.
AdminCloseKeepsName ==
    [][stored.by = "admin" /\ ~stored.open => stored'.by = "admin"]_vars
=============================================================================
