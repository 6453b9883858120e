---------------------------- MODULE ServiceProofs ----------------------------
(***************************************************************************)
(* Proofs about the two parts that decide whether the service is open:     *)
(* Maintenance, for any number of toggles, faults and hours (a site closed *)
(* by an administrator is reopened by an administrator or by a start that  *)
(* he came too early for, nobody stays in a closed site, and joins are     *)
(* refused by what is stored), and, below, the breaker of its Redis        *)
(* commands, CircuitBreaker, for every set of calls, all thresholds and    *)
(* all waiting times.                                                      *)
(***************************************************************************)
EXTENDS Maintenance, CircuitBreaker, SequenceTheorems, TLAPS

\* What may be under way, by the step of the process: a start reads first and writes at most
\* once, the administrator writes at any time, the scheduler once it runs; and only the
\* administrator and a start reopen the site.
Allowed(at, c) ==
    /\ c.op = "set" => c.for \in {"boot", "post", "tick"} /\ c.state.by # "nobody"
    /\ c.op = "set" /\ c.state.open => c.state.by = "admin" \/ c.for = "boot"
    /\ at = "init" => (c.op = "set" => c.for = "post")
    /\ at = "reopen" => /\ c.op = "set" => c.for \in {"boot", "post"}
                        /\ c.for = "boot" => c.op = "set"
    /\ at = "up" => c.for # "boot"

AllAllowed(at, q) == \A k \in DOMAIN q : Allowed(at, q[k])
Once(for, q) == \A j, k \in DOMAIN q : q[j].for = for /\ q[k].for = for => j = k
None(for, q) == \A k \in DOMAIN q : q[k].for # for

\* What the administrator writes comes after what the start does.
Ordered(q) ==
    \A k \in DOMAIN q : q[k].for = "post" => \E j \in DOMAIN q : j < k /\ q[j].for = "boot"

\* The cache agrees with the last write under way or, without one, with what is stored.
Agrees(cached, q, st) ==
    /\ (\A k \in DOMAIN q : q[k].op # "set") => cached.open = st.open
    /\ \A k \in DOMAIN q : q[k].op = "set" /\ (\A j \in DOMAIN q : j > k => q[j].op # "set")
                             => q[k].state.open = cached.open

\* A start has found what it goes by: only the administrator has touched the cache yet, and
\* what it reopens is not the administrator's, unless he came too early.
Starting ==
    /\ proc.at = "init" =>
        /\ queue # <<>> /\ queue[1].for = "boot" /\ ~torn
        /\ Agrees(proc.cached, queue, proc.cached) /\ proc.cached.by # "scheduler"
        /\ (\A k \in DOMAIN queue : queue[k].op # "set") => proc.cached = OpenByDefault
        /\ proc.early \/ None("post", queue)
    /\ proc.at = "reopen" =>
        /\ ~None("boot", queue)
        /\ proc.early \/ (stored.by # "admin" /\ Ordered(queue))
    /\ stored.by = "nobody" => stored = OpenByDefault

\* The browser has at most one poll under way.
Asking ==
    /\ None("poll", queue) \/ page.asks
    /\ page.asks => page.sent /\ page.answer = "none"

Script ==
    /\ AllAllowed(proc.at, queue) /\ Once("boot", queue) /\ Once("poll", queue)
    /\ Starting /\ Asking

Enforced == proc.at \in {"reopen", "up"} /\ ~torn => Agrees(proc.cached, queue, stored)

IInv == TypeOK /\ Script /\ Enforced

Proc == [at : {"down", "init", "reopen", "up"}, cached : State, fresh : BOOLEAN,
         status : BOOLEAN, last : {"none", "open", "closed"}, early : BOOLEAN]

-----------------------------------------------------------------------------
(* What the commands under way keep when one is added or answered.          *)

LEMMA CommandsMade ==
    /\ \A for \in {"boot", "poll", "lost"} : Get(for) \in Command
    /\ \A for \in {"boot", "post", "tick"}, st \in State : Set(for, st) \in Command
    /\ OpenByDefault \in State /\ Closing \in State
  BY DEF Get, Set, Command, State, OpenByDefault, Closing

LEMMA AppendShape ==
  ASSUME NEW q \in Seq(Command), NEW e \in Command
  PROVE  /\ Append(q, e) \in Seq(Command)
         /\ DOMAIN Append(q, e) = DOMAIN q \cup {Len(q) + 1}
         /\ \A k \in DOMAIN q : Append(q, e)[k] = q[k] /\ k < Len(q) + 1 /\ k \in Nat
         /\ Append(q, e)[Len(q) + 1] = e
  BY AppendProperties

LEMMA TailShape ==
  ASSUME NEW q \in Seq(Command), q # <<>>
  PROVE  /\ Head(q) = q[1] /\ Head(q) \in Command /\ Tail(q) \in Seq(Command)
         /\ 1 \in DOMAIN q
         /\ \A k \in DOMAIN q : k # 1 => k > 1 /\ k - 1 \in DOMAIN Tail(q)
                                         /\ Tail(q)[k - 1] = q[k]
         /\ \A k \in DOMAIN Tail(q) : k \in Nat /\ k + 1 \in DOMAIN q /\ k + 1 # 1
                                         /\ Tail(q)[k] = q[k + 1]
  <1>1. /\ Tail(q) \in Seq(Command) /\ Len(Tail(q)) = Len(q) - 1 /\ Head(q) \in Command
        /\ \A i \in 1 .. Len(Tail(q)) : Tail(q)[i] = q[i + 1]
    BY HeadTailProperties
  <1>2. Len(q) \in Nat \ {0} /\ DOMAIN q = 1 .. Len(q) /\ DOMAIN Tail(q) = 1 .. Len(Tail(q))
    BY <1>1, EmptySeq, LenProperties
  <1>3. Head(q) = q[1]
    OBVIOUS
  <1>4. QED
    BY <1>1, <1>2, <1>3

LEMMA AppendAllowed ==
  ASSUME NEW q \in Seq(Command), NEW e \in Command, NEW at, AllAllowed(at, q), Allowed(at, e)
  PROVE  AllAllowed(at, Append(q, e))
  BY AppendShape DEF AllAllowed

LEMMA TailAllowed ==
  ASSUME NEW q \in Seq(Command), q # <<>>, NEW at, AllAllowed(at, q)
  PROVE  Allowed(at, Head(q)) /\ AllAllowed(at, Tail(q))
  BY TailShape DEF AllAllowed

LEMMA AppendOnce ==
  ASSUME NEW q \in Seq(Command), NEW e \in Command, NEW for
  PROVE  /\ Once(for, q) /\ (e.for # for \/ None(for, q)) => Once(for, Append(q, e))
         /\ None(for, q) /\ e.for # for => None(for, Append(q, e))
  BY AppendShape DEF Once, None

LEMMA TailOnce ==
  ASSUME NEW q \in Seq(Command), q # <<>>, NEW for, Once(for, q)
  PROVE  /\ Once(for, Tail(q))
         /\ Head(q).for = for \/ None(for, q) => None(for, Tail(q))
  <1>1. Once(for, Tail(q))
    <2>1. SUFFICES ASSUME NEW j \in DOMAIN Tail(q), NEW k \in DOMAIN Tail(q),
                          Tail(q)[j].for = for, Tail(q)[k].for = for
                   PROVE  j = k
      BY DEF Once
    <2>2. j + 1 = k + 1
      BY <2>1, TailShape DEF Once
    <2>3. QED
      BY <2>2, TailShape
  <1>2. ASSUME Head(q).for = for \/ None(for, q), NEW k \in DOMAIN Tail(q), Tail(q)[k].for = for
        PROVE  FALSE
    BY <1>2, TailShape DEF Once, None
  <1>3. QED
    BY <1>1, <1>2 DEF None

LEMMA NoBoot ==
  ASSUME NEW q, AllAllowed("up", q)
  PROVE  None("boot", q) /\ Once("boot", q)
  BY DEF AllAllowed, Allowed, Once, None

\* A write that is added is the last.
LEMMA AppendSetAgrees ==
  ASSUME NEW q \in Seq(Command), NEW e \in Command, e.op = "set", NEW st
  PROVE  Agrees(e.state, Append(q, e), st)
  <1>1. Len(q) + 1 \in DOMAIN Append(q, e) /\ Append(q, e)[Len(q) + 1].op = "set"
    BY AppendShape
  <1>2. ASSUME NEW k \in DOMAIN Append(q, e),
               \A j \in DOMAIN Append(q, e) : j > k => Append(q, e)[j].op # "set"
        PROVE  k = Len(q) + 1
    <2>1. CASE k \in DOMAIN q
      BY <2>1, <1>1, <1>2, AppendShape
    <2>2. QED
      BY <2>1, AppendShape
  <1>3. Append(q, e)[Len(q) + 1].state.open = e.state.open
    BY AppendShape
  <1>4. QED
    BY <1>1, <1>2, <1>3 DEF Agrees

LEMMA AppendGetAgrees ==
  ASSUME NEW q \in Seq(Command), NEW e \in Command, e.op # "set", NEW cached, NEW st,
         Agrees(cached, q, st)
  PROVE  Agrees(cached, Append(q, e), st)
  <1>1. ASSUME \A k \in DOMAIN Append(q, e) : Append(q, e)[k].op # "set"
        PROVE  cached.open = st.open
    BY <1>1, AppendShape DEF Agrees
  <1>2. ASSUME NEW k \in DOMAIN Append(q, e), Append(q, e)[k].op = "set",
               \A j \in DOMAIN Append(q, e) : j > k => Append(q, e)[j].op # "set"
        PROVE  Append(q, e)[k].state.open = cached.open
    <2>1. k \in DOMAIN q /\ q[k] = Append(q, e)[k]
      BY <1>2, AppendShape
    <2>2. \A j \in DOMAIN q : j > k => q[j].op # "set"
      BY <1>2, AppendShape
    <2>3. QED
      BY <2>1, <2>2, <1>2 DEF Agrees
  <1>3. QED
    BY <1>1, <1>2 DEF Agrees

\* An answered read leaves the writes; an answered write is what is stored.
LEMMA TailAgrees ==
  ASSUME NEW q \in Seq(Command), q # <<>>, NEW cached, NEW st, NEW now,
         Agrees(cached, q, st),
         Head(q).op = "set" => now = Head(q).state,
         Head(q).op # "set" => now = st
  PROVE  Agrees(cached, Tail(q), now)
  <1>1. ASSUME \A k \in DOMAIN Tail(q) : Tail(q)[k].op # "set"
        PROVE  cached.open = now.open
    <2>1. ASSUME NEW k \in DOMAIN q, k # 1
          PROVE  q[k].op # "set"
      <3>1. k - 1 \in DOMAIN Tail(q) /\ Tail(q)[k - 1] = q[k]
        BY <2>1, TailShape
      <3>2. QED
        BY <3>1, <1>1
    <2>2. CASE Head(q).op = "set"
      BY <2>1, <2>2, TailShape DEF Agrees
    <2>3. CASE Head(q).op # "set"
      BY <2>1, <2>3, TailShape DEF Agrees
    <2>4. QED
      BY <2>2, <2>3
  <1>2. ASSUME NEW k \in DOMAIN Tail(q), Tail(q)[k].op = "set",
               \A j \in DOMAIN Tail(q) : j > k => Tail(q)[j].op # "set"
        PROVE  Tail(q)[k].state.open = cached.open
    <2>1. k + 1 \in DOMAIN q /\ q[k + 1] = Tail(q)[k] /\ k \in Nat
      BY TailShape
    <2>2. ASSUME NEW j \in DOMAIN q, j > k + 1
          PROVE  q[j].op # "set"
      <3>1. j # 1 /\ j \in Nat
        BY <2>1, <2>2, LenProperties
      <3>2. j - 1 \in DOMAIN Tail(q) /\ j - 1 > k /\ Tail(q)[j - 1] = q[j]
        BY <3>1, <2>1, <2>2, TailShape
      <3>3. QED
        BY <3>2, <1>2
    <2>3. QED
      BY <2>1, <2>2, <1>2 DEF Agrees
  <1>3. QED
    BY <1>1, <1>2 DEF Agrees

\* The order of what a start and the administrator write.
LEMMA AppendOrdered ==
  ASSUME NEW q \in Seq(Command), NEW e \in Command, Ordered(q),
         e.for = "post" => ~None("boot", q)
  PROVE  Ordered(Append(q, e))
  <1>1. ASSUME NEW k \in DOMAIN q, q[k].for = "post"
        PROVE  \E j \in DOMAIN Append(q, e) : j < k /\ Append(q, e)[j].for = "boot"
    BY <1>1, AppendShape DEF Ordered
  <1>2. ASSUME e.for = "post"
        PROVE  \E j \in DOMAIN Append(q, e) :
                  j < Len(q) + 1 /\ Append(q, e)[j].for = "boot"
    BY <1>2, AppendShape DEF None
  <1>3. QED
    BY <1>1, <1>2, AppendShape DEF Ordered

LEMMA TailOrdered ==
  ASSUME NEW q \in Seq(Command), q # <<>>, Ordered(q), Head(q).for # "boot"
  PROVE  Head(q).for # "post" /\ Ordered(Tail(q))
  <1>1. ASSUME NEW k \in DOMAIN Tail(q), Tail(q)[k].for = "post"
        PROVE  \E j \in DOMAIN Tail(q) : j < k /\ Tail(q)[j].for = "boot"
    <2>1. k + 1 \in DOMAIN q /\ q[k + 1].for = "post" /\ k \in Nat
      BY <1>1, TailShape
    <2>2. PICK j \in DOMAIN q : j < k + 1 /\ q[j].for = "boot"
      BY <2>1 DEF Ordered
    <2>3. j # 1 /\ j \in Nat
      BY <2>2, TailShape, LenProperties
    <2>4. j - 1 \in DOMAIN Tail(q) /\ Tail(q)[j - 1] = q[j] /\ j - 1 < k
      BY <2>1, <2>2, <2>3, TailShape
    <2>5. QED
      BY <2>2, <2>4
  <1>2. ASSUME Head(q).for = "post"
        PROVE  FALSE
    <2>1. 1 \in DOMAIN q /\ q[1].for = "post"
      BY <1>2, TailShape
    <2>2. PICK j \in DOMAIN q : j < 1
      BY <2>1 DEF Ordered
    <2>3. QED
      BY <2>2, LenProperties
  <1>3. QED
    BY <1>1, <1>2 DEF Ordered

\* The start's command stays under way until it is the one that is answered.
LEMMA StartUnderWay ==
  ASSUME NEW q \in Seq(Command), ~None("boot", q)
  PROVE  /\ \A e \in Command : ~None("boot", Append(q, e))
         /\ q # <<>> /\ Head(q).for # "boot" => ~None("boot", Tail(q))
  <1>1. PICK k \in DOMAIN q : q[k].for = "boot"
    BY DEF None
  <1>2. ASSUME NEW e \in Command
        PROVE  ~None("boot", Append(q, e))
    BY <1>1, AppendShape DEF None
  <1>3. ASSUME q # <<>>, Head(q).for # "boot"
        PROVE  ~None("boot", Tail(q))
    <2>1. k # 1
      BY <1>1, <1>3, TailShape
    <2>2. k - 1 \in DOMAIN Tail(q) /\ Tail(q)[k - 1] = q[k]
      BY <1>3, <2>1, TailShape
    <2>3. QED
      BY <1>1, <2>2 DEF None
  <1>4. QED
    BY <1>2, <1>3

-----------------------------------------------------------------------------
(* Starting.                                                                *)

LEMMA StartedKeeps ==
  ASSUME NEW p \in Proc, NEW q \in Seq(Command), AllAllowed("up", q)
  PROVE  /\ Started(p, q).proc \in Proc /\ Started(p, q).proc.at = "up"
         /\ Started(p, q).proc.early = p.early
         /\ Started(p, q).queue \in Seq(Command)
         /\ AllAllowed("up", Started(p, q).queue)
         /\ None("poll", q) => None("poll", Started(p, q).queue)
         /\ Once("poll", q) => Once("poll", Started(p, q).queue)
         /\ \A st : Agrees(p.cached, q, st)
                         => Agrees(Started(p, q).proc.cached, Started(p, q).queue, st)
  <1> DEFINE s == [p EXCEPT !.at = "up", !.last = Word(p.status)]
             tick == Set("tick", Closing)
  <1>1. s \in Proc /\ s.at = "up" /\ s.cached = p.cached /\ s.early = p.early
    BY DEF Proc, Word
  <1>2. /\ tick \in Command /\ Allowed("up", tick) /\ tick.op = "set"
        /\ tick.state = Closing /\ tick.for # "poll"
    BY CommandsMade DEF Allowed, Set, Closing
  <1>0. Started(p, q) = IF Due(s) THEN [proc |-> Closed(s), queue |-> Append(q, tick)]
                        ELSE [proc |-> s, queue |-> q]
    BY DEF Started
  <1> HIDE DEF s, tick
  <1>3. CASE Due(s)
    <2>1. Started(p, q) = [proc |-> Closed(s), queue |-> Append(q, tick)]
      BY <1>0, <1>3
    <2>2. /\ Closed(s) \in Proc /\ Closed(s).at = "up" /\ Closed(s).cached = Closing
          /\ Closed(s).early = s.early
      BY <1>1, CommandsMade DEF Closed, Written, Proc
    <2>3. Append(q, tick) \in Seq(Command) /\ AllAllowed("up", Append(q, tick))
      BY <1>2, AppendShape, AppendAllowed
    <2>4. \A st : Agrees(Closing, Append(q, tick), st)
      BY <1>2, AppendSetAgrees
    <2>5. /\ None("poll", q) => None("poll", Append(q, tick))
          /\ Once("poll", q) => Once("poll", Append(q, tick))
      BY <1>2, AppendOnce
    <2>6. QED
      BY <2>1, <2>2, <2>3, <2>4, <2>5, <1>1
  <1>4. CASE ~Due(s)
    <2>1. Started(p, q) = [proc |-> s, queue |-> q]
      BY <1>0, <1>4
    <2>2. QED
      BY <2>1, <1>1
  <1>5. QED
    BY <1>3, <1>4

LEMMA BootedKeeps ==
  ASSUME NEW p \in Proc, NEW q \in Seq(Command),
         AllAllowed("init", q), None("boot", q)
  PROVE  /\ Booted(p, q).proc \in Proc /\ Booted(p, q).proc.at \in {"reopen", "up"}
         /\ Booted(p, q).queue \in Seq(Command)
         /\ AllAllowed(Booted(p, q).proc.at, Booted(p, q).queue)
         /\ Once("boot", Booted(p, q).queue)
         /\ None("poll", q) => None("poll", Booted(p, q).queue)
         /\ Once("poll", q) => Once("poll", Booted(p, q).queue)
         /\ Booted(p, q).proc.early = p.early
         /\ Booted(p, q).proc.at = "reopen" =>
               /\ p.cached.by = "scheduler"
               /\ ~None("boot", Booted(p, q).queue)
               /\ Ordered(q) => Ordered(Booted(p, q).queue)
         /\ \A st : Agrees(p.cached, q, st)
                         => Agrees(Booted(p, q).proc.cached, Booted(p, q).queue, st)
  <1> DEFINE s == [p EXCEPT !.status = p.cached.open]
             open == [open |-> TRUE, by |-> "scheduler"]
             set == Set("boot", open)
  <1>1. s \in Proc /\ s.cached = p.cached /\ s.early = p.early
    BY DEF Proc, State
  <1>2. /\ open \in State /\ set \in Command /\ set.op = "set" /\ set.for = "boot"
        /\ set.state = open /\ Allowed("reopen", set)
    BY CommandsMade DEF Allowed, Set, State
  <1>0. /\ Booted(p, q) = IF LeftOver(s)
                           THEN [proc |-> [Written(s, open) EXCEPT !.at = "reopen"],
                                 queue |-> Append(q, set)]
                           ELSE Started(s, q)
        /\ open.open
    BY DEF Booted
  <1> HIDE DEF s, open, set
  <1>3. AllAllowed("up", q) /\ AllAllowed("reopen", q)
    BY DEF AllAllowed, Allowed, None
  <1>4. CASE LeftOver(s)
    <2> DEFINE w == [Written(s, open) EXCEPT !.at = "reopen"]
    <2>1. Booted(p, q) = [proc |-> w, queue |-> Append(q, set)]
      BY <1>0, <1>4
    <2>2. w \in Proc /\ w.at = "reopen" /\ w.cached = open /\ w.early = p.early
      BY <1>1, <1>2 DEF Written, Proc
    <2> HIDE DEF w
    <2>3. AllAllowed("reopen", Append(q, set)) /\ Append(q, set) \in Seq(Command)
      BY <1>2, <1>3, AppendShape, AppendAllowed
    <2>4. /\ Once("boot", Append(q, set))
          /\ None("poll", q) => None("poll", Append(q, set))
          /\ Once("poll", q) => Once("poll", Append(q, set))
      <3>1. Once("boot", q) /\ set.for = "boot" /\ set.for # "poll"
        BY <1>2 DEF None, Once
      <3>2. QED
        BY <3>1, <1>2, AppendOnce
    <2>5. \A st : Agrees(open, Append(q, set), st)
      BY <1>2, AppendSetAgrees
    <2>6. p.cached.by = "scheduler"
      BY <1>4, <1>1 DEF LeftOver
    <2>7. ~None("boot", Append(q, set)) /\ (Ordered(q) => Ordered(Append(q, set)))
      BY <1>2, AppendShape, AppendOrdered DEF None
    <2>8. QED
      BY <2>1, <2>2, <2>3, <2>4, <2>5, <2>6, <2>7
  <1>5. CASE ~LeftOver(s)
    <2>1. Booted(p, q) = Started(s, q)
      BY <1>0, <1>5
    <2>2. \A st : Agrees(p.cached, q, st) => Agrees(s.cached, q, st)
      BY <1>1
    <2>3. /\ Started(s, q).proc \in Proc /\ Started(s, q).proc.at = "up"
          /\ Started(s, q).proc.early = s.early
          /\ Started(s, q).queue \in Seq(Command) /\ AllAllowed("up", Started(s, q).queue)
          /\ None("poll", q) => None("poll", Started(s, q).queue)
          /\ Once("poll", q) => Once("poll", Started(s, q).queue)
          /\ \A st : Agrees(s.cached, q, st)
                          => Agrees(Started(s, q).proc.cached, Started(s, q).queue, st)
      BY <1>1, <1>3, StartedKeeps
    <2>4. Once("boot", Started(s, q).queue)
      BY <2>3, NoBoot
    <2>5. QED
      BY <2>1, <2>2, <2>3, <2>4, <1>1
  <1>6. QED
    BY <1>4, <1>5

-----------------------------------------------------------------------------
(* Every step keeps the invariant.                                          *)

LEMMA InitIInv == Init => IInv
  <1> SUFFICES ASSUME Init PROVE IInv
    OBVIOUS
  <1>1. queue \in Seq(Command) /\ DOMAIN queue = {} /\ OpenByDefault \in State
    BY EmptySeq, CommandsMade DEF Init
  <1>2. proc.at = "down" /\ proc \in Proc
    BY <1>1 DEF Init, Proc
  <1>3. {twoAM, torn, reopened} \subseteq BOOLEAN
    BY Zenon DEF Init
  <1>4. count \in [toggles : 0..MaxToggles, faults : 0..MaxFaults, hours : 0..MaxHours]
    BY MaintenanceAssumption DEF Init
  <1>5. TypeOK
    BY <1>1, <1>2, <1>3, <1>4 DEF Init, TypeOK, Proc
  <1>6. Script /\ Enforced
    BY <1>1, <1>2 DEF Init, Script, AllAllowed, Once, None, Starting, Asking, Enforced
  <1>7. QED
    BY <1>5, <1>6 DEF IInv

\* Commands that nobody waits for any more are what they were.
LEMMA GivenUpKeeps ==
  ASSUME TypeOK, Script
  PROVE  /\ GivenUp \in Seq(Command) /\ AllAllowed(proc.at, GivenUp)
         /\ Once("boot", GivenUp) /\ None("poll", GivenUp)
         /\ GivenUp = <<>> <=> queue = <<>>
         /\ queue # <<>> /\ queue[1].for = "boot" => GivenUp[1].for = "boot"
         /\ None("boot", GivenUp) <=> None("boot", queue)
         /\ None("post", queue) => None("post", GivenUp)
         /\ Ordered(queue) => Ordered(GivenUp)
         /\ (\A k \in DOMAIN GivenUp : GivenUp[k].op # "set")
               <=> \A k \in DOMAIN queue : queue[k].op # "set"
         /\ \A cached, st : Agrees(cached, queue, st) => Agrees(cached, GivenUp, st)
  <1>1. queue \in Seq(Command) /\ DOMAIN queue = 1 .. Len(queue) /\ Len(queue) \in Nat
    BY LenProperties DEF TypeOK
  <1>2. \A k \in DOMAIN queue : queue[k] \in Command
    BY <1>1, ElementOfSeq
  <1>3. /\ DOMAIN GivenUp = DOMAIN queue
        /\ \A k \in DOMAIN queue :
             GivenUp[k] = IF queue[k].for = "poll" THEN Get("lost") ELSE queue[k]
    BY DEF GivenUp
  <1>4. \A k \in DOMAIN queue :
          /\ GivenUp[k] \in Command
          /\ GivenUp[k].op = queue[k].op
          /\ GivenUp[k].for = "boot" <=> queue[k].for = "boot"
          /\ GivenUp[k].for = "post" => queue[k].for = "post"
          /\ GivenUp[k].for # "poll"
          /\ queue[k].op = "set" => GivenUp[k] = queue[k]
    BY <1>2, <1>3, CommandsMade DEF Script, AllAllowed, Allowed, Get, Command
  <1>5. GivenUp \in [1 .. Len(queue) -> Command]
    BY <1>1, <1>3, <1>4 DEF GivenUp
  <1>6. GivenUp \in Seq(Command)
    BY <1>1, <1>5, SeqDef
  <1>7. GivenUp = <<>> <=> queue = <<>>
    BY <1>1, <1>3, <1>6, EmptySeq, LenProperties
  <1>8. AllAllowed(proc.at, GivenUp)
    BY <1>3, <1>4 DEF Script, AllAllowed, Allowed
  <1>9. Once("boot", GivenUp) /\ None("poll", GivenUp)
    BY <1>3, <1>4 DEF Script, Once, None
  <1>10. queue # <<>> => 1 \in DOMAIN queue
    BY <1>1, EmptySeq
  <1>11. \A cached, st : Agrees(cached, queue, st) => Agrees(cached, GivenUp, st)
    BY <1>3, <1>4 DEF Agrees
  <1>12. /\ None("boot", GivenUp) <=> None("boot", queue)
         /\ None("post", queue) => None("post", GivenUp)
         /\ (\A k \in DOMAIN GivenUp : GivenUp[k].op # "set")
               <=> \A k \in DOMAIN queue : queue[k].op # "set"
    BY <1>3, <1>4 DEF None
  <1>13. Ordered(queue) => Ordered(GivenUp)
    BY <1>3, <1>4 DEF Ordered
  <1>14. QED
    BY <1>4, <1>6, <1>7, <1>8, <1>9, <1>10, <1>11, <1>12, <1>13

\* A write, by a toggle or a tick.
LEMMA WriteKeeps ==
  ASSUME IInv, proc.at # "down", proc' \in Proc, proc'.at = proc.at, ~torn',
         proc'.early <=> (proc.early \/ proc.at = "init"),
         NEW e \in Command, Allowed(proc.at, e), e.op = "set", e.for \in {"post", "tick"},
         proc.at = "init" => e.state.by # "scheduler",
         proc'.cached = e.state, queue' = Append(queue, e), UNCHANGED <<stored, page>>
  PROVE  queue' \in Seq(Command) /\ Script' /\ Enforced'
  <1>1. queue \in Seq(Command)
    BY DEF IInv, TypeOK
  <1>2. queue' \in Seq(Command)
    BY <1>1, AppendShape
  <1>3. /\ AllAllowed(proc.at, queue) /\ Once("boot", queue) /\ Once("poll", queue)
        /\ Starting /\ Asking
    BY DEF IInv, Script
  <1>4. AllAllowed(proc'.at, queue')
    BY <1>1, <1>3, AppendAllowed
  <1>5. Once("boot", queue') /\ Once("poll", queue')
        /\ (None("poll", queue) => None("poll", queue'))
    BY <1>1, <1>3, AppendOnce
  <1>6. \A st : Agrees(e.state, queue', st)
    BY <1>1, AppendSetAgrees
  <1>7. CASE proc.at = "init"
    <2>1. queue' # <<>> /\ queue'[1].for = "boot"
      <3>1. 1 \in DOMAIN queue /\ queue[1].for = "boot"
        BY <1>1, <1>3, <1>7, TailShape DEF Starting
      <3>2. QED
        BY <3>1, <1>1, AppendShape, AppendProperties
    <2>2. ~\A k \in DOMAIN queue' : queue'[k].op # "set"
      BY <1>1, AppendShape
    <2>3. QED
      BY <2>1, <2>2, <1>2, <1>3, <1>4, <1>5, <1>6, <1>7 DEF Script, Starting, Asking, Enforced
  <1>8. CASE proc.at = "reopen"
    <2>1. ~None("boot", queue) /\ (proc.early \/ (stored.by # "admin" /\ Ordered(queue)))
      BY <1>3, <1>8 DEF Starting
    <2>2. ~None("boot", queue') /\ (Ordered(queue) => Ordered(queue'))
      BY <2>1, <1>1, StartUnderWay, AppendOrdered
    <2>3. QED
      BY <2>1, <2>2, <1>2, <1>3, <1>4, <1>5, <1>6, <1>8 DEF Script, Starting, Asking, Enforced
  <1>9. CASE proc.at = "up"
    BY <1>2, <1>3, <1>4, <1>5, <1>6, <1>9 DEF Script, Starting, Asking, Enforced
  <1>10. QED
    BY <1>7, <1>8, <1>9 DEF Proc

LEMMA BootKeeps == IInv /\ Boot => IInv'
  <1> SUFFICES ASSUME IInv, Boot PROVE IInv'
    OBVIOUS
  <1>1. /\ queue' = <<Get("boot")>> /\ queue' \in Seq(Command) /\ DOMAIN queue' = {1}
        /\ queue' # <<>> /\ queue'[1] = Get("boot")
    <2>1. Get("boot") \in Command
      BY CommandsMade
    <2>2. QED
      BY <2>1 DEF Boot
  <1>2. /\ proc' \in Proc /\ proc'.at = "init" /\ proc'.cached = OpenByDefault
        /\ OpenByDefault.by # "scheduler"
    BY CommandsMade DEF Boot, Proc, OpenByDefault
  <1>3. {twoAM, torn, reopened}' \subseteq BOOLEAN /\ ~torn'
    BY DEF Boot, IInv, TypeOK
  <1>4. TypeOK'
    BY <1>1, <1>2, <1>3 DEF Boot, IInv, TypeOK, Proc
  <1>5. None("poll", queue') /\ Once("boot", queue') /\ Once("poll", queue')
        /\ AllAllowed("init", queue') /\ None("post", queue')
        /\ Agrees(OpenByDefault, queue', OpenByDefault)
    BY <1>1 DEF Agrees, None, Once, AllAllowed, Allowed, Get
  <1>6. Starting' /\ Asking'
    BY <1>1, <1>2, <1>3, <1>5 DEF Boot, IInv, Script, Starting, Asking, Get
  <1>7. QED
    BY <1>2, <1>4, <1>5, <1>6 DEF IInv, Script, Enforced

LEMMA DieKeeps == IInv /\ Die => IInv'
  <1> SUFFICES ASSUME IInv, Die PROVE IInv'
    OBVIOUS
  <1>1. queue' = <<>> /\ queue' \in Seq(Command) /\ DOMAIN queue' = {}
    BY EmptySeq DEF Die
  <1>2. proc' \in Proc /\ proc'.at = "down"
    BY DEF Die, IInv, TypeOK, Proc
  <1>3. {twoAM, torn, reopened}' \subseteq BOOLEAN
    BY DEF Die, IInv, TypeOK
  <1>4. count' \in [toggles : 0..MaxToggles, faults : 0..MaxFaults, hours : 0..MaxHours]
    BY MaintenanceAssumption DEF Die, Fault, IInv, TypeOK
  <1>5. page' \in [shows : {"open", "closed"}, asks : BOOLEAN, sent : BOOLEAN,
                   answer : {"none", "open", "closed"}]
        /\ ~page'.asks /\ page'.sent = page.sent /\ page'.answer = page.answer
    BY DEF Die, IInv, TypeOK
  <1>6. TypeOK'
    BY <1>1, <1>2, <1>3, <1>4, <1>5 DEF Die, IInv, TypeOK, Proc
  <1>7. None("poll", queue') /\ Once("boot", queue') /\ Once("poll", queue')
        /\ AllAllowed("down", queue')
    BY <1>1 DEF None, Once, AllAllowed
  <1>8. Starting' /\ Asking'
    BY <1>2, <1>5, <1>7 DEF Die, IInv, Script, Starting, Asking
  <1>9. QED
    BY <1>2, <1>6, <1>7, <1>8 DEF IInv, Script, Enforced

LEMMA ToggleKeeps == ASSUME IInv, NEW open \in BOOLEAN, Toggle(open) PROVE IInv'
  <1> DEFINE st == [open |-> open, by |-> "admin"]
             e == Set("post", st)
  <1>1. /\ st \in State /\ e \in Command /\ e.op = "set" /\ e.for = "post"
        /\ e.state = st /\ st.by = "admin" /\ Allowed(proc.at, e)
    BY CommandsMade DEF State, Set, Allowed
  <1>2. /\ proc.at # "down" /\ proc' \in Proc /\ proc'.at = proc.at /\ proc'.cached = st
        /\ proc'.early <=> (proc.early \/ proc.at = "init")
    <2>1. Written(proc, st) \in Proc /\ Written(proc, st).at = proc.at
          /\ Written(proc, st).cached = st /\ Written(proc, st).early = proc.early
      BY <1>1 DEF Written, IInv, TypeOK, Proc
    <2>2. (proc.early \/ proc.at = "init") \in BOOLEAN
      OBVIOUS
    <2>3. PICK b \in BOOLEAN : /\ b = (proc.early \/ proc.at = "init")
                               /\ proc' = [Written(proc, st) EXCEPT !.early = b]
      BY <2>1, <2>2 DEF Toggle
    <2>4. QED
      BY <2>1, <2>3 DEF Toggle, Proc
  <1>3. queue' = Append(queue, e) /\ UNCHANGED <<stored, page>> /\ ~torn'
    BY DEF Toggle
  <1> HIDE DEF st, e
  <1>4. queue' \in Seq(Command) /\ Script' /\ Enforced'
    BY <1>1, <1>2, <1>3, WriteKeeps
  <1>5. {twoAM, torn, reopened}' \subseteq BOOLEAN
    BY DEF Toggle, IInv, TypeOK
  <1>6. count' \in [toggles : 0..MaxToggles, faults : 0..MaxFaults, hours : 0..MaxHours]
    <2>1. count.toggles < MaxToggles /\ count' = [count EXCEPT !.toggles = @ + 1]
      BY DEF Toggle
    <2>2. QED
      BY <2>1, MaintenanceAssumption DEF IInv, TypeOK
  <1>7. TypeOK'
    BY <1>2, <1>4, <1>5, <1>6 DEF Toggle, IInv, TypeOK, Proc
  <1>8. QED
    BY <1>4, <1>7 DEF IInv

LEMMA TickKeeps == IInv /\ Tick => IInv'
  <1> SUFFICES ASSUME IInv, Tick PROVE IInv'
    OBVIOUS
  <1> DEFINE e == Set("tick", Closing)
  <1>1. e \in Command /\ Allowed("up", e) /\ e.op = "set" /\ e.for = "tick"
        /\ e.state = Closing
    BY CommandsMade DEF Closing, Set, Allowed
  <1>2. /\ proc.at = "up" /\ proc' \in Proc /\ proc'.at = "up" /\ proc'.cached = Closing
        /\ proc'.early = proc.early
    BY CommandsMade DEF Tick, Closed, Written, IInv, TypeOK, Proc
  <1>3. queue' = Append(queue, e) /\ UNCHANGED <<stored, page>> /\ ~torn'
    BY DEF Tick
  <1> HIDE DEF e
  <1>4. queue' \in Seq(Command) /\ Script' /\ Enforced'
    BY <1>1, <1>2, <1>3, WriteKeeps
  <1>5. {twoAM, torn, reopened}' \subseteq BOOLEAN
    BY DEF Tick, IInv, TypeOK
  <1>6. TypeOK'
    BY <1>2, <1>4, <1>5 DEF Tick, IInv, TypeOK, Proc
  <1>7. QED
    BY <1>4, <1>6 DEF IInv

\* A read that is answered: the start goes on, or a poll has its answer.
LEMMA AnswerKeeps ==
  ASSUME IInv, Asked("get"), NEW p \in Proc, p.at = proc.at, p.early = proc.early,
         proc.at = "init" => (p.cached.by = "scheduler" => stored.by = "scheduler"),
         ~torn' => Agrees(p.cached, queue, stored),
         LET next == IF Head(queue).for = "boot" THEN Booted(p, Tail(queue))
                     ELSE [proc |-> p, queue |-> Tail(queue)]
         IN proc' = next.proc /\ queue' = next.queue,
         Answered(p), UNCHANGED stored
  PROVE  /\ queue' \in Seq(Command) /\ proc' \in Proc /\ proc'.at # "down"
         /\ page' \in [shows : {"open", "closed"}, asks : BOOLEAN, sent : BOOLEAN,
                       answer : {"none", "open", "closed"}]
         /\ (page'.asks \/ page'.answer # "none" => page'.sent)
         /\ Script' /\ Enforced'
  <1>1. /\ queue \in Seq(Command) /\ queue # <<>> /\ Head(queue).op = "get"
        /\ AllAllowed(proc.at, queue) /\ Once("boot", queue) /\ Once("poll", queue)
        /\ Starting /\ Asking
    BY DEF Asked, IInv, TypeOK, Script
  <1>2. /\ Tail(queue) \in Seq(Command) /\ Head(queue) = queue[1] /\ Head(queue) \in Command
        /\ Allowed(proc.at, Head(queue)) /\ AllAllowed(proc.at, Tail(queue))
        /\ Once("boot", Tail(queue)) /\ Once("poll", Tail(queue))
        /\ Head(queue).for = "poll" \/ None("poll", queue) => None("poll", Tail(queue))
        /\ Head(queue).for = "boot" => None("boot", Tail(queue))
    BY <1>1, TailShape, TailAllowed, TailOnce
  <1>3. /\ page' \in [shows : {"open", "closed"}, asks : BOOLEAN, sent : BOOLEAN,
                      answer : {"none", "open", "closed"}]
        /\ IF Head(queue).for = "poll" THEN ~page'.asks /\ page'.sent = page.sent
                                            /\ page'.answer # "none" ELSE page' = page
    BY DEF Answered, Word, IInv, TypeOK
  <1>4. Head(queue).for = "poll" => page.asks
    BY <1>1, <1>2, TailShape DEF Asking, None
  <1>5. page'.asks \/ page'.answer # "none" => page'.sent
    BY <1>1, <1>3, <1>4 DEF Asking, IInv, TypeOK
  <1>6. proc.at # "down"
    BY <1>1 DEF IInv, TypeOK
  <1>7. CASE Head(queue).for = "boot"
    <2>1. proc.at = "init"
      BY <1>1, <1>2, <1>6, <1>7 DEF Allowed, IInv, TypeOK, Proc
    <2>2. ~torn' => Agrees(p.cached, Tail(queue), stored)
      BY <1>1, TailAgrees
    <2>3. proc' = Booted(p, Tail(queue)).proc /\ queue' = Booted(p, Tail(queue)).queue
      BY <1>7
    <2>4. /\ proc' \in Proc /\ proc'.at \in {"reopen", "up"} /\ queue' \in Seq(Command)
          /\ AllAllowed(proc'.at, queue') /\ Once("boot", queue') /\ Once("poll", queue')
          /\ (None("poll", Tail(queue)) => None("poll", queue'))
          /\ proc'.early = p.early
          /\ (proc'.at = "reopen" => /\ p.cached.by = "scheduler" /\ ~None("boot", queue')
                                     /\ (Ordered(Tail(queue)) => Ordered(queue')))
          /\ (Agrees(p.cached, Tail(queue), stored) => Agrees(proc'.cached, queue', stored))
      BY <2>1, <2>3, <1>2, <1>7, BootedKeeps
    <2>a. ~proc.early => Ordered(Tail(queue))
      <3>1. ~proc.early => Once("post", queue) /\ None("post", queue)
        BY <2>1, <1>1 DEF Starting, None, Once
      <3>2. ~proc.early => None("post", Tail(queue))
        BY <3>1, <1>1, TailOnce
      <3>3. QED
        BY <3>2 DEF None, Ordered
    <2>5. Starting'
      BY <2>1, <2>4, <2>a, <1>1 DEF Starting
    <2>6. Asking'
      BY <2>4, <1>1, <1>2, <1>3, <1>4, <1>7 DEF Asking
    <2>7. QED
      BY <2>2, <2>4, <2>5, <2>6, <1>3, <1>5 DEF Script, Enforced
  <1>8. CASE Head(queue).for # "boot"
    <2>1. proc' = p /\ queue' = Tail(queue)
      BY <1>8
    <2>2. proc.at \in {"reopen", "up"}
      BY <1>1, <1>2, <1>6, <1>8 DEF Starting, IInv, TypeOK, Proc
    <2>3. ~torn' => Agrees(p.cached, Tail(queue), stored)
      BY <2>2, <1>1, TailAgrees
    <2>a. /\ ~None("boot", queue) => ~None("boot", Tail(queue))
          /\ Ordered(queue) => Ordered(Tail(queue))
      BY <1>1, <1>8, StartUnderWay, TailOrdered
    <2>4. Starting'
      BY <2>1, <2>2, <2>a, <1>1 DEF Starting
    <2>5. Asking'
      BY <2>1, <1>1, <1>2, <1>3, <1>4 DEF Asking
    <2>6. QED
      BY <2>1, <2>2, <2>3, <2>4, <2>5, <1>2, <1>3, <1>5 DEF Script, Enforced
  <1>9. QED
    BY <1>7, <1>8

LEMMA ReadKeeps == IInv /\ Read => IInv'
  <1> SUFFICES ASSUME IInv, Read PROVE IInv'
    OBVIOUS
  <1> DEFINE st == IF stored.by = "nobody" THEN proc.cached ELSE stored
             p == [proc EXCEPT !.cached = st, !.fresh = TRUE]
  <1>1. /\ st \in State /\ p \in Proc /\ p.at = proc.at /\ p.cached = st
        /\ p.early = proc.early
    BY DEF IInv, TypeOK, Proc
  <1>2. /\ torn' = (IF st = stored THEN SetIsUnderWay(queue) ELSE torn)
        /\ UNCHANGED stored /\ Asked("get") /\ Answered(p)
        /\ LET next == IF Head(queue).for = "boot" THEN Booted(p, Tail(queue))
                       ELSE [proc |-> p, queue |-> Tail(queue)]
           IN proc' = next.proc /\ queue' = next.queue
    BY DEF Read
  <1>3. stored.by = "nobody" => stored = OpenByDefault
    BY DEF IInv, Script, Starting
  <1>4. proc.at = "init" => (st.by = "scheduler" => stored.by = "scheduler")
    BY DEF IInv, Script, Starting, OpenByDefault
  <1>5. proc.at # "down"
    BY <1>2 DEF Asked, IInv, TypeOK
  <1>6. ASSUME ~torn'
        PROVE  Agrees(st, queue, stored)
    <2>1. CASE st = stored
      BY <2>1, <1>2, <1>6 DEF SetIsUnderWay, Agrees
    <2>2. CASE st # stored
      <3>1. ~torn /\ st = proc.cached /\ stored = OpenByDefault
        BY <2>2, <1>2, <1>3, <1>6
      <3>2. CASE proc.at = "init"
        BY <2>2, <3>1, <3>2 DEF IInv, Script, Starting, Agrees
      <3>3. CASE proc.at # "init"
        BY <3>1, <3>3, <1>5 DEF IInv, TypeOK, Enforced
      <3>4. QED
        BY <3>2, <3>3
    <2>3. QED
      BY <2>1, <2>2
  <1> HIDE DEF st, p
  <1>7. /\ queue' \in Seq(Command) /\ proc' \in Proc /\ proc'.at # "down"
        /\ page' \in [shows : {"open", "closed"}, asks : BOOLEAN, sent : BOOLEAN,
                      answer : {"none", "open", "closed"}]
        /\ (page'.asks \/ page'.answer # "none" => page'.sent)
        /\ Script' /\ Enforced'
    BY <1>1, <1>2, <1>4, <1>6, AnswerKeeps
  <1>8. torn' \in BOOLEAN
    BY <1>2 DEF SetIsUnderWay, IInv, TypeOK
  <1>9. users' \in [joining : BOOLEAN, inside : BOOLEAN, odd : BOOLEAN]
    BY Zenon DEF Read, ReadInto, IInv, TypeOK
  <1>10. TypeOK'
    BY <1>7, <1>8, <1>9 DEF Read, IInv, TypeOK, Proc
  <1>11. QED
    BY <1>7, <1>10 DEF IInv

LEMMA ReadFailsKeeps == IInv /\ ReadFails => IInv'
  <1> SUFFICES ASSUME IInv, ReadFails PROVE IInv'
    OBVIOUS
  <1> DEFINE p == [proc EXCEPT !.cached = OpenByDefault, !.fresh = TRUE]
  <1>1. p \in Proc /\ p.at = proc.at /\ p.cached = OpenByDefault /\ p.early = proc.early
    BY CommandsMade DEF IInv, TypeOK, Proc
  <1>2. /\ torn' /\ torn' \in BOOLEAN /\ UNCHANGED <<stored, users, twoAM, reopened>>
        /\ Asked("get") /\ Answered(p)
        /\ LET next == IF Head(queue).for = "boot" THEN Booted(p, Tail(queue))
                       ELSE [proc |-> p, queue |-> Tail(queue)]
           IN proc' = next.proc /\ queue' = next.queue
    BY DEF ReadFails
  <1>3. OpenByDefault.by # "scheduler"
    BY DEF OpenByDefault
  <1> HIDE DEF p
  <1>4. /\ queue' \in Seq(Command) /\ proc' \in Proc /\ proc'.at # "down"
        /\ page' \in [shows : {"open", "closed"}, asks : BOOLEAN, sent : BOOLEAN,
                      answer : {"none", "open", "closed"}]
        /\ (page'.asks \/ page'.answer # "none" => page'.sent)
        /\ Script' /\ Enforced'
    BY <1>1, <1>2, <1>3, AnswerKeeps
  <1>5. count' \in [toggles : 0..MaxToggles, faults : 0..MaxFaults, hours : 0..MaxHours]
    BY MaintenanceAssumption DEF ReadFails, Fault, IInv, TypeOK
  <1>6. TypeOK'
    BY <1>2, <1>4, <1>5 DEF IInv, TypeOK, Proc
  <1>7. QED
    BY <1>4, <1>6 DEF IInv

\* A write that is answered: a start goes on, or a route or a tick is through.
LEMMA ContinueKeeps ==
  ASSUME IInv, Asked("set"), Continued(Head(queue)), UNCHANGED page,
         stored' = Head(queue).state \/ (stored' = stored /\ torn'),
         torn' = torn \/ torn'
  PROVE  /\ queue' \in Seq(Command) /\ proc' \in Proc /\ proc'.at # "down"
         /\ stored' \in State /\ reopened' \in BOOLEAN /\ Script' /\ Enforced'
  <1> DEFINE c == Head(queue)
  <1>1. /\ queue \in Seq(Command) /\ queue # <<>> /\ c.op = "set"
        /\ AllAllowed(proc.at, queue) /\ Once("boot", queue) /\ Once("poll", queue)
        /\ Starting /\ Asking /\ proc \in Proc /\ stored \in State
        /\ torn \in BOOLEAN /\ reopened \in BOOLEAN /\ twoAM \in BOOLEAN
    BY DEF Asked, IInv, TypeOK, Script, Proc
  <1>2. /\ Tail(queue) \in Seq(Command) /\ c = queue[1] /\ c \in Command
        /\ Allowed(proc.at, c) /\ AllAllowed(proc.at, Tail(queue))
        /\ Once("boot", Tail(queue)) /\ Once("poll", Tail(queue))
        /\ (None("poll", queue) => None("poll", Tail(queue)))
        /\ (c.for = "boot" => None("boot", Tail(queue)))
    BY <1>1, TailShape, TailAllowed, TailOnce
  <1>3. c.state \in State /\ c.state.by # "nobody" /\ c.for \in {"boot", "post", "tick"}
    BY <1>1, <1>2 DEF Allowed, Command
  <1>4. stored' \in State /\ (stored'.by = "nobody" => stored' = OpenByDefault)
    BY <1>1, <1>3 DEF Starting
  <1>5. reopened' \in BOOLEAN
    BY <1>1, <1>3, Zenon DEF Continued, State
  <1>6. proc.at \in {"reopen", "up"}
    BY <1>1, <1>2 DEF Allowed, Proc, Starting, IInv, TypeOK
  <1>7. ~torn' => Agrees(proc.cached, Tail(queue), stored')
    <2>1. SUFFICES ASSUME ~torn' PROVE Agrees(proc.cached, Tail(queue), stored')
      OBVIOUS
    <2>2. ~torn /\ stored' = c.state
      BY <2>1
    <2>3. Agrees(proc.cached, queue, stored)
      BY <2>2, <1>6 DEF IInv, Enforced
    <2>4. QED
      BY <2>2, <2>3, <1>1, TailAgrees
  <1>8. CASE c.for = "boot"
    <2> DEFINE s == [proc EXCEPT !.status = TRUE]
    <2>1. s \in Proc /\ s.cached = proc.cached
      BY <1>1 DEF Proc
    <2>2. proc' = Started(s, Tail(queue)).proc /\ queue' = Started(s, Tail(queue)).queue
      BY <1>8 DEF Continued
    <2> HIDE DEF s
    <2>3. AllAllowed("up", Tail(queue))
      <3>1. proc.at = "reopen"
        BY <1>2, <1>6, <1>8 DEF Allowed
      <3>2. QED
        BY <3>1, <1>2, <1>8 DEF AllAllowed, Allowed, None
    <2>4. /\ proc' \in Proc /\ proc'.at = "up" /\ queue' \in Seq(Command)
          /\ AllAllowed("up", queue') /\ Once("poll", queue') /\ Once("boot", queue')
          /\ (None("poll", Tail(queue)) => None("poll", queue'))
          /\ \A st : Agrees(s.cached, Tail(queue), st)
                          => Agrees(proc'.cached, queue', st)
      BY <2>1, <2>2, <2>3, <1>2, StartedKeeps, NoBoot
    <2>5. Starting' /\ Asking'
      BY <2>4, <1>1, <1>2, <1>4 DEF Starting, Asking
    <2>6. ~torn' => Agrees(proc'.cached, queue', stored')
      BY <2>1, <2>4, <1>7
    <2>7. QED
      BY <2>4, <2>5, <2>6, <1>4, <1>5 DEF Script, Enforced
  <1>9. CASE c.for # "boot"
    <2> DEFINE noted == [proc EXCEPT !.status = c.state.open, !.last = Word(c.state.open)]
    <2>0. /\ noted \in Proc /\ noted.at = proc.at /\ noted.cached = proc.cached
          /\ noted.early = proc.early
      <3>1. c.state.open \in BOOLEAN /\ Word(c.state.open) \in {"open", "closed"}
        BY <1>3 DEF State, Word
      <3>2. QED
        BY <3>1, <1>1 DEF Proc
    <2>a. (proc' = proc \/ proc' = noted) /\ queue' = Tail(queue)
      <3>1. CASE c.for = "post"
        BY <3>1 DEF Continued
      <3>2. CASE c.for = "tick"
        BY <3>2 DEF Continued
      <3>3. QED
        BY <3>1, <3>2, <1>3, <1>9
    <2> HIDE DEF noted
    <2>1. /\ proc' \in Proc /\ proc'.at = proc.at /\ proc'.cached = proc.cached
          /\ queue' = Tail(queue) /\ proc'.early = proc.early
      BY <1>1, <2>0, <2>a
    <2>2. proc.at = "reopen" => proc.early /\ ~None("boot", Tail(queue))
      <3>1. proc.at = "reopen" => c.for = "post" /\ ~None("boot", queue)
        BY <1>1, <1>2, <1>9 DEF Allowed, Starting
      <3>2. c.for = "post" => ~Ordered(queue)
        BY <1>1, <1>9, TailOrdered
      <3>3. QED
        BY <3>1, <3>2, <1>1, <1>9, StartUnderWay DEF Starting
    <2>3. Starting' /\ Asking'
      BY <2>1, <2>2, <1>1, <1>2, <1>4, <1>6 DEF Starting, Asking
    <2>4. QED
      BY <2>1, <2>3, <1>2, <1>4, <1>5, <1>6, <1>7 DEF Script, Enforced
  <1>10. QED
    BY <1>8, <1>9

LEMMA AppliedKeeps ==
  ASSUME TypeOK, NEW c, Applied(c)
  PROVE  users' \in [joining : BOOLEAN, inside : BOOLEAN, odd : BOOLEAN]
  BY DEF Applied, TypeOK

LEMMA StoreKeeps == IInv /\ Store => IInv'
  <1> SUFFICES ASSUME IInv, Store PROVE IInv'
    OBVIOUS
  <1>1. /\ queue' \in Seq(Command) /\ proc' \in Proc /\ proc'.at # "down"
        /\ stored' \in State /\ reopened' \in BOOLEAN /\ Script' /\ Enforced'
    BY ContinueKeeps DEF Store
  <1>2. users' \in [joining : BOOLEAN, inside : BOOLEAN, odd : BOOLEAN]
    BY AppliedKeeps DEF Store, IInv
  <1>3. TypeOK'
    BY <1>1, <1>2 DEF Store, IInv, TypeOK, Proc
  <1>4. QED
    BY <1>1, <1>3 DEF IInv

LEMMA StoreFailsKeeps == IInv /\ StoreFails => IInv'
  <1> SUFFICES ASSUME IInv, StoreFails PROVE IInv'
    OBVIOUS
  <1>1. /\ queue' \in Seq(Command) /\ proc' \in Proc /\ proc'.at # "down"
        /\ stored' \in State /\ reopened' \in BOOLEAN /\ Script' /\ Enforced'
    BY ContinueKeeps DEF StoreFails
  <1>2. users' \in [joining : BOOLEAN, inside : BOOLEAN, odd : BOOLEAN]
    BY AppliedKeeps DEF StoreFails, IInv
  <1>3. count' \in [toggles : 0..MaxToggles, faults : 0..MaxFaults, hours : 0..MaxHours]
    BY MaintenanceAssumption DEF StoreFails, Fault, IInv, TypeOK
  <1>4. TypeOK'
    BY <1>1, <1>2, <1>3 DEF StoreFails, IInv, TypeOK, Proc
  <1>5. QED
    BY <1>1, <1>4 DEF IInv

\* The clock and the users leave the process, Redis and the browser alone.
LEMMA AsideKeeps ==
  ASSUME IInv, Hour \/ Expire \/ Join \/ Enter \/ Leave
  PROVE  IInv'
  <1>1. /\ proc' \in Proc /\ proc'.at = proc.at /\ proc'.cached = proc.cached
        /\ proc'.early = proc.early
        /\ UNCHANGED <<stored, queue, page, torn>>
    BY DEF IInv, TypeOK, Proc, Hour, Expire, Join, Enter, Leave
  <1>2. Script' /\ Enforced'
    BY <1>1 DEF IInv, Script, Starting, Asking, Enforced
  <1>3. {twoAM, torn, reopened}' \subseteq BOOLEAN
    BY DEF IInv, TypeOK, Hour, Expire, Join, Enter, Leave
  <1>4. count' \in [toggles : 0..MaxToggles, faults : 0..MaxFaults, hours : 0..MaxHours]
    BY MaintenanceAssumption DEF IInv, TypeOK, Hour, Expire, Join, Enter, Leave
  <1>5. users' \in [joining : BOOLEAN, inside : BOOLEAN, odd : BOOLEAN]
        /\ (proc.at = "down" => ~users'.inside /\ ~users'.joining)
    <2> DEFINE Users == [joining : BOOLEAN, inside : BOOLEAN, odd : BOOLEAN]
    <2>1. users \in Users /\ (proc.at = "down" => ~users.inside /\ ~users.joining)
      BY DEF IInv, TypeOK
    <2>2. CASE Hour \/ Expire
      BY <2>1, <2>2 DEF Hour, Expire
    <2>3. CASE Join
      BY <2>1, <2>3 DEF Join
    <2>4. CASE Enter
      <3>1. (~proc.cached.open) \in BOOLEAN
        OBVIOUS
      <3>2. users' \in Users
        BY <3>1, <2>4, Zenon DEF Enter
      <3>3. QED
        BY <2>1, <2>4, <3>2 DEF Enter
    <2>5. CASE Leave
      BY <2>1, <2>5 DEF Leave
    <2>6. QED
      BY <2>2, <2>3, <2>4, <2>5
  <1>6. TypeOK'
    BY <1>1, <1>3, <1>4, <1>5 DEF IInv, TypeOK, Proc
  <1>7. QED
    BY <1>2, <1>6 DEF IInv

LEMMA PollKeeps == IInv /\ Poll => IInv'
  <1> SUFFICES ASSUME IInv, Poll PROVE IInv'
    OBVIOUS
  <1>1. /\ queue \in Seq(Command) /\ ~page.sent /\ proc.at # "down" /\ Asking
        /\ AllAllowed(proc.at, queue) /\ Once("boot", queue) /\ Once("poll", queue)
    BY DEF Poll, IInv, TypeOK, Script
  <1>2. None("poll", queue) /\ ~page.asks /\ page.answer = "none"
    BY <1>1 DEF Asking, IInv, TypeOK
  <1>3. CASE proc.fresh
    <2>1. /\ queue' = queue /\ ~page'.asks /\ page'.sent
          /\ page' \in [shows : {"open", "closed"}, asks : BOOLEAN, sent : BOOLEAN,
                        answer : {"none", "open", "closed"}]
      BY <1>2, <1>3 DEF Poll, Word, IInv, TypeOK
    <2>2. TypeOK'
      BY <2>1 DEF Poll, IInv, TypeOK
    <2>3. Script' /\ Enforced'
      BY <2>1, <1>1, <1>2 DEF Poll, IInv, Script, Starting, Asking, Enforced
    <2>4. QED
      BY <2>2, <2>3 DEF IInv
  <1>4. CASE ~proc.fresh
    <2> DEFINE e == Get("poll")
    <2>1. /\ queue' = Append(queue, e) /\ page'.asks /\ page'.sent /\ page'.answer = "none"
          /\ page' \in [shows : {"open", "closed"}, asks : BOOLEAN, sent : BOOLEAN,
                        answer : {"none", "open", "closed"}]
      BY <1>2, <1>4 DEF Poll, IInv, TypeOK
    <2>2. /\ e \in Command /\ e.op = "get" /\ e.for = "poll" /\ Allowed(proc.at, e)
      BY CommandsMade DEF Get, Allowed
    <2> HIDE DEF e
    <2>3. /\ queue' \in Seq(Command) /\ AllAllowed(proc.at, queue')
          /\ Once("boot", queue') /\ Once("poll", queue')
      BY <2>1, <2>2, <1>1, <1>2, AppendShape, AppendAllowed, AppendOnce
    <2>4. \A cached, st : Agrees(cached, queue, st) => Agrees(cached, queue', st)
      BY <2>1, <2>2, <1>1, AppendGetAgrees
    <2>5. /\ queue # <<>> /\ queue[1].for = "boot" => queue'[1].for = "boot"
          /\ queue' # <<>>
      <3>1. queue # <<>> => 1 \in DOMAIN queue
        BY <1>1, TailShape
      <3>2. QED
        BY <3>1, <2>1, <2>2, <1>1, AppendShape, AppendProperties
    <2>6. TypeOK'
      BY <2>1, <2>3, <1>1 DEF Poll, IInv, TypeOK
    <2>a. /\ ~None("boot", queue) => ~None("boot", queue')
          /\ None("post", queue) => None("post", queue')
          /\ Ordered(queue) => Ordered(queue')
          /\ (\A k \in DOMAIN queue' : queue'[k].op # "set")
                => \A k \in DOMAIN queue : queue[k].op # "set"
      BY <2>1, <2>2, <1>1, StartUnderWay, AppendOnce, AppendOrdered, AppendShape
    <2>7. Starting' /\ Asking'
      BY <2>1, <2>4, <2>5, <2>a DEF Poll, IInv, Script, Starting, Asking
    <2>8. Enforced'
      BY <2>4 DEF Poll, IInv, Enforced
    <2>9. QED
      BY <2>3, <2>6, <2>7, <2>8 DEF Poll, IInv, Script
  <1>5. QED
    BY <1>3, <1>4

LEMMA FailedIsPage ==
  ASSUME TypeOK
  PROVE  Failed \in [shows : {"open", "closed"}, asks : BOOLEAN, sent : BOOLEAN,
                     answer : {"none", "open", "closed"}]
         /\ ~Failed.asks /\ ~Failed.sent /\ Failed.answer = "none"
  BY DEF Failed, TypeOK

LEMMA PollAnsweredKeeps == IInv /\ PollAnswered => IInv'
  <1> SUFFICES ASSUME IInv, PollAnswered PROVE IInv'
    OBVIOUS
  <1>1. /\ page' \in [shows : {"open", "closed"}, asks : BOOLEAN, sent : BOOLEAN,
                      answer : {"none", "open", "closed"}]
        /\ page'.answer = "none" /\ page'.asks = page.asks /\ ~page.asks
    BY DEF PollAnswered, IInv, TypeOK, Script, Asking
  <1>2. TypeOK'
    BY <1>1 DEF PollAnswered, IInv, TypeOK
  <1>3. QED
    BY <1>1, <1>2 DEF PollAnswered, IInv, Script, Starting, Asking, Enforced

LEMMA PollFailsKeeps == IInv /\ PollFails => IInv'
  <1> SUFFICES ASSUME IInv, PollFails PROVE IInv'
    OBVIOUS
  <1>1. /\ page' = Failed /\ queue' = GivenUp
        /\ UNCHANGED <<stored, proc, users, twoAM, torn, reopened>>
    BY DEF PollFails
  <1>2. count' \in [toggles : 0..MaxToggles, faults : 0..MaxFaults, hours : 0..MaxHours]
    BY MaintenanceAssumption DEF PollFails, Fault, IInv, TypeOK
  <1>3. /\ GivenUp \in Seq(Command) /\ AllAllowed(proc.at, GivenUp)
        /\ Once("boot", GivenUp) /\ None("poll", GivenUp)
        /\ GivenUp = <<>> <=> queue = <<>>
        /\ queue # <<>> /\ queue[1].for = "boot" => GivenUp[1].for = "boot"
        /\ None("boot", GivenUp) <=> None("boot", queue)
        /\ None("post", queue) => None("post", GivenUp)
        /\ Ordered(queue) => Ordered(GivenUp)
        /\ (\A k \in DOMAIN GivenUp : GivenUp[k].op # "set")
              <=> \A k \in DOMAIN queue : queue[k].op # "set"
        /\ \A cached, st : Agrees(cached, queue, st) => Agrees(cached, GivenUp, st)
    BY GivenUpKeeps DEF IInv
  <1>4. TypeOK'
    BY <1>1, <1>2, <1>3, FailedIsPage DEF IInv, TypeOK
  <1>5. Script'
    <2>1. Once("poll", GivenUp)
      BY <1>3 DEF Once, None
    <2>2. Starting'
      BY <1>1, <1>3 DEF IInv, Script, Starting
    <2>3. QED
      BY <2>1, <2>2, <1>1, <1>3, FailedIsPage DEF IInv, Script, Asking
  <1>6. Enforced'
    BY <1>1, <1>3 DEF IInv, Enforced
  <1>7. QED
    BY <1>4, <1>5, <1>6 DEF IInv

LEMMA PollUnheardKeeps == IInv /\ PollUnheard => IInv'
  <1> SUFFICES ASSUME IInv, PollUnheard PROVE IInv'
    OBVIOUS
  <1>1. page' = Failed /\ UNCHANGED <<stored, proc, queue, users, twoAM, torn, reopened, count>>
    BY DEF PollUnheard
  <1>2. None("poll", queue)
    BY DEF PollUnheard, IInv, TypeOK, Script, Asking, None
  <1>3. TypeOK'
    BY <1>1, FailedIsPage DEF IInv, TypeOK
  <1>4. QED
    BY <1>1, <1>2, <1>3, FailedIsPage DEF IInv, Script, Starting, Asking, Enforced

LEMMA NextIInv == IInv /\ [Next]_vars => IInv'
  <1>1. ASSUME IInv, UNCHANGED vars PROVE IInv'
    BY <1>1 DEF vars, IInv, TypeOK, Script, Starting, Asking, Enforced
  <1>2. QED
    BY <1>1, BootKeeps, DieKeeps, ToggleKeeps, TickKeeps, ReadKeeps, ReadFailsKeeps,
       StoreKeeps, StoreFailsKeeps, AsideKeeps, PollKeeps, PollAnsweredKeeps,
       PollFailsKeeps, PollUnheardKeeps DEF Next

LEMMA Inductive == Spec => []IInv
  BY InitIInv, NextIInv, PTL DEF Spec

-----------------------------------------------------------------------------
(* What follows.                                                            *)

\* Every part of the state keeps its range, and a dead process (app.ts) leaves nothing
\* under way.
THEOREM TypeCorrect == Spec => []TypeOK
  <1>1. IInv => TypeOK
    BY DEF IInv
  <1>2. QED
    BY <1>1, Inductive, PTL

\* What the join handler asks is what Redis stores (maintenance.service.ts), with any
\* number of toggles, ticks and starts: no step leaves the cache behind, once the writes
\* under way are answered, but a failed command and a read that was asked before a write.
THEOREM EnforcedStored == Spec => []EnforcedIsStored
  <1>1. IInv => EnforcedIsStored
    BY DEF IInv, Enforced, Agrees, EnforcedIsStored, SetIsUnderWay
  <1>2. QED
    BY <1>1, Inductive, PTL

\* A step that reopens the site an administrator closed stores an administrator's state, or
\* is the write of a start that read the state before his close was stored.
LEMMA StepReopens ==
  ASSUME IInv, Next, stored.by = "admin", ~stored.open, stored'.open
  PROVE  stored'.by = "admin" \/ (Head(queue).for = "boot" /\ proc.early)
  <1>1. stored' # stored
    OBVIOUS
  <1>2. Store
    BY <1>1 DEF Next, Boot, Die, Tick, Hour, Expire, Toggle, Read, ReadFails, StoreFails,
       Join, Enter, Leave, Poll, PollAnswered, PollFails, PollUnheard
  <1>3. /\ stored' = Head(queue).state /\ Head(queue).op = "set" /\ queue # <<>>
        /\ queue \in Seq(Command) /\ AllAllowed(proc.at, queue) /\ proc \in Proc
        /\ (proc.at = "down" => queue = <<>>) /\ Starting
    BY <1>2 DEF Store, Asked, IInv, TypeOK, Script, Proc
  <1>4. Allowed(proc.at, Head(queue))
    BY <1>3, TailAllowed
  <1>5. SUFFICES ASSUME stored'.by # "admin"
                 PROVE  Head(queue).for = "boot" /\ proc.early
    OBVIOUS
  <1>6. Head(queue).for = "boot"
    BY <1>3, <1>4, <1>5 DEF Allowed
  <1>7. proc.at = "reopen"
    BY <1>3, <1>4, <1>6 DEF Allowed, Proc
  <1>8. QED
    BY <1>3, <1>6, <1>7 DEF Starting

\* Only an administrator reopens what an administrator closed (statusScheduler.ts), however
\* starts, ticks and toggles overlap; but for the start that had asked for the state before
\* the close was given, and was answered after (app.ts).
THEOREM AdminReopensAlways == Spec => AdminReopens
  <1>1. IInv /\ [Next]_vars
          => [stored.by = "admin" /\ ~stored.open /\ stored'.open
                 => stored'.by = "admin" \/ (Head(queue).for = "boot" /\ proc.early)]_vars
    BY StepReopens DEF vars
  <1>2. QED
    BY <1>1, Inductive, PTL DEF Spec, AdminReopens

-----------------------------------------------------------------------------
(* Nobody stays in a closed site.                                           *)

\* Whoever is inside a closed site, having come in while it was open, is about to be put
\* out: a close is under way, whose continuation ends the chats.  That some write is under
\* way, as ClosedIsEmpty says, would not do: the answer of an opening puts nobody out.
CloseUnderWay(q) == \E k \in DOMAIN q : q[k].op = "set" /\ ~q[k].state.open
Emptied == users.inside /\ ~users.odd /\ ~proc.cached.open => CloseUnderWay(queue)

\* A close stays under way until it is the one that is answered.
LEMMA AppendClose ==
  ASSUME NEW q \in Seq(Command), NEW e \in Command
  PROVE  /\ CloseUnderWay(q) => CloseUnderWay(Append(q, e))
         /\ e.op = "set" /\ ~e.state.open => CloseUnderWay(Append(q, e))
  <1>1. ASSUME NEW k \in DOMAIN q, q[k].op = "set", ~q[k].state.open
        PROVE  CloseUnderWay(Append(q, e))
    <2>1. k \in DOMAIN Append(q, e) /\ Append(q, e)[k] = q[k]
      BY AppendShape
    <2>2. QED
      BY <2>1, <1>1 DEF CloseUnderWay
  <1>2. Len(q) + 1 \in DOMAIN Append(q, e) /\ Append(q, e)[Len(q) + 1] = e
    BY AppendShape
  <1>3. QED
    BY <1>1, <1>2 DEF CloseUnderWay

LEMMA TailClose ==
  ASSUME NEW q \in Seq(Command), q # <<>>, CloseUnderWay(q),
         Head(q).op = "set" => Head(q).state.open
  PROVE  CloseUnderWay(Tail(q))
  <1>1. PICK k \in DOMAIN q : q[k].op = "set" /\ ~q[k].state.open
    BY DEF CloseUnderWay
  <1>2. k # 1
    BY <1>1, TailShape
  <1>3. k - 1 \in DOMAIN Tail(q) /\ Tail(q)[k - 1] = q[k]
    BY <1>2, TailShape
  <1>4. QED
    BY <1>1, <1>3 DEF CloseUnderWay

\* A start closes the site only by a write of its own.
LEMMA StartedClose ==
  ASSUME NEW p \in Proc, NEW q \in Seq(Command), ~Started(p, q).proc.cached.open
  PROVE  \/ CloseUnderWay(Started(p, q).queue)
         \/ ~p.cached.open /\ Started(p, q).queue = q
  <1> DEFINE s == [p EXCEPT !.at = "up", !.last = Word(p.status)]
             tick == Set("tick", Closing)
  <1>1. s.cached = p.cached
    BY DEF Proc
  <1>2. tick \in Command /\ tick.op = "set" /\ ~tick.state.open
    BY CommandsMade DEF Set, Closing
  <1>3. Started(p, q) = IF Due(s) THEN [proc |-> Closed(s), queue |-> Append(q, tick)]
                        ELSE [proc |-> s, queue |-> q]
    BY DEF Started
  <1> HIDE DEF s, tick
  <1>4. CASE Due(s)
    BY <1>2, <1>3, <1>4, AppendClose
  <1>5. CASE ~Due(s)
    BY <1>1, <1>3, <1>5
  <1>6. QED
    BY <1>4, <1>5

LEMMA BootedClose ==
  ASSUME NEW p \in Proc, NEW q \in Seq(Command), ~Booted(p, q).proc.cached.open
  PROVE  \/ CloseUnderWay(Booted(p, q).queue)
         \/ ~p.cached.open /\ Booted(p, q).queue = q
  <1> DEFINE s == [p EXCEPT !.status = p.cached.open]
             open == [open |-> TRUE, by |-> "scheduler"]
             w == [Written(s, open) EXCEPT !.at = "reopen"]
             set == Set("boot", open)
  <1>1. s \in Proc /\ s.cached = p.cached
    BY DEF Proc, State
  <1>2. w.cached.open
    BY <1>1 DEF Written, Proc
  <1>3. Booted(p, q) = IF LeftOver(s) THEN [proc |-> w, queue |-> Append(q, set)]
                       ELSE Started(s, q)
    BY DEF Booted
  <1> HIDE DEF s, w, set
  <1>4. ~LeftOver(s) /\ Booted(p, q) = Started(s, q)
    BY <1>2, <1>3
  <1>5. QED
    BY <1>1, <1>4, StartedClose

\* What a read finds is what stays in force, unless the start closes the site by itself.
LEMMA AnswerClose ==
  ASSUME IInv, Asked("get"), NEW p \in Proc,
         LET next == IF Head(queue).for = "boot" THEN Booted(p, Tail(queue))
                     ELSE [proc |-> p, queue |-> Tail(queue)]
         IN proc' = next.proc /\ queue' = next.queue,
         ~proc'.cached.open,
         ~p.cached.open => CloseUnderWay(queue)
  PROVE  CloseUnderWay(queue')
  <1>1. queue \in Seq(Command) /\ queue # <<>> /\ Head(queue).op = "get"
    BY DEF Asked, IInv, TypeOK
  <1>2. Tail(queue) \in Seq(Command) /\ (CloseUnderWay(queue) => CloseUnderWay(Tail(queue)))
    BY <1>1, TailShape, TailClose
  <1>3. CASE Head(queue).for = "boot"
    BY <1>2, <1>3, BootedClose
  <1>4. CASE Head(queue).for # "boot"
    BY <1>2, <1>4
  <1>5. QED
    BY <1>3, <1>4

\* Whoever stays through a write that is answered was not put out by a close, and any
\* other close is still under way.
LEMMA ContinueClose ==
  ASSUME IInv, Emptied, Asked("set"), Applied(Head(queue)), Continued(Head(queue))
  PROVE  Emptied'
  <1> DEFINE c == Head(queue)
  <1> SUFFICES ASSUME users'.inside, ~users'.odd, ~proc'.cached.open
               PROVE  CloseUnderWay(queue')
    BY DEF Emptied
  <1>1. /\ queue \in Seq(Command) /\ queue # <<>> /\ c.op = "set" /\ c.for # "get"
        /\ proc \in Proc /\ Tail(queue) \in Seq(Command)
    BY TailShape, TailAllowed DEF Asked, IInv, TypeOK, Script, Proc, Allowed, Command
  <1>2. users \in [joining : BOOLEAN, inside : BOOLEAN, odd : BOOLEAN]
    BY DEF IInv, TypeOK
  <1>3. c.state.open /\ users' = users
    BY <1>2 DEF Applied, Applies
  <1>4. ~proc.cached.open => CloseUnderWay(Tail(queue))
    BY <1>1, <1>3, TailClose DEF Emptied
  <1>5. CASE c.for = "boot"
    <2> DEFINE s == [proc EXCEPT !.status = TRUE]
    <2>1. s \in Proc /\ s.cached = proc.cached
      BY <1>1 DEF Proc
    <2>2. proc' = Started(s, Tail(queue)).proc /\ queue' = Started(s, Tail(queue)).queue
      BY <1>5 DEF Continued
    <2> HIDE DEF s
    <2>3. QED
      BY <2>1, <2>2, <1>1, <1>4, StartedClose
  <1>6. CASE c.for # "boot"
    <2> DEFINE noted == [proc EXCEPT !.status = c.state.open, !.last = Word(c.state.open)]
    <2>1. noted.cached = proc.cached
      BY <1>1 DEF Proc
    <2>2. (proc' = proc \/ proc' = noted) /\ queue' = Tail(queue)
      <3>1. CASE c.for = "post"
        BY <3>1 DEF Continued
      <3>2. CASE c.for # "post"
        BY <3>2, <1>6 DEF Continued
      <3>3. QED
        BY <3>1, <3>2
    <2> HIDE DEF noted
    <2>3. QED
      BY <2>1, <2>2, <1>4
  <1>7. QED
    BY <1>5, <1>6

LEMMA StepEmptied == IInv /\ Emptied /\ [Next]_vars => Emptied'
  <1> SUFFICES ASSUME IInv, Emptied, [Next]_vars PROVE Emptied'
    OBVIOUS
  <1>1. /\ queue \in Seq(Command) /\ proc \in Proc
        /\ users \in [joining : BOOLEAN, inside : BOOLEAN, odd : BOOLEAN]
    BY DEF IInv, TypeOK, Proc
  <1>2. CASE Boot \/ Die
    BY <1>2 DEF Boot, Die, IInv, TypeOK, Emptied
  <1>3. CASE Tick
    <2> DEFINE e == Set("tick", Closing)
    <2>1. e \in Command /\ e.op = "set" /\ ~e.state.open
      BY CommandsMade DEF Set, Closing
    <2>2. queue' = Append(queue, e)
      BY <1>3 DEF Tick
    <2> HIDE DEF e
    <2>3. QED
      BY <2>1, <2>2, <1>1, AppendClose DEF Emptied
  <1>4. CASE \E open \in BOOLEAN : Toggle(open)
    <2>1. PICK open \in BOOLEAN : Toggle(open)
      BY <1>4
    <2> DEFINE st == [open |-> open, by |-> "admin"]
               e == Set("post", st)
    <2>2. e \in Command /\ e.op = "set" /\ e.state.open = open
      BY CommandsMade DEF Set, State
    <2>3. queue' = Append(queue, e) /\ proc'.cached.open = open
      BY <2>1, <1>1 DEF Toggle, Written, Proc
    <2> HIDE DEF e
    <2>4. QED
      BY <2>2, <2>3, <1>1, AppendClose DEF Emptied
  <1>5. CASE Read
    <2> DEFINE st == IF stored.by = "nobody" THEN proc.cached ELSE stored
               p == [proc EXCEPT !.cached = st, !.fresh = TRUE]
    <2> SUFFICES ASSUME users'.inside, ~users'.odd, ~proc'.cached.open
                 PROVE  CloseUnderWay(queue')
      BY DEF Emptied
    <2>1. p \in Proc /\ p.cached = st
      BY DEF IInv, TypeOK, Proc
    <2>2. /\ Asked("get") /\ ReadInto(st)
          /\ LET next == IF Head(queue).for = "boot" THEN Booted(p, Tail(queue))
                         ELSE [proc |-> p, queue |-> Tail(queue)]
             IN proc' = next.proc /\ queue' = next.queue
      BY <1>5 DEF Read
    <2> HIDE DEF st, p
    <2>3. /\ users.inside /\ ~users.odd
          /\ ~(users.inside /\ ~st.open /\ proc.cached.open)
      BY <2>2, <1>1, Zenon DEF ReadInto
    <2>4. ~p.cached.open => CloseUnderWay(queue)
      BY <2>1, <2>3 DEF Emptied
    <2>5. QED
      BY <2>1, <2>2, <2>4, AnswerClose
  <1>6. CASE ReadFails
    <2> DEFINE p == [proc EXCEPT !.cached = OpenByDefault, !.fresh = TRUE]
    <2> SUFFICES ASSUME users'.inside, ~users'.odd, ~proc'.cached.open
                 PROVE  CloseUnderWay(queue')
      BY DEF Emptied
    <2>1. p \in Proc /\ p.cached.open
      BY <1>1, CommandsMade DEF OpenByDefault, Proc
    <2>2. /\ Asked("get")
          /\ LET next == IF Head(queue).for = "boot" THEN Booted(p, Tail(queue))
                         ELSE [proc |-> p, queue |-> Tail(queue)]
             IN proc' = next.proc /\ queue' = next.queue
      BY <1>6 DEF ReadFails
    <2> HIDE DEF p
    <2>3. QED
      BY <2>1, <2>2, AnswerClose
  <1>7. CASE Store
    BY <1>7, ContinueClose DEF Store
  <1>8. CASE StoreFails
    BY <1>8, ContinueClose DEF StoreFails
  <1>9. CASE Enter
    BY <1>9 DEF Enter, Emptied
  <1>10. CASE Leave
    BY <1>1, <1>10 DEF Leave, Emptied
  <1>11. CASE Join \/ Hour \/ PollAnswered \/ PollUnheard \/ UNCHANGED vars
    BY <1>1, <1>11 DEF Join, Hour, PollAnswered, PollUnheard, vars, Emptied
  <1>12. CASE Expire
    BY <1>1, <1>12 DEF Expire, Emptied, Proc
  <1>13. CASE Poll
    <2>1. Get("poll") \in Command
      BY CommandsMade
    <2>2. queue' = queue \/ queue' = Append(queue, Get("poll"))
      BY <1>13 DEF Poll
    <2>3. CloseUnderWay(queue) => CloseUnderWay(queue')
      BY <2>1, <2>2, <1>1, AppendClose
    <2>4. QED
      BY <2>3, <1>13 DEF Poll, Emptied
  <1>14. CASE PollFails
    <2>1. /\ DOMAIN GivenUp = DOMAIN queue
          /\ \A k \in DOMAIN queue : queue[k].op = "set" => GivenUp[k] = queue[k]
      BY DEF GivenUp, IInv, Script, AllAllowed, Allowed
    <2>2. CloseUnderWay(queue) => CloseUnderWay(GivenUp)
      BY <2>1 DEF CloseUnderWay
    <2>3. QED
      BY <2>2, <1>14 DEF PollFails, Emptied
  <1>15. QED
    BY <1>2, <1>3, <1>4, <1>5, <1>6, <1>7, <1>8, <1>9, <1>10, <1>11, <1>12, <1>13, <1>14
       DEF Next

\* A close of the site, by an administrator or by the hour, puts everybody out who was let
\* in while it was open (maintenance.service.ts, app.ts), however joins, reads, toggles,
\* ticks and starts overlap.
THEOREM ClosedSiteEmpty == Spec => []ClosedIsEmpty
  <1>1. Init => Emptied
    BY DEF Init, Emptied
  <1>2. IInv /\ Emptied => ClosedIsEmpty
    <2> SUFFICES ASSUME IInv, Emptied, users.inside, ~proc.cached.open
                 PROVE  users.odd \/ SetIsUnderWay(queue)
      BY DEF ClosedIsEmpty
    <2>1. QED
      BY DEF Emptied, CloseUnderWay, SetIsUnderWay
  <1>3. QED
    BY <1>1, <1>2, StepEmptied, Inductive, PTL DEF Spec

-----------------------------------------------------------------------------
(* The circuit breaker: whatever is in flight while it opens, half opens   *)
(* and closes, its counters fit its state and it opens up in time.         *)

\* A call that waits for its next attempt has one left.
RetriesLeft == \A c \in Calls : pc[c] = "backoff" => attempt[c] < MaxRetries

BreakerInv == BreakerTypeOK /\ RetriesLeft /\ CountersFit

\* The breaker starts closed, with counters at zero.
LEMMA BreakerStarts == BreakerInit => BreakerInv
  BY ConstantsAssumption
  DEF BreakerInit, BreakerInv, BreakerTypeOK, CircuitState, RetriesLeft, CountersFit

\* What a success does to the breaker.
LEMMA OnSuccessFits ==
    ASSUME BreakerTypeOK, CountersFit, OnSuccess
    PROVE  /\ state' \in CircuitState /\ failureCount' = 0 /\ successCount' \in 0..SuccessThreshold
           /\ CountersFit'
<1>1. CASE state # "HALF_OPEN"
  BY <1>1, ConstantsAssumption DEF OnSuccess, BreakerTypeOK, CircuitState, CountersFit
<1>2. CASE state = "HALF_OPEN" /\ successCount + 1 >= SuccessThreshold
  BY <1>2, ConstantsAssumption DEF OnSuccess, BreakerTypeOK, CircuitState, CountersFit
<1>3. CASE state = "HALF_OPEN" /\ ~(successCount + 1 >= SuccessThreshold)
  BY <1>3, ConstantsAssumption DEF OnSuccess, BreakerTypeOK, CircuitState, CountersFit
<1> QED
  BY <1>1, <1>2, <1>3

\* What a failure does to the breaker: a count that reaches the threshold opens it.
LEMMA OnFailureFits ==
    ASSUME BreakerTypeOK, CountersFit, OnFailure
    PROVE  /\ state' \in CircuitState /\ failureCount' \in 0..FailureThreshold
           /\ successCount' \in 0..SuccessThreshold
           /\ wait' \in 0..Timeout /\ sinceFailure' \in 0..(ResetTimeout + 1)
           /\ CountersFit'
<1> USE ConstantsAssumption DEF BreakerTypeOK, CircuitState, CountersFit, OnFailure, Counted
<1>1. CASE state = "HALF_OPEN"
  BY <1>1
<1>2. CASE state # "HALF_OPEN" /\ failureCount + 1 >= FailureThreshold
  BY <1>2
<1>3. CASE state # "HALF_OPEN" /\ ~(failureCount + 1 >= FailureThreshold)
  BY <1>3
<1> QED
  BY <1>1, <1>2, <1>3

\* Every step keeps the invariant.
LEMMA BreakerSteps == BreakerInv /\ [BreakerNext]_allVars => BreakerInv'
<1> SUFFICES ASSUME BreakerTypeOK, RetriesLeft, CountersFit, [BreakerNext]_allVars PROVE BreakerInv'
  BY DEF BreakerInv
<1>1. ASSUME NEW c \in Calls, Execute(c) PROVE BreakerInv'
  BY <1>1, ConstantsAssumption
  DEF BreakerInv, BreakerTypeOK, CircuitState, RetriesLeft, CountersFit, Execute, Goto, serviceVars
<1>2. ASSUME NEW c \in Calls, Succeeds(c) PROVE BreakerInv'
  <2>1. OnSuccess /\ UNCHANGED <<wait, sinceFailure, retry, attempt, healthy, changes>>
        /\ pc' = [pc EXCEPT ![c] = "idle"]
    BY <1>2 DEF Succeeds, OnSuccess, Goto, serviceVars
  <2> QED
    BY <2>1, OnSuccessFits, ConstantsAssumption DEF BreakerInv, BreakerTypeOK, RetriesLeft
<1>3. ASSUME NEW c \in Calls, Fails(c) PROVE BreakerInv'
  <2>1. CASE retry[c] /\ attempt[c] < MaxRetries
    BY <1>3, <2>1 DEF BreakerInv, BreakerTypeOK, RetriesLeft, CountersFit, Fails, Goto,
                      breakerVars, serviceVars
  <2>2. CASE ~(retry[c] /\ attempt[c] < MaxRetries)
    <3>1. OnFailure /\ UNCHANGED <<retry, attempt, healthy, changes>>
          /\ pc' = [pc EXCEPT ![c] = "idle"]
      BY <1>3, <2>2 DEF Fails, Goto, serviceVars
    <3> QED
      BY <3>1, OnFailureFits DEF BreakerInv, BreakerTypeOK, RetriesLeft
  <2> QED
    BY <2>1, <2>2
<1>4. ASSUME NEW c \in Calls, TriesAgain(c) PROVE BreakerInv'
  BY <1>4, ConstantsAssumption
  DEF BreakerInv, BreakerTypeOK, RetriesLeft, CountersFit, TriesAgain, Goto, breakerVars,
      serviceVars
<1>5. CASE Reset
  BY <1>5, ConstantsAssumption
  DEF BreakerInv, BreakerTypeOK, CircuitState, RetriesLeft, CountersFit, Reset, callVars,
      serviceVars
<1>6. CASE TimePasses
  BY <1>6, ConstantsAssumption
  DEF BreakerInv, BreakerTypeOK, RetriesLeft, CountersFit, TimePasses, callVars, serviceVars
<1>7. CASE Changes
  BY <1>7, ConstantsAssumption
  DEF BreakerInv, BreakerTypeOK, RetriesLeft, CountersFit, Changes, breakerVars, callVars
<1>8. CASE UNCHANGED allVars
  BY <1>8
  DEF BreakerInv, BreakerTypeOK, RetriesLeft, CountersFit, allVars, breakerVars, callVars,
      serviceVars
<1> QED
  BY <1>1, <1>2, <1>3, <1>4, <1>5, <1>6, <1>7, <1>8 DEF BreakerNext, Proceeds

\* The invariant holds in every reachable state.
LEMMA BreakerInvHolds == BreakerSpec => []BreakerInv
  BY BreakerStarts, BreakerSteps, PTL DEF BreakerSpec

\* Every reachable state is well typed: counters in range, at most MaxRetries retries.
THEOREM BreakerTypeCorrect == BreakerSpec => []BreakerTypeOK
<1>1. BreakerInv => BreakerTypeOK
  BY DEF BreakerInv
<1> QED
  BY <1>1, BreakerInvHolds, PTL

\* A closed breaker has room for another failure and starts from no successes, whatever
\* calls that were let through earlier report.
THEOREM CountersAlwaysFit == BreakerSpec => []CountersFit
<1>1. BreakerInv => CountersFit
  BY DEF BreakerInv
<1> QED
  BY <1>1, BreakerInvHolds, PTL

\* Only execute() after nextAttempt, or reset(), ends the open state: no call that was
\* let through before it opened does.
THEOREM OpensUpInTime == BreakerSpec => OpenUntilTimeout
<1>1. [BreakerNext]_allVars => [state = "OPEN" /\ state' # "OPEN" => wait = 0 \/ Reset]_allVars
  <2> SUFFICES ASSUME [BreakerNext]_allVars, state = "OPEN", state' # "OPEN" PROVE wait = 0 \/ Reset
    OBVIOUS
  <2>1. ASSUME NEW c \in Calls, Execute(c) PROVE wait = 0
    BY <2>1 DEF Execute, Admits
  <2>2. ASSUME NEW c \in Calls, Succeeds(c) PROVE FALSE
    BY <2>2 DEF Succeeds, OnSuccess
  <2>3. ASSUME NEW c \in Calls, Fails(c) PROVE FALSE
    BY <2>3 DEF Fails, OnFailure, breakerVars
  <2>4. ASSUME NEW c \in Calls, TriesAgain(c) PROVE FALSE
    BY <2>4 DEF TriesAgain, breakerVars
  <2>5. CASE TimePasses
    BY <2>5 DEF TimePasses
  <2>6. CASE Changes
    BY <2>6 DEF Changes, breakerVars
  <2>7. CASE UNCHANGED allVars
    BY <2>7 DEF allVars, breakerVars
  <2> QED
    BY <2>1, <2>2, <2>3, <2>4, <2>5, <2>6, <2>7 DEF BreakerNext, Proceeds
<1> QED
  BY <1>1, PTL DEF BreakerSpec, OpenUntilTimeout
=============================================================================
