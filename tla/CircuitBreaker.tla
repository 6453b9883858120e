--------------------------- MODULE CircuitBreaker ---------------------------
(***************************************************************************)
(* RedisClient.executeWithProtection: a circuit breaker (circuitBreaker.ts)*)
(* around an optional retry loop (retryHandler.ts), with several calls in  *)
(* flight.  A call looks at the breaker when it starts and reports to it   *)
(* when its last attempt ends; whatever the breaker does meanwhile is      *)
(* another call's doing.                                                   *)
(*                                                                         *)
(* Time is a timer that counts down to nextAttempt and one that counts up  *)
(* from the last failure; operations and backoff delays take any time.     *)
(* The service is healthy or not, and an attempt ends accordingly.         *)
(*                                                                         *)
(* The prefix Breaker lets ServiceProofs extend this module beside         *)
(* Maintenance.                                                            *)
(***************************************************************************)
EXTENDS Naturals, FiniteSets

CONSTANTS
    Calls,              \* calls that may be in flight together
    FailureThreshold,   \* options.failureThreshold
    SuccessThreshold,   \* options.successThreshold
    Timeout,            \* options.timeout, in ticks
    ResetTimeout,       \* options.resetTimeout, in ticks
    MaxRetries,         \* RetryHandler's maxRetries
    MaxChanges          \* bound: how often the service breaks or heals

ASSUME ConstantsAssumption ==
    /\ FailureThreshold \in Nat \ {0} /\ SuccessThreshold \in Nat \ {0}
    /\ Timeout \in Nat \ {0} /\ ResetTimeout \in Nat
    /\ MaxRetries \in Nat /\ MaxChanges \in Nat

VARIABLES
    state,          \* CircuitState
    failureCount, successCount,
    wait,           \* nextAttempt - now, not below 0
    sinceFailure,   \* now - lastFailureTime, not above ResetTimeout + 1
    pc,             \* per call: "idle", "running", "backoff"
    retry,          \* per call: options.retry
    attempt,        \* per call: attempt of executeWithRetry
    healthy, changes

breakerVars == <<state, failureCount, successCount, wait, sinceFailure>>
callVars == <<pc, retry, attempt>>
serviceVars == <<healthy, changes>>
allVars == <<breakerVars, callVars, serviceVars>>

CircuitState == {"CLOSED", "OPEN", "HALF_OPEN"}

\* The counters stay in their ranges, and no call makes more than MaxRetries retries.
BreakerTypeOK ==
    /\ state \in CircuitState
    /\ failureCount \in 0..FailureThreshold
    /\ successCount \in 0..SuccessThreshold
    /\ wait \in 0..Timeout
    /\ sinceFailure \in 0..(ResetTimeout + 1)
    /\ pc \in [Calls -> {"idle", "running", "backoff"}]
    /\ retry \in [Calls -> BOOLEAN]
    /\ attempt \in [Calls -> 0..MaxRetries]
    /\ healthy \in BOOLEAN
    /\ changes \in 0..MaxChanges

BreakerInit ==
    /\ state = "CLOSED"
    /\ failureCount = 0
    /\ successCount = 0
    /\ wait = 0
    /\ sinceFailure = ResetTimeout + 1
    /\ pc = [c \in Calls |-> "idle"]
    /\ retry = [c \in Calls |-> FALSE]
    /\ attempt = [c \in Calls |-> 0]
    /\ healthy = TRUE
    /\ changes = 0
-----------------------------------------------------------------------------
\* Only the comparison with the threshold matters: the count stops there.
Counted(n) == IF n < FailureThreshold THEN n + 1 ELSE n

Goto(c, p) == pc' = [pc EXCEPT ![c] = p]

\* Mutant of OnSuccess: a success closes the breaker whatever its state.
OnSuccessAnyState ==
    /\ failureCount' = 0
    /\ state' = IF successCount + 1 >= SuccessThreshold THEN "CLOSED" ELSE state
    /\ successCount' = IF successCount + 1 >= SuccessThreshold THEN 0 ELSE successCount + 1
    /\ UNCHANGED <<wait, sinceFailure>>

\* onSuccess, also of a call that started before the breaker opened.
OnSuccess ==
    /\ failureCount' = 0
    /\ IF state # "HALF_OPEN"
       THEN UNCHANGED <<state, successCount>>
       ELSE IF successCount + 1 >= SuccessThreshold
       THEN state' = "CLOSED" /\ successCount' = 0
       ELSE successCount' = successCount + 1 /\ UNCHANGED state
    /\ UNCHANGED <<wait, sinceFailure>>

\* onFailure.  The code compares the time with lastFailureTime after it has overwritten
\* it, so that the count is never reset to 1.  An open breaker waits anew.
OnFailure ==
    /\ failureCount' = Counted(failureCount)
    /\ sinceFailure' = 0
    /\ IF state = "HALF_OPEN" \/ failureCount + 1 >= FailureThreshold
       THEN state' = "OPEN" /\ wait' = Timeout
       ELSE UNCHANGED <<state, wait>>
    /\ successCount' = IF state = "HALF_OPEN" THEN 0 ELSE successCount

\* Mutant of Admits: a half-open breaker admits nobody.
AdmitsClosed == state = "CLOSED" \/ (state = "OPEN" /\ wait = 0)

\* execute() rejects a call while the breaker is open and its time has not come.
Admits == state # "OPEN" \/ wait = 0

\* execute(): the first call after the waiting time makes the breaker half-open; every
\* call is let through from then on.
Execute(c) ==
    /\ pc[c] = "idle"
    /\ Admits
    /\ IF state = "OPEN"
       THEN state' = "HALF_OPEN" /\ successCount' = 0
       ELSE UNCHANGED <<state, successCount>>
    /\ Goto(c, "running")
    /\ \E r \in BOOLEAN : retry' = [retry EXCEPT ![c] = r]
    /\ attempt' = [attempt EXCEPT ![c] = 0]
    /\ UNCHANGED <<failureCount, wait, sinceFailure, serviceVars>>

Succeeds(c) ==
    /\ pc[c] = "running" /\ healthy
    /\ OnSuccess
    /\ Goto(c, "idle")
    /\ UNCHANGED <<retry, attempt, serviceVars>>

\* An attempt fails: it is tried again after a delay, or the call fails.
Fails(c) ==
    /\ pc[c] = "running" /\ ~healthy
    /\ IF retry[c] /\ attempt[c] < MaxRetries
       THEN Goto(c, "backoff") /\ UNCHANGED breakerVars
       ELSE Goto(c, "idle") /\ OnFailure
    /\ UNCHANGED <<retry, attempt, serviceVars>>

\* The delay is over; the loop is inside execute() and does not ask the breaker again.
TriesAgain(c) ==
    /\ pc[c] = "backoff"
    /\ Goto(c, "running")
    /\ attempt' = [attempt EXCEPT ![c] = @ + 1]
    /\ UNCHANGED <<breakerVars, retry, serviceVars>>

\* reset(), an operation for administrators.
Reset ==
    /\ state' = "CLOSED"
    /\ failureCount' = 0
    /\ successCount' = 0
    /\ UNCHANGED <<wait, sinceFailure, callVars, serviceVars>>

TimePasses ==
    /\ wait > 0 \/ sinceFailure <= ResetTimeout
    /\ wait' = IF wait > 0 THEN wait - 1 ELSE 0
    /\ sinceFailure' = IF sinceFailure <= ResetTimeout THEN sinceFailure + 1 ELSE sinceFailure
    /\ UNCHANGED <<state, failureCount, successCount, callVars, serviceVars>>

\* The environment: Redis breaks or heals.
Changes ==
    /\ changes < MaxChanges
    /\ changes' = changes + 1
    /\ healthy' = ~healthy
    /\ UNCHANGED <<breakerVars, callVars>>

Proceeds(c) == Succeeds(c) \/ Fails(c) \/ TriesAgain(c)

BreakerNext ==
    \/ \E c \in Calls : Execute(c) \/ Proceeds(c)
    \/ Reset \/ TimePasses \/ Changes

BreakerSpec == BreakerInit /\ [][BreakerNext]_allVars

\* Time passes, operations end, and handlers keep calling Redis.
BreakerFairness ==
    /\ WF_allVars(TimePasses)
    /\ \A c \in Calls : WF_allVars(Execute(c)) /\ WF_allVars(Proceeds(c))

BreakerFairSpec == BreakerSpec /\ BreakerFairness
-----------------------------------------------------------------------------
\* A closed breaker has room for another failure, and successes are counted in the
\* half-open state only, up to the threshold: whatever late calls report, a breaker
\* that closes starts from zero.
CountersFit ==
    /\ state = "CLOSED" => failureCount < FailureThreshold
    /\ successCount < SuccessThreshold
    /\ successCount > 0 => state = "HALF_OPEN"

\* An open breaker opens up only when its time has come, or by a reset: the late success
\* of a call that was let through before it opened does not close it.
OpenUntilTimeout == [][state = "OPEN" /\ state' # "OPEN" => wait = 0 \/ Reset]_allVars

\* Once Redis is healthy for good, the breaker closes for good.
Recovers == <>[]healthy => <>[](state = "CLOSED")

\* A failure long after the last one counts as the first ("Auto-reset failure count
\* after resetTimeout").
OldFailuresForgotten ==
    [][state = "CLOSED" /\ sinceFailure > ResetTimeout /\ failureCount' > failureCount
          => failureCount' = 1]_allVars
=============================================================================
