------------------------------ MODULE HttpRetry ------------------------------
(***************************************************************************)
(* One call of AsyncClientWithBackoff (http_client_w_backoff.py): three    *)
(* backoff.on_exception decorators around a request, each with a budget of *)
(* its own that retries only its own exception. From the inside out:       *)
(* NonOkStatusCode, RateLimited, ConnectTimeout. When an outer one         *)
(* retries, it calls the inner ones anew, and their budgets start again.   *)
(*                                                                         *)
(* A 429 with a retry-after header sleeps with time.sleep, which stops the *)
(* whole event loop: the other tasks of the process wake up late.          *)
(*                                                                         *)
(* The backoff library is external: it takes the time that has elapsed     *)
(* before it calls its target, gives up when that reaches max_time, and    *)
(* else sleeps a random while, never longer than what max_time leaves.     *)
(***************************************************************************)
EXTENDS Integers

CONSTANTS
    Levels,         \* the decorators, 1 (inside) .. 3 (outside)
    MaxTime,        \* [Levels -> max_time]
    Timeout,        \* the longest a request takes, with its own retry-after
    MaxBlocks, BlockTime    \* bounds: how often another task blocks the loop,
                            \* and for how long

ASSUME BudgetsAssumption ==
    /\ Levels = 1 .. 3 /\ MaxTime \in [Levels -> Nat] /\ Timeout \in Nat \ {0}
    /\ MaxBlocks \in Nat /\ BlockTime \in Nat

VARIABLES
    now,        \* time since the call began
    pc,         \* "request", "sleep", or how the call ended
    deadline,   \* when the request or the sleep is over, at the latest
    called,     \* [Levels -> when the decorator was called last]
    elapsed,    \* [Levels -> elapsed time before its last call of its target]
    retrying,   \* the decorator that sleeps
    blocked     \* how long other tasks have blocked the loop so far

callVars == <<now, pc, deadline, called, elapsed, retrying, blocked>>

CallInit ==
    /\ now = 0 /\ pc = "request" /\ deadline = Timeout
    /\ called = [l \in Levels |-> 0] /\ elapsed = [l \in Levels |-> 0]
    /\ retrying = 1 /\ blocked = 0

\* The request takes some time, no longer than its timeout.
Tick ==
    /\ pc \in {"request", "sleep"} /\ now < deadline
    /\ now' = now + 1
    /\ UNCHANGED <<pc, deadline, called, elapsed, retrying, blocked>>

\* Another task's time.sleep: nothing of this one happens meanwhile, but its
\* clocks go on. A request under way is answered late.
OtherBlocks ==
    /\ pc \in {"request", "sleep"} /\ blocked < MaxBlocks * BlockTime
    /\ now' = now + BlockTime /\ blocked' = blocked + BlockTime
    /\ deadline' = IF pc = "request" THEN deadline + BlockTime
                   ELSE IF deadline < now + BlockTime THEN now + BlockTime ELSE deadline
    /\ UNCHANGED <<pc, called, elapsed, retrying>>

\* A 200 and a 404 are returned; an exception no decorator names is raised.
Return ==
    /\ pc = "request" /\ now > 0
    /\ \E result \in {"returned", "raised"} : pc' = result
    /\ UNCHANGED <<now, deadline, called, elapsed, retrying, blocked>>

\* An exception of level l passes the decorators inside of it. The one that
\* names it gives up, and those outside do not catch it, or it sleeps.
Sleep_Unbounded(l) ==
    /\ elapsed[l] < MaxTime[l]
    /\ \E wait \in 0 .. MaxTime[l] : deadline' = now + wait
    /\ pc' = "sleep" /\ retrying' = l
Sleep(l) ==
    /\ elapsed[l] < MaxTime[l]
    /\ \E wait \in 0 .. MaxTime[l] - elapsed[l] : deadline' = now + wait
    /\ pc' = "sleep" /\ retrying' = l

GiveUp(l) ==
    /\ elapsed[l] >= MaxTime[l]
    /\ pc' = "raised" /\ UNCHANGED <<deadline, retrying>>

RequestFails(l) ==
    /\ pc = "request" /\ now > 0 /\ now > called[l] + elapsed[l]
    /\ GiveUp(l) \/ Sleep(l)
    /\ UNCHANGED <<now, called, elapsed, blocked>>

\* The decorator that slept calls its target again; the decorators inside of it
\* are called anew.
Retry_InBudget ==
    /\ pc = "sleep" /\ now = deadline /\ now - called[retrying] <= MaxTime[retrying]
    /\ called' = [l \in Levels |-> IF l < retrying THEN now ELSE called[l]]
    /\ elapsed' = [l \in Levels |->
                     IF l < retrying THEN 0
                     ELSE IF l = retrying THEN now - called[l] ELSE elapsed[l]]
    /\ pc' = "request" /\ deadline' = now + Timeout
    /\ UNCHANGED <<now, retrying, blocked>>
Retry ==
    /\ pc = "sleep" /\ now = deadline
    /\ called' = [l \in Levels |-> IF l < retrying THEN now ELSE called[l]]
    /\ elapsed' = [l \in Levels |->
                     IF l < retrying THEN 0
                     ELSE IF l = retrying THEN now - called[l] ELSE elapsed[l]]
    /\ pc' = "request" /\ deadline' = now + Timeout
    /\ UNCHANGED <<now, retrying, blocked>>

CallNext == Tick \/ OtherBlocks \/ Return \/ Retry \/ \E l \in Levels : RequestFails(l)

CallSpec == CallInit /\ [][CallNext]_callVars

\* Time passes, a request is answered or times out, and a sleep ends.
FairCallSpec ==
    /\ CallSpec /\ WF_callVars(Tick) /\ WF_callVars(Retry)
    /\ WF_callVars(Return \/ \E l \in Levels : RequestFails(l))

-----------------------------------------------------------------------------
Over == {"returned", "raised"}

\* The longest a decorator runs when its target takes at most t: the last call
\* but one begins before max_time and the sleep after it ends t later, at most.
Longest(l, t) == MaxTime[l] + 2 * t
TotalBound == Longest(3, Longest(2, Longest(1, Timeout)))

\* However the three exceptions alternate, a call is over after a time the three
\* budgets and the request's timeout bound, plus what other tasks blocked the
\* loop for: the budgets, renewed by the outer decorators, do not multiply.
TimeBounded == now <= TotalBound + blocked

\* Every call returns or raises, even when no request ever succeeds.
Ends == <>(pc \in Over)
=============================================================================
