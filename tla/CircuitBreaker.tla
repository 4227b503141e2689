--------------------------- MODULE CircuitBreaker ---------------------------
(***************************************************************************)
(* The circuit breaker in front of the 3x-ui panel (circuit_breaker.py)    *)
(* under overlapping calls: coroutines enter call_async, await the panel   *)
(* and report back in any order, long after the breaker changed its state. *)
(* opened_at is kept as the time still to wait, 0 once it has elapsed.     *)
(* Which calls fail is left open here: PanelClient makes them.  Only the    *)
(* tests read current_state or force a state.                              *)
(***************************************************************************)
EXTENDS Naturals

CONSTANTS
    Calls,              \* coroutines that call the panel, again and again
    FailMax,            \* consecutive failures that open the breaker
    ResetTimeout,       \* time units an open breaker waits
    SuccessThreshold    \* successes in half_open that close it

ASSUME BreakerConstants ==
    /\ FailMax \in Nat \ {0}
    /\ ResetTimeout \in Nat
    /\ SuccessThreshold \in Nat \ {0}

VARIABLES
    state, failures, successes, wait,
    running,            \* calls awaiting the panel
    streak,             \* history: calls failed since the last success
    sinceOpen           \* history: time since the breaker last opened

breaker == <<state, failures, successes, wait>>
history == <<streak, sinceOpen>>
vars == <<breaker, running, history>>

States == {"closed", "open", "half_open"}

TypeOK ==
    /\ state \in States
    /\ failures \in 0..FailMax /\ successes \in 0 .. SuccessThreshold - 1
    /\ wait \in 0..ResetTimeout
    /\ running \subseteq Calls
    /\ streak \in 0..FailMax /\ sinceOpen \in 0..ResetTimeout

Init ==
    /\ state = "closed" /\ failures = 0 /\ successes = 0 /\ wait = 0
    /\ running = {}
    /\ streak = 0 /\ sinceOpen = ResetTimeout

\* Mutant: counted without end.
More_Unbounded(n) == n + 1

\* Failures are counted up to FailMax: beyond it no comparison can tell.
More(n) == IF n < FailMax THEN n + 1 ELSE n

Opened == wait' = ResetTimeout /\ sinceOpen' = 0

-----------------------------------------------------------------------------
\* Mutant: the timeout is not looked at.
Elapsed_Always == state = "open"

\* The open breaker has waited for reset_timeout.
Elapsed == state = "open" /\ wait = 0

\* _maybe_recover_from_open, then a call that is short-circuited or let in.
Call(c) ==
    /\ c \notin running
    /\ IF Elapsed THEN state' = "half_open" /\ successes' = 0
       ELSE UNCHANGED <<state, successes>>
    /\ running' = IF state' = "open" THEN running ELSE running \cup {c}
    /\ UNCHANGED <<failures, wait, streak, sinceOpen>>

\* Mutant: a success does not close the half-open breaker.
OnSuccess_NeverCloses ==
    /\ failures' = 0
    /\ UNCHANGED <<state, successes, wait, sinceOpen>>

OnSuccess ==
    /\ failures' = 0
    /\ IF state = "half_open"
       THEN IF successes + 1 >= SuccessThreshold
            THEN state' = "closed" /\ successes' = 0
            ELSE successes' = successes + 1 /\ UNCHANGED state
       ELSE UNCHANGED <<state, successes>>
    /\ UNCHANGED <<wait, sinceOpen>>

\* Mutant: failures are counted, but one more than allowed is needed.
OnFailure_OffByOne ==
    /\ failures' = More(failures) /\ successes' = 0
    /\ IF failures >= FailMax THEN state' = "open" /\ Opened
       ELSE UNCHANGED <<state, wait, sinceOpen>>

OnFailure ==
    /\ successes' = 0
    /\ IF state = "half_open"
       THEN state' = "open" /\ Opened /\ UNCHANGED failures
       ELSE /\ failures' = More(failures)
            /\ IF failures + 1 >= FailMax
               THEN state' = "open" /\ Opened
               ELSE UNCHANGED <<state, wait, sinceOpen>>

Leave(c) == running' = running \ {c}

Succeed(c) ==
    /\ c \in running
    /\ OnSuccess
    /\ streak' = 0
    /\ Leave(c)

\* An exception of any kind, a timeout or a cancellation too.
Fail(c) ==
    /\ c \in running
    /\ OnFailure
    /\ streak' = More(streak)
    /\ Leave(c)

-----------------------------------------------------------------------------
Tick ==
    /\ wait' = IF wait = 0 THEN 0 ELSE wait - 1
    /\ sinceOpen' = IF sinceOpen = ResetTimeout THEN sinceOpen ELSE sinceOpen + 1
    /\ UNCHANGED <<state, failures, successes, running, streak>>

Next ==
    \/ \E c \in Calls : Call(c) \/ Succeed(c) \/ Fail(c)
    \/ Tick

Spec == Init /\ [][Next]_vars
-----------------------------------------------------------------------------
\* A closed breaker has seen fewer than fail_max failures in a row, whatever
\* stragglers of an earlier open or half-open period reported meanwhile.
ClosedBelowLimit == state = "closed" => failures < FailMax

\* The breaker only trips when the last fail_max calls that ended, in
\* whichever order they had been started, failed without a success between.
TripsOnlyOnStreak ==
    [][state = "closed" /\ state' = "open" => streak' >= FailMax]_vars

\* After the breaker opened, or a straggler failed while it was open, no call
\* reaches the panel before reset_timeout has passed.
RestsWhenOpen ==
    [][running' \subseteq running \/ state = "closed" \/ sinceOpen = ResetTimeout]_vars

\* circuit_breaker.py, module docstring: "half_open - at most one call is
\* allowed".  The call that makes the breaker half-open is the first.
OneProbe == [][state = "half_open" => running' \subseteq running]_vars
=============================================================================
