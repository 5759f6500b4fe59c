--------------------------- MODULE CircuitBreaker ---------------------------
(***************************************************************************)
(* internal/circuitbreaker/circuitbreaker.go for ONE network.  Every       *)
(* operation runs under the breaker's lock, hence is one atomic step: the  *)
(* operators below are the steps, and Network says who takes them.         *)
(*                                                                         *)
(* The counters are compared only with their thresholds and the time since *)
(* the last failure only with Timeout, so each stops there.                *)
(***************************************************************************)
EXTENDS Integers

CONSTANTS FailureThreshold, SuccessThreshold, Timeout

\* New replaces what is not positive by a default.
ASSUME ConfigAssumption ==
    /\ FailureThreshold \in Nat \ {0}
    /\ SuccessThreshold \in Nat \ {0}
    /\ Timeout \in Nat \ {0}

VARIABLES
    state,                  \* the stored state, closed or open
    consecutiveFailures,
    consecutiveSuccesses,
    sinceFailure            \* the time since lastFailureTime

breakerVars == <<state, consecutiveFailures, consecutiveSuccesses, sinceFailure>>

UpTo(bound, n) == IF n < bound THEN n ELSE bound

BreakerInit ==
    /\ state = "closed"
    /\ consecutiveFailures = 0
    /\ consecutiveSuccesses = 0
    /\ sinceFailure = Timeout

\* Half-open is never stored: it is an open breaker whose time has passed.
currentState == IF state = "open" /\ sinceFailure = Timeout THEN "half-open" ELSE state

\* Half-open admits every request, not one.
Allow == currentState # "open"

\* Mutant: a success leaves the failures counted so far.
RecordSuccessKeepingFailures ==
    LET successes == UpTo(SuccessThreshold, consecutiveSuccesses + 1)
        closes == currentState = "half-open" /\ successes = SuccessThreshold
    IN  /\ state' = IF closes THEN "closed" ELSE state
        /\ consecutiveSuccesses' = IF closes THEN 0 ELSE successes
        /\ UNCHANGED <<consecutiveFailures, sinceFailure>>

\* Successes are counted in every state, so half-open may start with some.
RecordSuccess ==
    LET successes == UpTo(SuccessThreshold, consecutiveSuccesses + 1)
        closes == currentState = "half-open" /\ successes = SuccessThreshold
    IN  /\ consecutiveFailures' = 0
        /\ state' = IF closes THEN "closed" ELSE state
        /\ consecutiveSuccesses' = IF closes THEN 0 ELSE successes
        /\ UNCHANGED sinceFailure

\* The time of the failure is set before the state is read, so half-open reads
\* as open: it stays open, and its time starts again.
RecordFailure ==
    LET failures == UpTo(FailureThreshold, consecutiveFailures + 1)
    IN  /\ consecutiveFailures' = failures
        /\ consecutiveSuccesses' = 0
        /\ sinceFailure' = 0
        /\ state' = IF failures = FailureThreshold THEN "open" ELSE state

Reset ==
    /\ state' = "closed"
    /\ consecutiveFailures' = 0
    /\ consecutiveSuccesses' = 0
    /\ UNCHANGED sinceFailure

Elapse ==
    /\ sinceFailure < Timeout
    /\ sinceFailure' = sinceFailure + 1
    /\ UNCHANGED <<state, consecutiveFailures, consecutiveSuccesses>>
=============================================================================
