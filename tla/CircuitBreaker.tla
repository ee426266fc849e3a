--------------------------- MODULE CircuitBreaker ---------------------------
(***************************************************************************)
(* The CircuitBreaker of error_recovery.rs, shared by all operations of a  *)
(* RetryExecutor.  After some failures in a row it opens and requests are  *)
(* refused; once the last failure is old enough they are let through       *)
(* again, the first success makes it half open and some more close it.     *)
(*                                                                         *)
(* The counters are modelled where the code looks at them: failures while  *)
(* closed, successes while half open.  Each operation holds the lock of    *)
(* the state throughout.                                                   *)
(***************************************************************************)
EXTENDS Integers

CONSTANTS
    FailureThreshold,   \* failure_threshold
    SuccessThreshold    \* success_threshold

ASSUME BreakerAssumption ==
    FailureThreshold \in Nat \ {0} /\ SuccessThreshold \in Nat \ {0}

VARIABLES
    breaker,    \* closed, open or half_open
    failures,   \* failure_count
    successes,  \* success_count
    cooled,     \* timeout has elapsed since the last failure
    streak      \* successes since the last failure, as far as the threshold

breakerVars == <<breaker, failures, successes, cooled, streak>>

BreakerInit ==
    /\ breaker = "closed" /\ failures = 0 /\ successes = 0 /\ cooled = TRUE /\ streak = 0

AllowRequest == breaker = "open" => cooled

\* Mutant: one success too early.
EnoughEarly(n) == n >= SuccessThreshold - 1

\* The success that half opens the breaker counts as the first.
Enough(n) == n >= SuccessThreshold

RecordSuccess ==
    /\ streak' = IF streak < SuccessThreshold THEN streak + 1 ELSE streak
    /\ \/ /\ breaker = "closed"
          /\ failures' = 0
          /\ UNCHANGED <<breaker, successes>>
       \/ /\ breaker = "open" /\ cooled
          /\ breaker' = "half_open" /\ successes' = 1
          /\ UNCHANGED failures
       \/ /\ breaker = "open" /\ ~cooled
          /\ UNCHANGED <<breaker, failures, successes>>
       \/ /\ breaker = "half_open" /\ Enough(successes + 1)
          /\ breaker' = "closed" /\ failures' = 0 /\ successes' = 0
       \/ /\ breaker = "half_open" /\ ~Enough(successes + 1)
          /\ successes' = successes + 1
          /\ UNCHANGED <<breaker, failures>>
    /\ UNCHANGED cooled

RecordFailure ==
    /\ streak' = 0 /\ cooled' = FALSE
    /\ \/ /\ breaker = "closed" /\ failures + 1 < FailureThreshold
          /\ failures' = failures + 1
          /\ UNCHANGED <<breaker, successes>>
       \/ /\ breaker = "half_open" \/ (breaker = "closed" /\ failures + 1 >= FailureThreshold)
          /\ breaker' = "open" /\ successes' = 0
          /\ UNCHANGED failures
       \/ /\ breaker = "open"
          /\ UNCHANGED <<breaker, failures, successes>>

\* Time passes.
CoolDown ==
    /\ ~cooled /\ cooled' = TRUE
    /\ UNCHANGED <<breaker, failures, successes, streak>>

BreakerTypeOK ==
    /\ breaker \in {"closed", "open", "half_open"}
    /\ failures \in 0 .. FailureThreshold
    /\ successes \in 0 .. SuccessThreshold
    /\ cooled \in BOOLEAN
    /\ streak \in 0 .. SuccessThreshold
=============================================================================
