--------------------------- MODULE CircuitBreaker ---------------------------
(***************************************************************************)
(* CircuitBreakerService keeps one circuit per key in memory.  Its methods *)
(* are synchronous, so each is an operator from a circuit to the circuit   *)
(* it leaves behind; the modules whose components share a breaker apply    *)
(* them inside their own actions.                                          *)
(*                                                                         *)
(* The code stores the times of failures and of the opening and compares   *)
(* them with Date.now().  Here the ages of those times are kept: a failure *)
(* older than the window is never counted again, and an opening older than *)
(* the reset timeout is as good as any other, so both ages are capped.     *)
(***************************************************************************)
EXTENDS Integers, Functions

CONSTANTS FailureThreshold,   \* failures in the window that open a circuit
          SuccessThreshold,   \* successes in a row that close it again
          ResetTimeout,       \* cooldown of an open circuit, in clock ticks
          FailureWindow       \* how long a failure counts, in clock ticks

ASSUME BreakerAssumption ==
    /\ FailureThreshold \in Nat \ {0}
    /\ SuccessThreshold \in Nat \ {0}
    /\ ResetTimeout \in Nat \ {0}
    /\ FailureWindow \in Nat \ {0}

CircuitState == {"CLOSED", "OPEN", "HALF_OPEN"}

FailureAges == 0 .. FailureWindow - 1

\* failures[a] is the number of recorded failures of age a.
CircuitData ==
    [state: CircuitState,
     failures: [FailureAges -> Nat],
     consecutiveSuccesses: Nat,
     openedAge: 0 .. ResetTimeout]

NoFailures == [a \in FailureAges |-> 0]

\* openedAt = null is read as 0, so a cooldown counted from it is over.
NewCircuit ==
    [state |-> "CLOSED", failures |-> NoFailures,
     consecutiveSuccesses |-> 0, openedAge |-> ResetTimeout]

-----------------------------------------------------------------------------
\* checkCircuit throws exactly when the circuit is open and still cooling down.
Blocks(c) == c.state = "OPEN" /\ c.openedAge < ResetTimeout

\* Mutant: looking at a circuit leaves it as it is.
CheckCircuitOnly(c) == c

\* What checkCircuit, isOpen and getState leave behind: an open circuit whose
\* cooldown has elapsed is tried again, whoever asks.
CheckCircuit(c) ==
    IF c.state = "OPEN" /\ ~Blocks(c)
    THEN [c EXCEPT !.state = "HALF_OPEN", !.consecutiveSuccesses = 0]
    ELSE c

RecordSuccess(c) ==
    IF c.state # "HALF_OPEN" THEN c
    ELSE IF c.consecutiveSuccesses + 1 >= SuccessThreshold
         THEN NewCircuit
         ELSE [c EXCEPT !.consecutiveSuccesses = @ + 1]

FailureCount(c) == FoldFunction(LAMBDA n, m: n + m, 0, c.failures)

\* Mutant: a failure while half-open is only counted.
RecordFailureLeniently(c) ==
    LET counted == [c EXCEPT !.failures[0] = @ + 1]
    IN  IF FailureCount(counted) < FailureThreshold
        THEN counted
        ELSE [state |-> "OPEN", failures |-> NoFailures,
              consecutiveSuccesses |-> 0, openedAge |-> 0]

\* A failure opens a half-open circuit at once, and restarts the cooldown of an
\* open one.  Failures are counted while the circuit is closed only, and closing
\* it forgets them all: those of a circuit that is not closed are left out.
RecordFailure(c) ==
    LET counted == [c EXCEPT !.failures[0] = @ + 1]
    IN  IF c.state = "CLOSED" /\ FailureCount(counted) < FailureThreshold
        THEN counted
        ELSE [state |-> "OPEN", failures |-> NoFailures,
              consecutiveSuccesses |-> 0, openedAge |-> 0]

\* One tick of the clock, as far as this circuit can tell.
Age(c) ==
    [c EXCEPT !.failures = [a \in FailureAges |-> IF a = 0 THEN 0 ELSE c.failures[a - 1]],
              !.openedAge = IF @ < ResetTimeout THEN @ + 1 ELSE @]
=============================================================================
