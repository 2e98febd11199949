------------------------------ MODULE Resilience ------------------------------
(***************************************************************************)
(* The circuit breakers and retry loops of the orchestrator: with_retry and*)
(* CircuitBreaker of contracts/resilience.py, which the pipeline's nodes   *)
(* share for one dependency, and those of contracts/main.py, which let one *)
(* probe through when half-open.  Callers are tasks of one event loop: a   *)
(* step runs to the next await.  Operators commented "Slip:" are altered   *)
(* forms of the operator that follows and take no part in the              *)
(* specification.                                                          *)
(***************************************************************************)
EXTENDS Integers, FiniteSets

CONSTANTS
  Caller,             \* tasks that may be inside with_retry together
  MaxRetries,         \* max_retries: 2 or 3 in the code
  FailureThreshold,   \* failure_threshold: 5 by default
  MaxOutages,         \* bound: times the dependency goes down
  MaxCancels          \* bound: tasks cancelled at an await

ASSUME ResilienceAssumption ==
  /\ IsFiniteSet(Caller) /\ Caller # {}
  /\ MaxRetries \in Nat \ {0} /\ FailureThreshold \in Nat \ {0}
  /\ MaxOutages \in Nat /\ MaxCancels \in Nat

VARIABLES
  build,       \* "pipeline": contracts/resilience.py, or "service": contracts/main.py
  state, failures,
  cooled,      \* the recovery timeout since the last failure recorded is over
  stage,       \* of each task: outside, about to call, or back with an outcome
  attempt,
  up,          \* whether the dependency answers now
  outages, cancels,
  probe,       \* history: the last task that made the breaker half-open
  abandoned,   \* history: that task was cancelled and the breaker is half-open still
  load         \* history: calls that reached the dependency since the breaker opened

breaker == <<state, failures, cooled>>
history == <<probe, abandoned, load>>
vars == <<build, breaker, stage, attempt, up, outages, cancels, history>>

Init ==
  /\ build \in {"pipeline", "service"}
  /\ state = "closed" /\ failures = 0 /\ cooled = FALSE
  /\ stage = [c \in Caller |-> "outside"] /\ attempt = [c \in Caller |-> 1]
  /\ up = TRUE /\ outages = 0 /\ cancels = 0
  /\ probe = {} /\ abandoned = FALSE /\ load = 0

-----------------------------------------------------------------------------
(* The dependency and the clock *)

GoesDown ==
  /\ up /\ outages < MaxOutages
  /\ up' = FALSE /\ outages' = outages + 1
  /\ UNCHANGED <<build, breaker, stage, attempt, cancels, history>>

ComesUp ==
  /\ ~up /\ up' = TRUE
  /\ UNCHANGED <<build, breaker, stage, attempt, outages, cancels, history>>

Cool ==
  /\ state = "open" /\ ~cooled /\ cooled' = TRUE
  /\ UNCHANGED <<build, state, failures, stage, attempt, up, outages, cancels, history>>

-----------------------------------------------------------------------------
(* The breaker *)

\* Half-open, the pipeline's breaker lets everyone through and the service's nobody.
Allows ==
  \/ state = "closed"
  \/ state = "open" /\ cooled
  \/ state = "half-open" /\ build = "pipeline"

\* Slip: the count is reset and the state is not.
RecordSuccessCountOnly ==
  failures' = 0 /\ UNCHANGED <<state, cooled, history>>

RecordSuccess ==
  /\ failures' = 0 /\ state' = "closed" /\ cooled' = FALSE
  /\ abandoned' = FALSE /\ load' = 0 /\ UNCHANGED probe

\* Slip: more failures than the threshold are counted, and half-open they change nothing.
RecordFailureLenient ==
  /\ failures' = failures + 1
  /\ state' = IF failures' = FailureThreshold THEN "open" ELSE state
  /\ UNCHANGED <<cooled, history>>

\* The count matters up to the threshold only; half-open it is at the threshold already.
RecordFailure ==
  /\ failures' = IF failures < FailureThreshold THEN failures + 1 ELSE FailureThreshold
  /\ state' = IF failures' = FailureThreshold \/ (build = "pipeline" /\ state = "half-open")
              THEN "open" ELSE state
  /\ cooled' = FALSE
  /\ load' = IF state = "open" THEN load ELSE 0
  /\ abandoned' = FALSE /\ UNCHANGED probe

-----------------------------------------------------------------------------
(* with_retry *)

MoveTo(c, s) == stage' = [stage EXCEPT ![c] = s]

\* Slip: the breaker is not asked.
EnterUnasked(c) ==
  /\ stage[c] = "outside"
  /\ MoveTo(c, "calling") /\ attempt' = [attempt EXCEPT ![c] = 1]
  /\ UNCHANGED <<build, breaker, up, outages, cancels, history>>

\* The breaker is asked once, before the first attempt; a task it refuses raises at once.
Enter(c) ==
  /\ stage[c] = "outside" /\ Allows
  /\ MoveTo(c, "calling") /\ attempt' = [attempt EXCEPT ![c] = 1]
  /\ IF state = "open"
     THEN state' = "half-open" /\ probe' = {c} /\ load' = 0 /\ abandoned' = FALSE
     ELSE UNCHANGED <<state, history>>
  /\ cooled' = FALSE
  /\ UNCHANGED <<build, failures, up, outages, cancels>>

\* The call reaches the dependency; its outcome arrives later.
Call(c) ==
  /\ stage[c] = "calling"
  /\ MoveTo(c, IF up THEN "answered" ELSE "raised")
  /\ load' = IF state = "open" THEN load + 1 ELSE load
  /\ UNCHANGED <<build, breaker, attempt, up, outages, cancels, probe, abandoned>>

Succeed(c) ==
  /\ stage[c] = "answered"
  /\ RecordSuccess /\ MoveTo(c, "outside")
  /\ UNCHANGED <<build, attempt, up, outages, cancels>>

\* The loop goes on after the backoff, whatever the breaker says by then.
Fail(c) ==
  /\ stage[c] = "raised"
  /\ RecordFailure
  /\ IF attempt[c] < MaxRetries
     THEN MoveTo(c, "calling") /\ attempt' = [attempt EXCEPT ![c] = attempt[c] + 1]
     ELSE MoveTo(c, "outside") /\ UNCHANGED attempt
  /\ UNCHANGED <<build, up, outages, cancels>>

\* A cancellation is no Exception: nothing is recorded.
Cancel(c) ==
  /\ stage[c] # "outside" /\ cancels < MaxCancels
  /\ cancels' = cancels + 1
  /\ MoveTo(c, "outside")
  /\ abandoned' = (abandoned \/ (state = "half-open" /\ c \in probe))
  /\ UNCHANGED <<build, breaker, attempt, up, outages, probe, load>>

Next ==
  \/ GoesDown \/ ComesUp \/ Cool
  \/ \E c \in Caller : Enter(c) \/ Call(c) \/ Succeed(c) \/ Fail(c) \/ Cancel(c)

\* Time passes, tasks go on, and someone calls now and then.
Fairness ==
  /\ WF_vars(Cool)
  /\ \A c \in Caller : WF_vars(Enter(c)) /\ WF_vars(Call(c) \/ Succeed(c) \/ Fail(c))

Spec == Init /\ [][Next]_vars /\ Fairness

-----------------------------------------------------------------------------
(* Properties *)

TypeOK ==
  /\ build \in {"pipeline", "service"}
  /\ state \in {"closed", "open", "half-open"} /\ failures \in 0 .. FailureThreshold
  /\ state = "closed" <=> failures < FailureThreshold
  /\ cooled \in BOOLEAN /\ (cooled => state = "open")
  /\ stage \in [Caller -> {"outside", "calling", "answered", "raised"}]
  /\ attempt \in [Caller -> 1 .. MaxRetries]
  /\ up \in BOOLEAN /\ outages \in 0 .. MaxOutages /\ cancels \in 0 .. MaxCancels
  /\ probe \subseteq Caller /\ abandoned \in BOOLEAN /\ load \in Nat

(* While the breaker is open only the loops entered before go on: the dependency sees at*)
(* most the attempts these have left, and the failure that opened the breaker is none.  *)
OpenLoadBounded == load <= MaxRetries * Cardinality(Caller) - 1

(* Half-open, the task that made the breaker so is still on its way and its outcome will*)
(* move the breaker, unless that task was cancelled.                                    *)
HalfOpenHasProbe ==
  state = "half-open" => abandoned \/ \E c \in probe : stage[c] # "outside"

(* Once the dependency stays up the breaker closes and stays closed, in the pipeline    *)
(* whatever was cancelled, in the service unless a cancelled probe left it half-open.   *)
RecoversWhenUp ==
  <>[]up => <>[](state = "closed" \/ (build = "service" /\ state = "half-open" /\ abandoned))
=============================================================================
