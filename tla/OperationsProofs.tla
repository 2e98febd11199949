--------------------------- MODULE OperationsProofs ---------------------------
(***************************************************************************)
(* Theorems about what keeps the orchestrator running, for any number of   *)
(* tasks, attempts and failures: its circuit breakers and retry loops, and *)
(* the rehearsal of the recovery of its database.  The two share nothing.  *)
(***************************************************************************)
EXTENDS Resilience, RecoveryDrill, FiniteSetTheorems, TLAPS

-----------------------------------------------------------------------------
(* The breakers *)

Attempts == Caller \X (1 .. MaxRetries)

\* Attempts that the loops entered before may still make, with nobody let in.
Left ==
  {p \in Attempts : \/ stage[p[1]] = "calling" /\ p[2] >= attempt[p[1]]
                    \/ stage[p[1]] = "raised" /\ p[2] > attempt[p[1]]}

\* What the load rests on: each call uses up one attempt, and the failure that opened the
\* breaker used up one without being counted.
LoadInv ==
  /\ state # "open" => load = 0
  /\ state = "open" => load + Cardinality(Left) <= Cardinality(Attempts) - 1

BreakerInv == TypeOK /\ HalfOpenHasProbe /\ LoadInv

LEMMA AttemptsFinite ==
  /\ MaxRetries \in Nat /\ MaxRetries >= 1 /\ IsFiniteSet(Caller)
  /\ IsFiniteSet(Attempts) /\ Cardinality(Attempts) \in Nat
  /\ Cardinality(Attempts) = Cardinality(Caller) * MaxRetries
<1>1. MaxRetries \in Nat /\ MaxRetries >= 1 /\ IsFiniteSet(Caller)
  BY ResilienceAssumption DEF ResilienceAssumption
<1>2. IsFiniteSet(1 .. MaxRetries) /\ Cardinality(1 .. MaxRetries) = MaxRetries
  BY <1>1, FS_Interval
<1>3. IsFiniteSet(Attempts) /\ Cardinality(Attempts) = Cardinality(Caller) * MaxRetries
  BY <1>1, <1>2, FS_Product DEF Attempts
<1>. QED
  BY <1>1, <1>3, FS_CardinalityType

(* Less of what is left is a smaller number of attempts.                                *)
LEMMA LeftShrinks ==
  ASSUME NEW old \in SUBSET Attempts, NEW new \in SUBSET old
  PROVE  /\ Cardinality(old) \in Nat /\ Cardinality(new) \in Nat
         /\ Cardinality(new) <= Cardinality(old)
         /\ \A p \in old : p \notin new => Cardinality(new) <= Cardinality(old) - 1
<1>1. IsFiniteSet(old) /\ IsFiniteSet(new)
  BY AttemptsFinite, FS_Subset
<1>2. Cardinality(old) \in Nat /\ Cardinality(new) \in Nat /\ Cardinality(new) <= Cardinality(old)
  BY <1>1, FS_Subset, FS_CardinalityType
<1>3. ASSUME NEW p \in old, p \notin new PROVE Cardinality(new) <= Cardinality(old) - 1
  <2>1. IsFiniteSet(old \ {p}) /\ Cardinality(old \ {p}) = Cardinality(old) - 1
    BY <1>1, <1>3, FS_RemoveElement
  <2>2. new \in SUBSET (old \ {p})
    BY <1>3
  <2>. QED
    BY <2>1, <2>2, FS_Subset
<1>. QED
  BY <1>2, <1>3

(* The types, with the attempts as numbers.                                             *)
LEMMA AttemptRange ==
  ASSUME TypeOK, NEW c \in Caller
  PROVE  /\ attempt[c] \in Nat /\ attempt[c] >= 1 /\ attempt[c] <= MaxRetries
         /\ <<c, attempt[c]>> \in Attempts /\ <<c, 1>> \in Attempts
<1>1. attempt[c] \in 1 .. MaxRetries
  BY DEF TypeOK
<1>. QED
  BY <1>1, AttemptsFinite DEF Attempts

LEMMA BreakerInit == Init => BreakerInv
<1>. SUFFICES ASSUME Init PROVE BreakerInv
  OBVIOUS
<1>1. TypeOK
  <2>1. /\ FailureThreshold \in Nat /\ 0 < FailureThreshold /\ MaxOutages \in Nat /\ MaxCancels \in Nat
        /\ 1 \in 1 .. MaxRetries
    BY ResilienceAssumption DEF ResilienceAssumption
  <2>2. /\ build \in {"pipeline", "service"} /\ state = "closed" /\ failures = 0 /\ cooled = FALSE
        /\ stage = [c \in Caller |-> "outside"] /\ attempt = [c \in Caller |-> 1]
        /\ up = TRUE /\ outages = 0 /\ cancels = 0 /\ probe = {} /\ abandoned = FALSE /\ load = 0
    BY DEF Init
  <2>3. /\ stage \in [Caller -> {"outside", "calling", "answered", "raised"}]
        /\ attempt \in [Caller -> 1 .. MaxRetries]
    BY <2>1, <2>2
  <2>4. /\ failures \in 0 .. FailureThreshold /\ (state = "closed" <=> failures < FailureThreshold)
        /\ outages \in 0 .. MaxOutages /\ cancels \in 0 .. MaxCancels
    BY <2>1, <2>2
  <2>5. cooled \in BOOLEAN /\ (cooled => state = "open") /\ up \in BOOLEAN /\ abandoned \in BOOLEAN
    BY <2>2
  <2>. QED
    BY <2>2, <2>3, <2>4, <2>5 DEF TypeOK
<1>2. HalfOpenHasProbe /\ LoadInv
  BY DEF Init, HalfOpenHasProbe, LoadInv
<1>. QED
  BY <1>1, <1>2 DEF BreakerInv

(* The dependency and the clock.                                                        *)
LEMMA WorldKeeps ==
  ASSUME BreakerInv, GoesDown \/ ComesUp \/ Cool \/ UNCHANGED vars
  PROVE  BreakerInv'
<1>1. UNCHANGED <<build, state, failures, stage, attempt, cancels, probe, abandoned, load>>
  BY DEF GoesDown, ComesUp, Cool, vars, breaker, history
<1>2. /\ up' \in BOOLEAN /\ outages' \in 0 .. MaxOutages
      /\ cooled' \in BOOLEAN /\ (cooled' => state' = "open")
  <2>1. CASE GoesDown
    <3>1. outages < MaxOutages /\ outages' = outages + 1 /\ up' = FALSE /\ UNCHANGED <<state, cooled>>
      BY <2>1 DEF GoesDown, breaker
    <3>2. outages' \in 0 .. MaxOutages
      BY <3>1, ResilienceAssumption DEF BreakerInv, TypeOK, ResilienceAssumption
    <3>3. up' \in BOOLEAN
      BY <3>1
    <3>. QED
      BY <3>1, <3>2, <3>3 DEF BreakerInv, TypeOK
  <2>2. CASE ComesUp
    BY <2>2 DEF ComesUp, BreakerInv, TypeOK, breaker
  <2>3. CASE Cool
    BY <2>3 DEF Cool, BreakerInv, TypeOK
  <2>4. CASE UNCHANGED vars
    BY <2>4 DEF vars, breaker, BreakerInv, TypeOK
  <2>. QED
    BY <2>1, <2>2, <2>3, <2>4
<1>3. TypeOK'
  BY <1>1, <1>2 DEF BreakerInv, TypeOK
<1>4. HalfOpenHasProbe' /\ LoadInv'
  BY <1>1 DEF BreakerInv, HalfOpenHasProbe, LoadInv, Left
<1>. QED
  BY <1>3, <1>4 DEF BreakerInv

(* A task is let in while the breaker is not open, or as its probe.                     *)
LEMMA EnterKeeps == ASSUME BreakerInv, NEW c \in Caller, Enter(c) PROVE BreakerInv'
<1>1. /\ stage' = [stage EXCEPT ![c] = "calling"] /\ attempt' = [attempt EXCEPT ![c] = 1]
      /\ cooled' = FALSE /\ UNCHANGED <<build, failures, up, outages, cancels>>
      /\ \/ /\ state = "open" /\ state' = "half-open" /\ probe' = {c}
            /\ load' = 0 /\ abandoned' = FALSE
         \/ state # "open" /\ UNCHANGED <<state, probe, abandoned, load>>
  BY DEF Enter, MoveTo, history
<1>2. stage' \in [Caller -> {"outside", "calling", "answered", "raised"}]
      /\ attempt' \in [Caller -> 1 .. MaxRetries]
  BY <1>1, AttemptsFinite DEF BreakerInv, TypeOK
<1>3. TypeOK'
  <2>1. state' \in {"closed", "open", "half-open"} /\ (state' = "closed" <=> state = "closed")
    BY <1>1 DEF BreakerInv, TypeOK
  <2>2. cooled' \in BOOLEAN /\ (cooled' => state' = "open") /\ UNCHANGED <<build, failures, up, outages, cancels>>
    BY <1>1
  <2>3. probe' \subseteq Caller /\ load' \in Nat
    BY <1>1 DEF BreakerInv, TypeOK
  <2>4. abandoned' \in BOOLEAN
    BY <1>1 DEF BreakerInv, TypeOK
  <2>. QED
    BY <1>2, <2>1, <2>2, <2>3, <2>4 DEF BreakerInv, TypeOK
<1>4. HalfOpenHasProbe'
  BY <1>1, <1>2 DEF BreakerInv, TypeOK, HalfOpenHasProbe
<1>5. LoadInv'
  BY <1>1 DEF BreakerInv, LoadInv
<1>. QED
  BY <1>3, <1>4, <1>5 DEF BreakerInv

(* A call while the breaker is open uses up an attempt.                                 *)
LEMMA CallKeeps == ASSUME BreakerInv, NEW c \in Caller, Call(c) PROVE BreakerInv'
<1>1. /\ stage[c] = "calling" /\ stage' = [stage EXCEPT ![c] = IF up THEN "answered" ELSE "raised"]
      /\ load' = IF state = "open" THEN load + 1 ELSE load
      /\ UNCHANGED <<build, state, failures, cooled, attempt, up, outages, cancels, probe, abandoned>>
  BY DEF Call, MoveTo, breaker
<1>2. /\ stage' \in [Caller -> {"outside", "calling", "answered", "raised"}]
      /\ stage'[c] \in {"answered", "raised"} /\ \A d \in Caller : d # c => stage'[d] = stage[d]
  BY <1>1 DEF BreakerInv, TypeOK
<1>3. load \in Nat /\ load' \in Nat
  BY <1>1 DEF BreakerInv, TypeOK
<1>4. TypeOK'
  BY <1>1, <1>2, <1>3 DEF BreakerInv, TypeOK
<1>5. HalfOpenHasProbe'
  BY <1>1, <1>2 DEF BreakerInv, TypeOK, HalfOpenHasProbe
<1>6. ASSUME state = "open" PROVE Cardinality(Left') <= Cardinality(Left) - 1
                                  /\ Cardinality(Left) \in Nat /\ Cardinality(Left') \in Nat
  <2>1. TypeOK
    BY DEF BreakerInv
  <2>2. <<c, attempt[c]>> \in Attempts /\ attempt[c] \in Nat
    BY <2>1, AttemptRange
  <2>3. <<c, attempt[c]>> \in Left
    BY <1>1, <2>2 DEF Left
  <2>4. <<c, attempt[c]>> \notin Left'
    BY <1>1, <1>2, <2>2 DEF Left
  <2>5. \A p \in Attempts : p[1] \in Caller /\ p[2] \in Nat
    BY AttemptsFinite DEF Attempts
  <2>6. Left' \subseteq Left
    BY <1>1, <1>2, <2>2, <2>5 DEF Left
  <2>7. Left \in SUBSET Attempts
    BY DEF Left
  <2>. QED
    BY <2>3, <2>4, <2>6, <2>7, LeftShrinks
<1>7. LoadInv'
  BY <1>1, <1>3, <1>6, AttemptsFinite DEF BreakerInv, LoadInv
<1>. QED
  BY <1>4, <1>5, <1>7 DEF BreakerInv

(* An answer closes the breaker.                                                        *)
LEMMA SucceedKeeps == ASSUME BreakerInv, NEW c \in Caller, Succeed(c) PROVE BreakerInv'
<1>1. /\ stage' = [stage EXCEPT ![c] = "outside"]
      /\ failures' = 0 /\ state' = "closed" /\ cooled' = FALSE /\ abandoned' = FALSE /\ load' = 0
      /\ UNCHANGED <<build, attempt, up, outages, cancels, probe>>
  BY DEF Succeed, RecordSuccess, MoveTo
<1>2. FailureThreshold \in Nat /\ 0 < FailureThreshold
  BY ResilienceAssumption DEF ResilienceAssumption
<1>3. TypeOK'
  <2>1. /\ stage' \in [Caller -> {"outside", "calling", "answered", "raised"}]
        /\ failures' \in 0 .. FailureThreshold
    BY <1>1, <1>2 DEF BreakerInv, TypeOK
  <2>2. /\ cooled' \in BOOLEAN /\ (cooled' => state' = "open") /\ abandoned' \in BOOLEAN
        /\ load' \in Nat /\ state' \in {"closed", "open", "half-open"}
        /\ (state' = "closed" <=> failures' < FailureThreshold)
    BY <1>1, <1>2
  <2>3. UNCHANGED <<build, attempt, up, outages, cancels, probe>>
    BY <1>1
  <2>. QED
    BY <2>1, <2>2, <2>3 DEF BreakerInv, TypeOK
<1>. QED
  BY <1>1, <1>3 DEF BreakerInv, HalfOpenHasProbe, LoadInv

(* A failure opens the breaker, or leaves it as it is; the attempt it ends is no longer *)
(* among those left.                                                                    *)
LEMMA FailKeeps == ASSUME BreakerInv, NEW c \in Caller, Fail(c) PROVE BreakerInv'
<1>1. /\ stage[c] = "raised"
      /\ failures' = IF failures < FailureThreshold THEN failures + 1 ELSE FailureThreshold
      /\ state' = IF failures' = FailureThreshold \/ (build = "pipeline" /\ state = "half-open")
                  THEN "open" ELSE state
      /\ cooled' = FALSE /\ abandoned' = FALSE
      /\ load' = IF state = "open" THEN load ELSE 0
      /\ UNCHANGED <<build, up, outages, cancels, probe>>
  BY DEF Fail, RecordFailure
<1>2. \/ /\ attempt[c] < MaxRetries
         /\ stage' = [stage EXCEPT ![c] = "calling"]
         /\ attempt' = [attempt EXCEPT ![c] = attempt[c] + 1]
      \/ /\ ~(attempt[c] < MaxRetries)
         /\ stage' = [stage EXCEPT ![c] = "outside"] /\ UNCHANGED attempt
  BY DEF Fail, MoveTo
<1>3. TypeOK /\ stage \in [Caller -> {"outside", "calling", "answered", "raised"}]
      /\ attempt \in [Caller -> 1 .. MaxRetries]
  BY DEF BreakerInv, TypeOK
<1>4. /\ FailureThreshold \in Nat /\ FailureThreshold >= 1
      /\ failures \in Nat /\ failures <= FailureThreshold /\ load \in Nat
      /\ state = "closed" <=> failures < FailureThreshold
      /\ state \in {"closed", "open", "half-open"}
  BY <1>3, ResilienceAssumption DEF TypeOK, ResilienceAssumption
<1>5. /\ attempt[c] \in Nat /\ attempt[c] >= 1 /\ attempt[c] <= MaxRetries /\ MaxRetries \in Nat
      /\ <<c, 1>> \in Attempts
  BY <1>3, AttemptRange, AttemptsFinite
<1>6. /\ stage' \in [Caller -> {"outside", "calling", "answered", "raised"}]
      /\ \A d \in Caller : d # c => stage'[d] = stage[d] /\ attempt'[d] = attempt[d]
      /\ \/ stage'[c] = "outside"
         \/ stage'[c] = "calling" /\ attempt'[c] = attempt[c] + 1
  BY <1>2, <1>3
<1>7. attempt' \in [Caller -> 1 .. MaxRetries]
  <2>1. attempt[c] < MaxRetries => attempt[c] + 1 \in 1 .. MaxRetries
    BY <1>5
  <2>. QED
    BY <1>2, <1>3, <2>1
<1>8. /\ failures' \in 0 .. FailureThreshold
      /\ state' \in {"closed", "open", "half-open"}
      /\ state' = "closed" <=> failures' < FailureThreshold
      /\ state' # "half-open" /\ (state' # "open" => state # "open")
      /\ (state = "open" => state' = "open")
  BY <1>1, <1>4
<1>9. TypeOK'
  BY <1>1, <1>3, <1>4, <1>6, <1>7, <1>8 DEF TypeOK
<1>10. \A p \in Attempts : p[1] \in Caller /\ p[2] \in Nat /\ p[2] >= 1
  BY <1>5 DEF Attempts
<1>11. Left' \subseteq Left /\ <<c, 1>> \notin Left' /\ Left \in SUBSET Attempts
  <2>1. ASSUME NEW p \in Left' PROVE p \in Left
    <3>1. p \in Attempts /\ p[1] \in Caller /\ p[2] \in Nat
      BY <1>10 DEF Left
    <3>2. CASE p[1] = c
      BY <1>1, <1>5, <1>6, <2>1, <3>1, <3>2 DEF Left
    <3>3. CASE p[1] # c
      BY <1>6, <2>1, <3>1, <3>3 DEF Left
    <3>. QED
      BY <3>2, <3>3
  <2>2. <<c, 1>> \notin Left'
    BY <1>5, <1>6 DEF Left
  <2>. QED
    BY <2>1, <2>2 DEF Left
<1>12. /\ Cardinality(Left) \in Nat /\ Cardinality(Left') \in Nat
       /\ Cardinality(Left') <= Cardinality(Left)
  BY <1>11, LeftShrinks
<1>13. Cardinality(Left') <= Cardinality(Attempts) - 1
  BY <1>5, <1>11, LeftShrinks
<1>14. LoadInv'
  BY <1>1, <1>4, <1>8, <1>12, <1>13, AttemptsFinite DEF BreakerInv, LoadInv
<1>. QED
  BY <1>8, <1>9, <1>14 DEF BreakerInv, HalfOpenHasProbe

(* A cancelled task has nothing left to do.                                             *)
LEMMA CancelKeeps == ASSUME BreakerInv, NEW c \in Caller, Cancel(c) PROVE BreakerInv'
<1>1. /\ cancels < MaxCancels /\ cancels' = cancels + 1
      /\ stage' = [stage EXCEPT ![c] = "outside"]
      /\ abandoned' = (abandoned \/ (state = "half-open" /\ c \in probe))
      /\ UNCHANGED <<build, state, failures, cooled, attempt, up, outages, probe, load>>
  BY Zenon DEF Cancel, MoveTo, breaker
<1>2. /\ stage' \in [Caller -> {"outside", "calling", "answered", "raised"}]
      /\ stage'[c] = "outside" /\ \A d \in Caller : d # c => stage'[d] = stage[d]
  BY <1>1 DEF BreakerInv, TypeOK
<1>3. cancels' \in 0 .. MaxCancels
  BY <1>1, ResilienceAssumption DEF BreakerInv, TypeOK, ResilienceAssumption
<1>4. abandoned' \in BOOLEAN
  BY <1>1, Zenon
<1>5. TypeOK'
  <2>1. UNCHANGED <<build, state, failures, cooled, attempt, up, outages, probe, load>>
    BY <1>1
  <2>. QED
    BY <1>2, <1>3, <1>4, <2>1 DEF BreakerInv, TypeOK
<1>6. HalfOpenHasProbe'
  <2>. SUFFICES ASSUME state' = "half-open", ~abandoned' PROVE \E d \in probe' : stage'[d] # "outside"
    BY DEF HalfOpenHasProbe
  <2>1. state = "half-open" /\ ~abandoned /\ c \notin probe
    BY <1>1, Zenon
  <2>2. PICK d \in probe : stage[d] # "outside"
    BY <2>1 DEF BreakerInv, HalfOpenHasProbe
  <2>3. d \in Caller /\ d # c
    BY <2>1, <2>2 DEF BreakerInv, TypeOK
  <2>4. probe' = probe
    BY <1>1
  <2>. QED
    BY <1>2, <2>2, <2>3, <2>4
<1>7. Left' \subseteq Left /\ Left \in SUBSET Attempts
  <2>1. \A p \in Attempts : p[1] \in Caller
    BY DEF Attempts
  <2>2. attempt' = attempt
    BY <1>1
  <2>. QED
    BY <1>2, <2>1, <2>2 DEF Left
<1>8. LoadInv'
  <2>1. Cardinality(Left) \in Nat /\ Cardinality(Left') \in Nat
        /\ Cardinality(Left') <= Cardinality(Left)
    BY <1>7, LeftShrinks
  <2>2. UNCHANGED <<state, load>> /\ load \in Nat
    BY <1>1 DEF BreakerInv, TypeOK
  <2>. QED
    BY <2>1, <2>2, AttemptsFinite DEF BreakerInv, LoadInv
<1>. QED
  BY <1>5, <1>6, <1>8 DEF BreakerInv

LEMMA BreakerInvAlways == Spec => []BreakerInv
<1>1. BreakerInv /\ [Next]_vars => BreakerInv'
  BY WorldKeeps, EnterKeeps, CallKeeps, SucceedKeeps, FailKeeps, CancelKeeps DEF Next
<1>. QED
  BY BreakerInit, <1>1, PTL DEF Spec

(* The breaker, its callers and the dependency keep their types; among them, the        *)
(* breaker is closed exactly while its failures are below the threshold.                *)
THEOREM BreakerTypes == Spec => []TypeOK
<1>1. BreakerInv => TypeOK
  BY DEF BreakerInv
<1>. QED
  BY <1>1, BreakerInvAlways, PTL

(* While the breaker is open the dependency sees fewer calls than all the tasks'        *)
(* attempts together, however many loops were under way when it opened.                 *)
THEOREM OpenLoad == Spec => []OpenLoadBounded
<1>1. BreakerInv => OpenLoadBounded
  <2>. SUFFICES ASSUME BreakerInv PROVE OpenLoadBounded
    OBVIOUS
  <2>. DEFINE N == Cardinality(Attempts)
  <2>1. N \in Nat /\ N = Cardinality(Caller) * MaxRetries /\ Cardinality(Caller) \in Nat
        /\ MaxRetries \in Nat
    BY AttemptsFinite, FS_CardinalityType
  <2>2. N = MaxRetries * Cardinality(Caller)
    BY <2>1
  <2>3. N >= 1
    <3>1. PICK c : c \in Caller
      BY ResilienceAssumption DEF ResilienceAssumption
    <3>2. <<c, 1>> \in Attempts
      BY <3>1, AttemptsFinite DEF Attempts
    <3>. QED
      BY <2>1, <3>2, AttemptsFinite, FS_EmptySet
  <2>4. load \in Nat /\ Cardinality(Left) \in Nat
    <3>1. Left \in SUBSET Attempts
      BY DEF Left
    <3>. QED
      BY <3>1, LeftShrinks DEF BreakerInv, TypeOK
  <2>5. load <= N - 1
    BY <2>1, <2>3, <2>4 DEF BreakerInv, LoadInv
  <2>. QED
    BY <2>2, <2>5 DEF OpenLoadBounded
<1>. QED
  BY <1>1, BreakerInvAlways, PTL

(* A breaker that is half-open has its probe on the way, unless it was cancelled.       *)
THEOREM ProbeUnderWay == Spec => []HalfOpenHasProbe
<1>1. BreakerInv => HalfOpenHasProbe
  BY DEF BreakerInv
<1>. QED
  BY <1>1, BreakerInvAlways, PTL

(* Half-open in the service with every task outside: Allows answers no to all of them.  *)
Refusing == build = "service" /\ state = "half-open" /\ \A c \in Caller : stage[c] = "outside"

(* The exception RecoversWhenUp makes for the service is needed and only a cancellation *)
(* leads there: such a breaker lost its probe to one, and it stays so for good, the     *)
(* dependency up or not, as no task can get in to record what would move it.            *)
THEOREM AbandonedForGood == Spec => [](Refusing => abandoned) /\ [][Refusing => Refusing']_vars
<1>1. BreakerInv => (Refusing => abandoned)
  BY DEF BreakerInv, TypeOK, HalfOpenHasProbe, Refusing
<1>2. ASSUME [Next]_vars, Refusing PROVE Refusing'
  <2>. USE <1>2 DEF Refusing
  <2>1. CASE GoesDown \/ ComesUp \/ Cool \/ UNCHANGED vars
    BY <2>1 DEF GoesDown, ComesUp, Cool, vars, breaker
  <2>2. ASSUME NEW c \in Caller PROVE ~Enter(c)
    BY DEF Enter, Allows
  <2>3. ASSUME NEW c \in Caller PROVE ~(Call(c) \/ Succeed(c) \/ Fail(c) \/ Cancel(c))
    BY DEF Call, Succeed, Fail, Cancel
  <2>. QED
    BY <2>1, <2>2, <2>3 DEF Next
<1>3. [Next]_vars => [Refusing => Refusing']_vars
  BY <1>2
<1>. QED
  BY <1>1, <1>3, BreakerInvAlways, PTL DEF Spec

-----------------------------------------------------------------------------
(* The rehearsal: the argument follows one gate.  It passes only when the test agent    *)
(* has been deleted, nothing inserts it again later in the script, and the verdict      *)
(* needs every gate.                                                                    *)

WriteGate == "Write/read/delete works on restored DB"

\* The steps before the gate of the test agent can pass.
BeforeGate ==
  {"validate", "baseline", "backup", "restore", "content", "chain", "monitor", "spawned",
   "watch", "insert", "delete"}

\* The agent is gone once its gate has passed.
GateMeansDeleted ==
  WriteGate \in passed => ~testAgent /\ step \notin BeforeGate /\ (step = "stop" => leaving)

\* Only a script that ran to its end has a verdict, and PASS needs all the gates.
VerdictAtEnd ==
  /\ verdict # "none" => step = "gone" /\ ~leaving
  /\ verdict = "PASS" => Gates \subseteq passed
  /\ leaving => step \in {"cleanup", "drop", "stop", "gone", "killed"}
  /\ unwinds # "none" => leaving /\ step \in {"cleanup", "drop", "killed"}

\* A monitor the script has not lost is one it is about to end.
MonitorInHand ==
  /\ monitor => \/ step \in {"spawned", "watch", "stop", "killed"}
                 \/ unwinds = "monitor" \/ lost # "no"
  /\ lost \in {"unbound", "cut"} => leaving

DrillInv == DrillTypeOK /\ GateMeansDeleted /\ VerdictAtEnd /\ MonitorInHand

LEMMA DrillInvInit == DrillInit => DrillInv
BY DEF DrillInit, DrillInv, DrillTypeOK, GateMeansDeleted, VerdictAtEnd, MonitorInHand, Running,
       Body

\* The order of the sections that only report.
Follows(from, to) ==
  \/ from = "validate" /\ to \in {"baseline", "cleanup"}
  \/ from = "backup" /\ to = "restore"
  \/ from = "content" /\ to = "chain"
  \/ from = "chain" /\ to \in {"monitor", "cleanup"}
  \/ from = "spawned" /\ to = "watch"
  \/ from = "watch" /\ to = "stop"
  \/ from = "api" /\ to = "measure"
  \/ from = "measure" /\ to = "production"
  \/ from = "production" /\ to = "cleanup"

\* A section that only reports, and not the gate of the test agent, keeps the invariant.
LEMMA ReportKeeps ==
  ASSUME DrillInv, Follows(step, step'),
         errors' \in BOOLEAN, passed' \subseteq Gates, WriteGate \in passed' => WriteGate \in passed,
         UNCHANGED <<outcome, unwinds, world, baseline>>
  PROVE  DrillInv'
<1>1. UNCHANGED <<leaving, unwinds, said, saved, verdict, schema, testAgent, others, monitor, lost,
                  baseline>>
  BY DEF outcome, world, process
<1>2. DrillTypeOK /\ GateMeansDeleted /\ VerdictAtEnd /\ MonitorInHand
  BY DEF DrillInv
<1>3. step' \in Running /\ step' \notin {"gone", "insert"}
  BY DEF Follows, Running, Body
<1>4. verdict = "none" /\ ~leaving /\ unwinds = "none"
  BY <1>2 DEF Follows, VerdictAtEnd
<1>5. DrillTypeOK'
  BY <1>1, <1>2, <1>3 DEF DrillTypeOK
<1>6. GateMeansDeleted'
  BY <1>1, <1>2 DEF GateMeansDeleted, Follows, BeforeGate
<1>7. VerdictAtEnd'
  BY <1>1, <1>4 DEF VerdictAtEnd
<1>8. MonitorInHand'
  BY <1>1, <1>2, <1>4 DEF MonitorInHand, Follows
<1> QED  BY <1>5, <1>6, <1>7, <1>8 DEF DrillInv

\* What the sections that only report do.
LEMMA ReportingStep ==
  ASSUME DrillInv,
         Validate \/ Backup \/ Content \/ Chain \/ MonitorBound \/ Watch \/ Api \/ Measure
           \/ Production
  PROVE  DrillInv'
<1>a. errors \in BOOLEAN /\ passed \subseteq Gates  BY DEF DrillInv, DrillTypeOK
<1>1. CASE Validate
  <2>1. Follows(step, step') /\ UNCHANGED <<outcome, unwinds, world, baseline>>
    BY <1>1 DEF Validate, Go, Follows
  <2>2. errors' \in BOOLEAN /\ passed' \subseteq Gates
    BY <1>1, <1>a DEF Validate, Reports, Fails, Checks, Gates
  <2>3. WriteGate \in passed' => WriteGate \in passed
    BY <1>1 DEF Validate, Reports, Fails, Checks, WriteGate
  <2> QED  BY <2>1, <2>2, <2>3, ReportKeeps
<1>2. CASE Backup
  <2>1. Follows(step, step') /\ UNCHANGED <<outcome, unwinds, world, baseline>>
    BY <1>2 DEF Backup, Go, Follows
  <2>2. errors' \in BOOLEAN /\ passed' \subseteq Gates
    BY <1>2, <1>a DEF Backup, Reports, Fails, Checks, Gates
  <2>3. WriteGate \in passed' => WriteGate \in passed
    BY <1>2 DEF Backup, Reports, Fails, Checks, WriteGate
  <2> QED  BY <2>1, <2>2, <2>3, ReportKeeps
<1>3. CASE Content
  <2>1. Follows(step, step') /\ UNCHANGED <<outcome, unwinds, world, baseline>>
    BY <1>3 DEF Content, Go, Follows
  <2>2. errors' \in BOOLEAN /\ passed' \subseteq Gates
    BY <1>3, <1>a DEF Content, Reports, Fails, Checks, Gates
  <2>3. WriteGate \in passed' => WriteGate \in passed
    BY <1>3 DEF Content, Reports, Fails, Checks, WriteGate
  <2> QED  BY <2>1, <2>2, <2>3, ReportKeeps
<1>4. CASE Chain
  <2>1. Follows(step, step') /\ UNCHANGED <<outcome, unwinds, world, baseline>>
    BY <1>4 DEF Chain, Go, Follows
  <2>2. errors' \in BOOLEAN /\ passed' \subseteq Gates
    BY <1>4, <1>a DEF Chain, Reports, Fails, Checks, Gates
  <2>3. passed' \subseteq
            passed \cup {"Correct blockchain network", "Blockchain consistency check"}
    BY <1>4 DEF Chain, Reports, Fails, Checks
  <2>4. WriteGate \in passed' => WriteGate \in passed
    BY <2>3 DEF WriteGate
  <2> QED  BY <2>1, <2>2, <2>4, ReportKeeps
<1>5. CASE MonitorBound
  <2>1. Follows(step, step') /\ UNCHANGED <<outcome, unwinds, world, baseline>>
    BY <1>5 DEF MonitorBound, Go, Follows
  <2>2. errors' \in BOOLEAN /\ passed' \subseteq Gates
    BY <1>5, <1>a DEF MonitorBound, Reports, Fails, Checks, Gates
  <2>3. WriteGate \in passed' => WriteGate \in passed
    BY <1>5 DEF MonitorBound, Reports, Fails, Checks, WriteGate
  <2> QED  BY <2>1, <2>2, <2>3, ReportKeeps
<1>6. CASE Watch
  <2>1. Follows(step, step') /\ UNCHANGED <<outcome, unwinds, world, baseline>>
    BY <1>6 DEF Watch, Go, Follows
  <2>2. errors' \in BOOLEAN /\ passed' \subseteq Gates
    BY <1>6, <1>a DEF Watch, Reports, Fails, Checks, Gates
  <2>3. WriteGate \in passed' => WriteGate \in passed
    BY <1>6 DEF Watch, Reports, Fails, Checks, WriteGate
  <2> QED  BY <2>1, <2>2, <2>3, ReportKeeps
<1>7. CASE Api
  <2>1. Follows(step, step') /\ UNCHANGED <<outcome, unwinds, world, baseline>>
    BY <1>7 DEF Api, Go, Follows
  <2>2. errors' \in BOOLEAN /\ passed' \subseteq Gates
    BY <1>7, <1>a DEF Api, Reports, Fails, Checks, Gates
  <2>3. passed' \subseteq
            passed \cup {"API restore profile activated", "API state matches restored DB"}
    BY <1>7 DEF Api, Reports, Fails, Checks
  <2>4. WriteGate \in passed' => WriteGate \in passed
    BY <2>3 DEF WriteGate
  <2> QED  BY <2>1, <2>2, <2>4, ReportKeeps
<1>8. CASE Measure
  <2>1. Follows(step, step') /\ UNCHANGED <<outcome, unwinds, world, baseline>>
    BY <1>8 DEF Measure, Go, Follows
  <2>2. errors' \in BOOLEAN /\ passed' \subseteq Gates
    BY <1>8, <1>a DEF Measure, Reports, Fails, Checks, Gates
  <2>3. WriteGate \in passed' => WriteGate \in passed
    BY <1>8 DEF Measure, Reports, Fails, Checks, WriteGate
  <2> QED  BY <2>1, <2>2, <2>3, ReportKeeps
<1>9. CASE Production
  <2>1. Follows(step, step') /\ UNCHANGED <<outcome, unwinds, world, baseline>>
    BY <1>9 DEF Production, Go, Follows
  <2>2. errors' \in BOOLEAN /\ passed' \subseteq Gates
    BY <1>9, <1>a DEF Production, Reports, Fails, Checks, Gates
  <2>3. passed' \subseteq passed \cup {"Production DB unchanged"}
    BY <1>9 DEF Production, Reports, Fails
  <2>4. WriteGate \in passed' => WriteGate \in passed
    BY <2>3 DEF WriteGate
  <2> QED  BY <2>1, <2>2, <2>4, ReportKeeps
<1> QED  BY <1>1, <1>2, <1>3, <1>4, <1>5, <1>6, <1>7, <1>8, <1>9

\* Section 11: the monitor is started and ended.
LEMMA MonitorStep ==
  ASSUME DrillInv, MonitorStart \/ MonitorStop
  PROVE  DrillInv'
<1> USE DEF DrillInv, DrillTypeOK, GateMeansDeleted, VerdictAtEnd, MonitorInHand, Running, Body,
            Go, Reports, Fails, Checks, outcome, process, world, report, Gates, WriteGate, BeforeGate
<1>1. CASE MonitorStart
  <2>a. /\ step = "monitor" /\ passed' = passed /\ step' \in {"spawned", "watch", "insert"}
        /\ UNCHANGED <<leaving, said, saved, verdict, unwinds, schema, testAgent, others, lost,
                       baseline>>
    BY <1>1 DEF MonitorStart
  <2>b. errors' \in BOOLEAN /\ monitor' \in BOOLEAN
    BY <1>1 DEF MonitorStart
  <2>c. step' = "spawned" \/ monitor' = monitor
    BY <1>1, Zenon DEF MonitorStart
  <2>1. /\ step = "monitor" /\ passed' = passed /\ errors' \in BOOLEAN /\ monitor' \in BOOLEAN
        /\ step' \in {"spawned", "watch", "insert"}
        /\ monitor' => step' = "spawned" \/ monitor
        /\ UNCHANGED <<leaving, said, saved, verdict, unwinds, schema, testAgent, others, lost,
                       baseline>>
    BY <2>a, <2>b, <2>c
  <2>2. WriteGate \notin passed /\ verdict = "none" /\ ~leaving /\ unwinds = "none"
    BY <2>1
  <2>3. DrillTypeOK' /\ GateMeansDeleted' /\ VerdictAtEnd'  BY <2>1, <2>2
  <2>4. MonitorInHand'  BY <2>1, <2>2
  <2> QED  BY <2>3, <2>4
<1>2. CASE MonitorStop
  <2>1. /\ step = "stop" /\ passed' = passed /\ errors' \in BOOLEAN
        /\ step' = IF leaving THEN "cleanup" ELSE "insert"
        /\ UNCHANGED <<leaving, said, saved, verdict, unwinds, schema, testAgent, others, baseline>>
    BY <1>2 DEF MonitorStop
  <2>2. (monitor' = FALSE /\ lost' = lost) \/ (monitor' = monitor /\ lost' = "stuck")
    BY <1>2, Zenon DEF MonitorStop
  <2>3. DrillTypeOK' /\ GateMeansDeleted' /\ VerdictAtEnd'  BY <2>1, <2>2
  <2>4. MonitorInHand'  BY <2>1, <2>2
  <2> QED  BY <2>3, <2>4
<1> QED  BY <1>1, <1>2

\* Sections that change the database as well.
LEMMA ActingStep ==
  ASSUME DrillInv, Baseline \/ Restore \/ Insert \/ Delete
  PROVE  DrillInv'
<1> USE DEF DrillInv, DrillTypeOK, GateMeansDeleted, VerdictAtEnd, MonitorInHand, Running, Body,
            Go, Reports, Fails, Checks, outcome, process, world, report, Gates, WriteGate, BeforeGate
<1>1. CASE Baseline  BY <1>1 DEF Baseline
<1>2. CASE Restore  BY <1>2 DEF Restore
<1>3. CASE Insert
  <2>1. passed' = passed /\ errors' \in BOOLEAN /\ testAgent' \in BOOLEAN
    BY <1>3 DEF Insert
  <2>2. WriteGate \notin passed' /\ verdict = "none" /\ unwinds = "none" /\ ~leaving
    BY <1>3, <2>1 DEF Insert
  <2>3. step' \in {"delete", "api", "cleanup"}
    BY <1>3 DEF Insert
  <2>4. /\ step = "insert"
        /\ UNCHANGED <<outcome, unwinds, schema, others, baseline, process>>
    BY <1>3 DEF Insert
  <2> QED  BY <2>1, <2>2, <2>3, <2>4
<1>4. CASE Delete
  <2>1. /\ step = "delete" /\ step' = "api"
        /\ UNCHANGED <<outcome, unwinds, schema, others, baseline, process>>
    BY <1>4 DEF Delete
  <2>2. errors' \in BOOLEAN /\ passed' \subseteq Gates /\ testAgent' \in BOOLEAN
    BY <1>4 DEF Delete
  <2>3. WriteGate \in passed' => ~testAgent'
    BY <1>4 DEF Delete
  <2> QED  BY <2>1, <2>2, <2>3
<1> QED  BY <1>1, <1>2, <1>3, <1>4

\* The way out, interruptions, and the users of production.
LEMMA LeavingStep ==
  ASSUME DrillInv,
         Raises \/ Cleanup \/ Drop \/ Save \/ Judge \/ Interrupt \/ Kill \/ OthersChange
           \/ MonitorExits
  PROVE  DrillInv'
<1> USE DEF DrillInv, DrillTypeOK, GateMeansDeleted, VerdictAtEnd, MonitorInHand, Running, Body,
            Go, outcome, process, world, report, BeforeGate
<1>1. CASE Raises  BY <1>1 DEF Raises
<1>2. CASE Cleanup  BY <1>2 DEF Cleanup
<1>3. CASE Drop
  <2>1. /\ step = "drop" /\ unwinds' = "none" /\ schema' \in BOOLEAN
        /\ UNCHANGED <<passed, errors, leaving, said, saved, verdict, testAgent, others, monitor,
                       lost, baseline>>
    BY <1>3 DEF Drop
  <2>2. /\ step' \in {"stop", "cleanup", "gone", "report"}
        /\ step' = "report" => ~leaving
        /\ (unwinds = "monitor") = (step' = "stop")
        /\ step' \in {"stop", "cleanup"} => unwinds # "none"
    BY <1>3 DEF Drop
  <2>3. DrillTypeOK' /\ GateMeansDeleted' /\ VerdictAtEnd'  BY <2>1, <2>2
  <2>4. MonitorInHand'  BY <2>1, <2>2
  <2> QED  BY <2>3, <2>4
<1>4. CASE Save  BY <1>4 DEF Save
<1>5. CASE Judge
  <2>1. errors' \in BOOLEAN
    BY <1>5, Zenon DEF Judge
  <2>2. /\ step = "judge" /\ step' = "gone" /\ ~leaving
        /\ UNCHANGED <<passed, leaving, unwinds, said, saved, schema, testAgent, others, monitor,
                       lost, baseline>>
    BY <1>5 DEF Judge
  <2>3. CASE errors'
    <3>1. verdict' = "FAIL"  BY <1>5, <2>3 DEF Judge
    <3> QED  BY <2>1, <2>2, <3>1
  <2>4. CASE ~errors'
    <3>1. verdict' = "PASS"  BY <1>5, <2>4 DEF Judge
    <3>2. errors' = (errors \/ ~(Gates \subseteq passed))  BY <1>5, Zenon DEF Judge
    <3>3. Gates \subseteq passed  BY <2>4, <3>2, Zenon
    <3> QED  BY <2>1, <2>2, <3>1, <3>3
  <2> QED  BY <2>3, <2>4
<1>6. CASE Interrupt
  <2>1. /\ step \in Running /\ step' = "cleanup" /\ leaving' = TRUE
        /\ UNCHANGED <<passed, errors, said, saved, verdict, schema, testAgent, others, baseline>>
    BY <1>6 DEF Interrupt
  <2>2. /\ unwinds' \in {"none", "monitor", "rehearsal", "out"}
        /\ step = "watch" \/ unwinds = "monitor" => unwinds' = "monitor"
    BY <1>6 DEF Interrupt, Unwinding
  <2>3. monitor' \in BOOLEAN /\ lost' \in {"no", "unbound", "cut", "stuck"}
    BY <1>6 DEF Interrupt
  <2>4. monitor' => unwinds' = "monitor" \/ lost' # "no"
    BY <1>6, <2>1, <2>2 DEF Interrupt
  <2>5. verdict = "none"  BY <2>1
  <2>6. DrillTypeOK' /\ GateMeansDeleted' /\ VerdictAtEnd'  BY <2>1, <2>2, <2>3, <2>5
  <2>7. MonitorInHand'  BY <2>1, <2>4
  <2> QED  BY <2>6, <2>7
<1>7. CASE Kill  BY <1>7 DEF Kill
<1>8. CASE OthersChange
  <2>1. others' \in BOOLEAN  BY <1>8, Zenon DEF OthersChange
  <2>2. UNCHANGED <<step, report, outcome, unwinds, schema, testAgent, process, baseline>>
    BY <1>8, Zenon DEF OthersChange
  <2>3. DrillTypeOK'  BY <2>1, <2>2
  <2>4. GateMeansDeleted' /\ VerdictAtEnd' /\ MonitorInHand'  BY <2>2
  <2> QED  BY <2>3, <2>4, Zenon DEF DrillInv
<1>9. CASE MonitorExits
  <2>1. ~monitor' /\ monitor' \in BOOLEAN
    BY <1>9, Zenon DEF MonitorExits
  <2>2. UNCHANGED <<step, report, outcome, unwinds, schema, testAgent, others, lost, baseline>>
    BY <1>9, Zenon DEF MonitorExits
  <2>3. DrillTypeOK'  BY <2>1, <2>2
  <2>4. GateMeansDeleted' /\ VerdictAtEnd'  BY <2>2
  <2>5. MonitorInHand'  BY <2>1, <2>2
  <2> QED  BY <2>3, <2>4, <2>5, Zenon DEF DrillInv
<1> QED  BY <1>1, <1>2, <1>3, <1>4, <1>5, <1>6, <1>7, <1>8, <1>9

LEMMA DrillStutterStep ==
  ASSUME DrillInv, UNCHANGED drillVars
  PROVE  DrillInv'
<1>1. UNCHANGED <<step, passed, errors, leaving, unwinds, said, saved, verdict>>
  BY DEF drillVars, outcome, report
<1>2. UNCHANGED <<schema, testAgent, others, monitor, lost, baseline>>
  BY DEF drillVars, process, world
<1>3. DrillTypeOK'  BY <1>1, <1>2 DEF DrillInv, DrillTypeOK
<1>4. GateMeansDeleted' /\ VerdictAtEnd' /\ MonitorInHand'
  BY <1>1, <1>2 DEF DrillInv, GateMeansDeleted, VerdictAtEnd, MonitorInHand
<1> QED  BY <1>3, <1>4, Zenon DEF DrillInv

LEMMA DrillInvAlways == DrillSpec => []DrillInv
<1>1. DrillInv /\ [DrillNext]_drillVars => DrillInv'
  BY ReportingStep, MonitorStep, ActingStep, LeavingStep, DrillStutterStep DEF DrillNext
<1> QED  BY DrillInvInit, <1>1, PTL DEF DrillSpec

(* The variables of the rehearsal keep their types.                                     *)
THEOREM DrillTypeCorrect == DrillSpec => []DrillTypeOK
<1>1. DrillInv => DrillTypeOK  BY DEF DrillInv
<1> QED  BY DrillInvAlways, <1>1, PTL

(* A rehearsal that announces PASS was not interrupted, passed all its gates, deleted   *)
(* the agent it had committed to production and ended its monitor, unless no signal     *)
(* reached it, whatever failed on the way and whatever the users of production did.     *)
THEOREM DrillPassIsClean == DrillSpec => []PassIsClean
<1>1. DrillInv => PassIsClean
  <2> SUFFICES ASSUME DrillInv, verdict = "PASS"
               PROVE  /\ Gates \subseteq passed /\ ~leaving /\ ~testAgent
                      /\ monitor => lost = "stuck"
    BY DEF PassIsClean
  <2>1. Gates \subseteq passed /\ ~leaving /\ step = "gone"  BY DEF DrillInv, VerdictAtEnd
  <2>2. WriteGate \in Gates  BY DEF WriteGate, Gates
  <2>3. ~testAgent  BY <2>1, <2>2 DEF DrillInv, GateMeansDeleted
  <2>4. monitor => lost = "stuck"
    BY <2>1 DEF DrillInv, DrillTypeOK, VerdictAtEnd, MonitorInHand
  <2> QED  BY <2>1, <2>3, <2>4
<1> QED  BY DrillInvAlways, <1>1, PTL

(* A monitor that outlives a script nobody killed was started by one interrupted before *)
(* it had a name for it or while it ended it, or no signal reached it: an interruption  *)
(* of any other section, and of the clean-up of an earlier one, ends the monitor.       *)
THEOREM DrillMonitorEnds == DrillSpec => []MonitorEndsWithScript
<1>1. DrillInv => MonitorEndsWithScript
  BY DEF DrillInv, DrillTypeOK, VerdictAtEnd, MonitorInHand, MonitorEndsWithScript
<1> QED  BY DrillInvAlways, <1>1, PTL

-----------------------------------------------------------------------------
(* What does hold of the sentence the runs refute *)

Quiet == ~errors /\ ~leaving

\* The script is past its sections: the sentence is being printed or has been.
WayOut == {"cleanup", "drop", "report", "judge", "gone", "killed"}

\* While nothing has gone wrong the baseline describes production, except where the test
\* agent is about to be deleted, and that one was not there before.
QuietMeansRestored ==
  Quiet => /\ step \in {"validate", "baseline"} => baseline = {}
           /\ step \in {"backup", "restore", "content", "chain", "monitor", "spawned",
                      "watch", "stop", "insert"} =>
                baseline = {testAgent}
           /\ step = "delete" => baseline = {FALSE}
           /\ step \in {"api", "measure", "production", "cleanup", "drop", "report", "judge"} =>
                baseline = {FALSE} /\ ~testAgent

SentenceOnWayOut == said \/ saved = "PASS" => step \in WayOut \/ (leaving /\ step = "stop")

(* How much of the sentence does hold: it is true whenever the rehearsal had no error   *)
(* and was not interrupted, and whenever the report on file says PASS, also when the    *)
(* gates found missing afterwards turn the verdict into FAIL.                           *)
SentenceHolds == (said /\ Quiet) \/ saved = "PASS" => baseline = {FALSE} /\ ~testAgent

SentenceInv == QuietMeansRestored /\ SentenceOnWayOut /\ SentenceHolds

(* A step after which all is still quiet restores what it changed; the sentence, once   *)
(* printed, and the report, once saved, see no more change of production.               *)
LEMMA SentenceKept ==
  ASSUME SentenceInv, DrillInv, DrillInv', DrillNext
  PROVE  SentenceInv'
<1>. USE DEF SentenceInv, QuietMeansRestored, SentenceOnWayOut, SentenceHolds, Quiet, WayOut,
             Go, Reports, Fails, outcome, process, world, report
<1>0. DrillTypeOK /\ DrillTypeOK'
  BY DEF DrillInv
<1>c. ASSUME NEW gates, Checks(gates) PROVE errors => errors'
  BY <1>0, <1>c DEF Checks, DrillTypeOK
<1>1. CASE Validate  BY <1>0, <1>1 DEF Validate
<1>2. CASE Baseline  BY <1>0, <1>2 DEF Baseline
<1>3. CASE Backup  BY <1>0, <1>c, <1>3 DEF Backup
<1>4. CASE Restore  BY <1>0, <1>4 DEF Restore
<1>5. CASE Content  BY <1>0, <1>5 DEF Content
<1>6. CASE Chain  BY <1>0, <1>c, <1>6 DEF Chain
<1>7. CASE MonitorStart  BY <1>0, <1>7 DEF MonitorStart
<1>22. CASE MonitorBound  BY <1>0, <1>22 DEF MonitorBound
<1>23. CASE Watch  BY <1>0, <1>c, <1>23 DEF Watch
<1>8. CASE MonitorStop
  <2>1. /\ step = "stop" /\ step' = IF leaving THEN "cleanup" ELSE "insert"
        /\ UNCHANGED <<leaving, said, saved, testAgent, baseline>>
    BY <1>8 DEF MonitorStop
  <2>2. errors => errors'  BY <1>0, <1>8 DEF MonitorStop, DrillTypeOK
  <2> QED  BY <1>0, <2>1, <2>2
<1>9. CASE Insert
  <2>1. CASE Quiet' /\ step' = "delete"
    <3>1. ~testAgent /\ testAgent' /\ baseline = {testAgent} /\ UNCHANGED <<baseline, said, saved>>
      BY <1>0, <1>9, <2>1 DEF Insert
    <3>2. testAgent = FALSE
      BY <1>0, <3>1 DEF DrillTypeOK
    <3>3. baseline' = {FALSE}
      BY <3>1, <3>2
    <3>4. ~said /\ saved # "PASS"
      BY <1>9 DEF Insert
    <3>. QED
      BY <2>1, <3>1, <3>3, <3>4
  <2>2. CASE ~(Quiet' /\ step' = "delete")
    <3>1. step' \in {"api", "delete", "cleanup"} /\ ~Quiet' /\ UNCHANGED <<baseline, said, saved>>
      BY <1>0, <1>9, <2>2 DEF Insert
    <3>2. ~said /\ saved # "PASS"
      BY <1>9 DEF Insert
    <3>. QED
      BY <3>1, <3>2
  <2>. QED
    BY <2>1, <2>2
<1>10. CASE Delete  BY <1>0, <1>c, <1>10 DEF Delete
<1>11. CASE Api  BY <1>0, <1>c, <1>11 DEF Api
<1>12. CASE Measure  BY <1>0, <1>c, <1>12 DEF Measure
<1>13. CASE Production  BY <1>0, <1>13 DEF Production
<1>14. CASE Raises  BY <1>0, <1>14 DEF Raises
<1>15. CASE Cleanup  BY <1>0, <1>15 DEF Cleanup
<1>16. CASE Drop
  <2>1. /\ step = "drop" /\ step' \in {"stop", "cleanup", "gone", "report"}
        /\ step' = "stop" => unwinds # "none"
        /\ UNCHANGED <<errors, leaving, said, saved, testAgent, baseline>>
    BY <1>16 DEF Drop
  <2>2. step' = "stop" => leaving  BY <2>1 DEF DrillInv, VerdictAtEnd
  <2> QED  BY <2>1, <2>2
<1>17. CASE Save
  <2>1. /\ step = "report" /\ step' = "judge"
        /\ UNCHANGED <<errors, leaving, said, baseline, testAgent>>
        /\ saved' = "PASS" => ~errors
    BY <1>17 DEF Save
  <2>2. ~leaving
    BY <2>1 DEF DrillInv, VerdictAtEnd
  <2>. QED
    BY <2>1, <2>2
<1>18. CASE Judge  BY <1>0, <1>18 DEF Judge
<1>19. CASE Interrupt  BY <1>0, <1>19 DEF Interrupt, Running, Body
<1>20. CASE Kill  BY <1>0, <1>20 DEF Kill
<1>21. CASE OthersChange  BY <1>0, <1>21 DEF OthersChange
<1>24. CASE MonitorExits  BY <1>0, <1>24 DEF MonitorExits
<1>. QED
  BY <1>1, <1>2, <1>3, <1>4, <1>5, <1>6, <1>7, <1>8, <1>9, <1>10, <1>11, <1>12, <1>13, <1>14,
     <1>15, <1>16, <1>17, <1>18, <1>19, <1>20, <1>21, <1>22, <1>23, <1>24 DEF DrillNext

(* The claim the runs refute, as far as it holds: a rehearsal that met no error and was *)
(* not interrupted has no test agent in production when it says so, as its baseline had *)
(* found none, and neither has one whose report on file says PASS.                      *)
THEOREM SentenceHoldsWhenQuiet == DrillSpec => []SentenceHolds
<1>1. DrillInit => SentenceInv
  BY DEF DrillInit, SentenceInv, QuietMeansRestored, SentenceOnWayOut, SentenceHolds
<1>2. SentenceInv /\ DrillInv /\ DrillInv' /\ [DrillNext]_drillVars => SentenceInv'
  <2>1. ASSUME SentenceInv, UNCHANGED drillVars PROVE SentenceInv'
    BY <2>1 DEF drillVars, outcome, process, world, report, SentenceInv, QuietMeansRestored,
                SentenceOnWayOut, SentenceHolds, Quiet
  <2>. QED
    BY <2>1, SentenceKept
<1>3. SentenceInv => SentenceHolds
  BY DEF SentenceInv
<1>. QED
  BY <1>1, <1>2, <1>3, DrillInvAlways, PTL DEF DrillSpec
=============================================================================
