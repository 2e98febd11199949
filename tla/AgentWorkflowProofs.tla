------------------------ MODULE AgentWorkflowProofs ------------------------
(***************************************************************************)
(* Theorems about AgentWorkflow, for plans of any length and any           *)
(* max_retries, in either build.                                           *)
(***************************************************************************)
EXTENDS AgentWorkflow, TLAPS

-----------------------------------------------------------------------------
(* The inductive invariant *)

\* What the executor awaits fits where it is and what its transaction came to.
CallShape ==
  /\ call = "none" => tries = 0
  /\ call # "none" => /\ node = "executor" /\ index < planned /\ simulation.passed
                      /\ tries \in 1 .. TriesOf(call)
  /\ call \in {"receipt", "record"} /\ tx = "success" => Current \in landed
  /\ call = "record" => tx = "success"

\* A plan is made once per round, and there is a current subtask wherever one is acted on.
PlanShape ==
  /\ node = "planner" => planId <= retryCount
  /\ planned > 0 => planId > 0
  /\ index = 0 \/ index < planned
  /\ graph = "contracts" /\ planned = 0 => execution = "none"
  /\ graph = "service" /\ node \in {"executor", "critic"} => index < planned

\* What lies before the current subtask was reported, and what was reported is done.
Progress ==
  /\ \A i \in 0 .. index - 1 : <<planId, i>> \in reported
  /\ reported \subseteq landed \cap recorded
  /\ node = "critic" /\ execution = "confirmed" => Current \in reported
  /\ status = "done" => /\ node = "end"
                        /\ \A i \in 0 .. planned - 1 : <<planId, i>> \in reported

\* Reported subtasks lie behind: the current one is among them only when it is finished.
ReportedBehind ==
  \A s \in reported :
    \/ s[1] < planId
    \/ s[1] = planId /\ s[2] < index
    \/ s = Current /\ (node \in {"end", "aborted"} \/ (node = "critic" /\ execution = "confirmed"))

Rounds(k) == IF graph = "service" THEN k ELSE 2 * k

Later(s) == s[1] > planId \/ (s[1] = planId /\ s[2] > index)

\* Submissions of a subtask: none before its turn, and then one round per replan.
Attempts ==
  \A s \in Subtask :
    /\ submitted[s] <= Rounds(retryCount + 1)
    /\ Later(s) => submitted[s] = 0
    /\ s = Current /\ call = "dispatch" => submitted[s] + tries <= Rounds(retryCount + 1)
    /\ s = Current /\ call = "none" /\ node \in {"planner", "memory", "simulator", "executor"} =>
         submitted[s] <= Rounds(retryCount)

Rejected == simulation # NoSimulation /\ ~simulation.passed

\* A rejected subtask goes through executor and critic to the end.
RejectedLeaves ==
  Rejected => /\ node \in {"executor", "critic", "end", "aborted"}
              /\ index < planned
              /\ node = "critic" => execution = "permanent"

\* In the service the executor runs right after the check of the current subtask.
ServiceFresh == graph = "service" /\ node = "executor" => simulation.for = Current

IInv ==
  /\ TypeOK /\ SpendsLanded
  /\ CallShape /\ PlanShape /\ Progress /\ ReportedBehind
  /\ Attempts /\ RejectedLeaves /\ ServiceFresh
Control ==
  /\ TypeOK /\ SpendsLanded
  /\ CallShape /\ PlanShape /\ Progress /\ ReportedBehind
  /\ RejectedLeaves /\ ServiceFresh

-----------------------------------------------------------------------------
(* The invariant holds *)

(* A new task satisfies the invariant.                                                  *)
LEMMA InitIInv == Init => IInv
<1>. SUFFICES ASSUME Init PROVE IInv
  OBVIOUS
<1>. USE WorkflowAssumption DEF WorkflowAssumption, Init, plan, awaiting, history, Subtask,
     NoSimulation
<1>1. Control
  BY DEF Control, TypeOK, ErrorKind, SpendsLanded, CallShape, PlanShape, Progress,
         ReportedBehind, RejectedLeaves, Rejected, ServiceFresh
<1>2. Attempts
  BY DEF Attempts, Rounds, Later
<1>. QED
  BY <1>1, <1>2 DEF IInv, Control

(* No step disturbs the invariant's parts other than the count of submissions.          *)
LEMMA ControlStep ==
  ASSUME Control, Next
  PROVE  Control'
<1>. USE WorkflowAssumption
     DEF WorkflowAssumption, Control, TypeOK, Subtask, ErrorKind, Current, plan, awaiting, history,
         SpendsLanded, CallShape, PlanShape, Progress, ReportedBehind, RejectedLeaves, Rejected,
         NoSimulation, ServiceFresh, TriesOf
<1>1. CASE PlannerPlans
  BY <1>1 DEF PlannerPlans
<1>2. CASE PlannerRaises
  BY <1>2 DEF PlannerRaises, Raise
<1>3. CASE MemoryAnswers
  BY <1>3 DEF MemoryAnswers
<1>4. CASE MemoryRaises
  BY <1>4 DEF MemoryRaises, Raise
<1>5. ASSUME NEW passed \in BOOLEAN, SimulatorChecks(passed) PROVE Control'
  BY <1>5 DEF SimulatorChecks
<1>6. CASE SimulatorRaises
  BY <1>6 DEF SimulatorRaises, Raise
<1>7. CASE ExecutorRaises
  BY <1>7 DEF ExecutorRaises, Raise
<1>8. CASE ExecutorBlocks
  BY <1>8 DEF ExecutorBlocks, Finish
<1>9. CASE ExecutorStarts
  BY <1>9 DEF ExecutorStarts, Await
<1>10. CASE CircuitOpen
  BY <1>10 DEF CircuitOpen, Finish
<1>11. ASSUME NEW outcome \in {"success", "reverted"}, DispatchAnswers(outcome) PROVE Control'
  BY <1>11 DEF DispatchAnswers, Submit, Await
<1>12. ASSUME NEW kind \in ErrorKind, DispatchRaises(kind) PROVE Control'
  BY <1>12 DEF DispatchRaises, Submit, CallRaises, Finish
<1>13. CASE ReceiptArrives
  BY <1>13 DEF ReceiptArrives, Await, Finish
<1>14. ASSUME NEW kind \in ErrorKind, ReceiptRaises(kind) PROVE Control'
  BY <1>14 DEF ReceiptRaises, CallRaises, Finish
<1>15. CASE RecordAnswers
  BY <1>15 DEF RecordAnswers, Finish
<1>16. ASSUME NEW kind \in ErrorKind, RecordRaises(kind) PROVE Control'
  BY <1>16 DEF RecordRaises, CallRaises, Finish
<1>17. CASE CriticRaises
  BY <1>17 DEF CriticRaises, Raise
<1>18. CASE NextSubtask
  BY <1>18 DEF NextSubtask, CriticDecides, RouteAfterCritic, MoreSubtasksRemain
<1>19. CASE TaskDone
  BY <1>19 DEF TaskDone, CriticDecides, RouteAfterCritic, MoreSubtasksRemain
<1>20. CASE Replan
  BY <1>20 DEF Replan, CriticDecides, RouteAfterCritic, WorthRetrying
<1>21. CASE TaskFailed
  BY <1>21 DEF TaskFailed, CriticDecides, RouteAfterCritic, WorthRetrying
<1>22. CASE Interrupted
  BY <1>22 DEF Interrupted, Submit
<1>. HIDE DEF Control
<1>. QED
  BY <1>1, <1>2, <1>3, <1>4, <1>5, <1>6, <1>7, <1>8, <1>9, <1>10, <1>11, <1>12, <1>13, <1>14,
     <1>15, <1>16, <1>17, <1>18, <1>19, <1>20, <1>21, <1>22 DEF Next

(* Submissions stay within a round per replan: a plan's subtasks start at none, a       *)
(* submission uses up an attempt, and only a replan brings a subtask back.              *)
LEMMA AttemptsStep ==
  ASSUME Control, Attempts, Next
  PROVE  Attempts'
<1>. USE WorkflowAssumption
     DEF WorkflowAssumption, Control, TypeOK, Subtask, Current, plan, awaiting, history,
         CallShape, PlanShape, TriesOf, Attempts, Rounds, Later
<1>1. CASE PlannerPlans
  BY <1>1 DEF PlannerPlans
<1>2. CASE PlannerRaises \/ MemoryAnswers \/ MemoryRaises
  BY <1>2 DEF PlannerRaises, MemoryAnswers, MemoryRaises, Raise
<1>3. ASSUME NEW passed \in BOOLEAN, SimulatorChecks(passed) PROVE Attempts'
  BY <1>3 DEF SimulatorChecks
<1>4. CASE SimulatorRaises \/ ExecutorRaises \/ CriticRaises
  BY <1>4 DEF SimulatorRaises, ExecutorRaises, CriticRaises, Raise
<1>5. CASE ExecutorStarts
  BY <1>5 DEF ExecutorStarts, Await
<1>6. ASSUME NEW outcome \in {"success", "reverted"}, DispatchAnswers(outcome) PROVE Attempts'
  BY <1>6 DEF DispatchAnswers, Submit, Await
<1>7. ASSUME NEW kind \in ErrorKind, DispatchRaises(kind) PROVE Attempts'
  BY <1>7 DEF DispatchRaises, Submit, CallRaises, Finish
<1>8. CASE ExecutorBlocks \/ CircuitOpen \/ RecordAnswers
  BY <1>8 DEF ExecutorBlocks, CircuitOpen, RecordAnswers, Finish
<1>9. CASE ReceiptArrives
  BY <1>9 DEF ReceiptArrives, Await, Finish
<1>10. ASSUME NEW kind \in ErrorKind, ReceiptRaises(kind) \/ RecordRaises(kind) PROVE Attempts'
  BY <1>10 DEF ReceiptRaises, RecordRaises, CallRaises, Finish
<1>11. CASE NextSubtask \/ TaskDone
  BY <1>11 DEF NextSubtask, TaskDone, CriticDecides, RouteAfterCritic
<1>12. CASE Replan \/ TaskFailed
  BY <1>12 DEF Replan, TaskFailed, CriticDecides, RouteAfterCritic
<1>13. CASE Interrupted
  BY <1>13 DEF Interrupted, Submit
<1>. HIDE DEF Attempts
<1>. QED
  BY <1>1, <1>2, <1>3, <1>4, <1>5, <1>6, <1>7, <1>8, <1>9, <1>10, <1>11, <1>12, <1>13 DEF Next

(* The invariant is inductive.                                                          *)
LEMMA Invariance == Spec => []IInv
<1>1. IInv /\ [Next]_vars => IInv'
  <2>. SUFFICES ASSUME IInv, [Next]_vars PROVE IInv'
    OBVIOUS
  <2>1. CASE Next
    BY <2>1, ControlStep, AttemptsStep DEF IInv, Control
  <2>2. CASE UNCHANGED vars
    <3>. USE <2>2 DEF vars, plan, awaiting, history, Current, IInv, PlanShape, Progress
    <3>1. TypeOK' /\ SpendsLanded' /\ ServiceFresh'
      BY DEF TypeOK, SpendsLanded, ServiceFresh
    <3>2. CallShape' /\ RejectedLeaves'
      BY DEF CallShape, TriesOf, RejectedLeaves, Rejected
    <3>3. PlanShape' /\ Progress'
      OBVIOUS
    <3>4. ReportedBehind' /\ Attempts'
      BY DEF ReportedBehind, Attempts, Rounds, Later
    <3>. HIDE <2>2 DEF PlanShape, Progress
    <3>. QED
      BY <3>1, <3>2, <3>3, <3>4
  <2>. QED
    BY <2>1, <2>2
<1>. QED
  BY <1>1, InitIInv, PTL DEF Spec

-----------------------------------------------------------------------------
(* Theorems *)

(* A task's state keeps its types.                                                      *)
THEOREM TypeCorrect == Spec => []TypeOK
<1>1. IInv => TypeOK
  BY DEF IInv
<1>. QED
  BY <1>1, Invariance, PTL

(* A task reported done has had every subtask of its plan land and its spend recorded.  *)
THEOREM DoneIsDone == Spec => []DoneMeansDone
<1>1. IInv => DoneMeansDone
  BY DEF IInv, Progress, DoneMeansDone
<1>. QED
  BY <1>1, Invariance, PTL

(* The policy engine is told of a spend only when its transaction landed.               *)
THEOREM OnlyLandedRecorded == Spec => []SpendsLanded
<1>1. IInv => SpendsLanded
  BY DEF IInv
<1>. QED
  BY <1>1, Invariance, PTL

(* No subtask is submitted more often than its attempts times one more than the replans.*)
THEOREM BoundedAttempts == Spec => []AttemptsBounded
<1>1. IInv => AttemptsBounded
  BY WorkflowAssumption
  DEF IInv, TypeOK, Attempts, AttemptsBounded, Rounds, WorkflowAssumption
<1>. QED
  BY <1>1, Invariance, PTL

(* The steps that submit a transaction, and what holds when they do.                    *)
LEMMA Submissions ==
  ASSUME IInv, [Next]_vars, submitted' # submitted
  PROVE  /\ call = "dispatch" /\ node = "executor" /\ simulation.passed
         /\ submitted' = [submitted EXCEPT ![Current] = submitted[Current] + 1]
<1>1. call = "dispatch" /\ submitted' = [submitted EXCEPT ![Current] = submitted[Current] + 1]
  BY DEF Next, vars, plan, awaiting, history, PlannerPlans, PlannerRaises, MemoryAnswers,
         MemoryRaises, SimulatorChecks, SimulatorRaises, ExecutorRaises, ExecutorBlocks,
         ExecutorStarts, CircuitOpen, DispatchAnswers, DispatchRaises, Submit, ReceiptArrives,
         ReceiptRaises, RecordAnswers, RecordRaises, CriticRaises, NextSubtask, TaskDone, Replan,
         TaskFailed, CriticDecides, Interrupted
<1>. QED
  BY <1>1 DEF IInv, CallShape

(* A rejection by the policy engine is final: nothing is submitted after it and no      *)
(* other check is made.                                                                 *)
THEOREM RejectionsFinal == Spec => RejectionIsFinal
<1>1. ASSUME IInv, [Next]_vars, Rejected
      PROVE  UNCHANGED <<submitted, simulation>>
  <2>1. submitted' = submitted
    BY <1>1, Submissions DEF Rejected
  <2>2. node # "simulator"
    BY <1>1 DEF IInv, RejectedLeaves
  <2>3. simulation' = simulation
    BY <1>1, <2>2
    DEF Next, vars, PlannerPlans, PlannerRaises, MemoryAnswers, MemoryRaises, SimulatorChecks,
        SimulatorRaises, ExecutorRaises, ExecutorBlocks, ExecutorStarts, CircuitOpen,
        DispatchAnswers, DispatchRaises, ReceiptArrives, ReceiptRaises, RecordAnswers,
        RecordRaises, CriticRaises, NextSubtask, TaskDone, Replan, TaskFailed, CriticDecides,
        Interrupted
  <2>. QED
    BY <2>1, <2>3
<1>2. IInv /\ [Next]_vars =>
        [simulation # NoSimulation /\ ~simulation.passed =>
           UNCHANGED <<submitted, simulation>>]_vars
  BY <1>1 DEF Rejected
<1>. QED
  BY <1>2, Invariance, PTL DEF Spec, RejectionIsFinal

(* What was reported confirmed is not submitted again.                                  *)
THEOREM NoRepeats == Spec => ConfirmedNotRepeated
<1>1. ASSUME IInv, [Next]_vars, NEW s \in reported
      PROVE  submitted'[s] = submitted[s]
  <2>1. CASE submitted' = submitted
    BY <2>1
  <2>2. CASE submitted' # submitted
    <3>1. node = "executor" /\ submitted' = [submitted EXCEPT ![Current] = submitted[Current] + 1]
      BY <1>1, <2>2, Submissions
    <3>2. s \in Subtask /\ submitted \in [Subtask -> Nat] /\ planId \in Nat /\ index \in Nat
      BY <1>1, WorkflowAssumption DEF IInv, TypeOK, WorkflowAssumption
    <3>3. s # Current
      BY <1>1, <3>1, <3>2 DEF IInv, ReportedBehind, Current, Subtask
    <3>. QED
      BY <3>1, <3>2, <3>3
  <2>. QED
    BY <2>1, <2>2
<1>2. IInv /\ [Next]_vars => [\A s \in reported : submitted'[s] = submitted[s]]_vars
  BY <1>1
<1>. QED
  BY <1>2, Invariance, PTL DEF Spec, ConfirmedNotRepeated

(* In the service a transaction goes out only for the subtask whose own check passed.   *)
THEOREM ServiceChecks == Spec => ServiceChecksFirst
<1>1. ASSUME IInv, [Next]_vars, graph = "service"
      PROVE  CheckedFirst
  BY <1>1, Submissions DEF IInv, ServiceFresh, CheckedFirst
<1>2. IInv /\ [Next]_vars => [graph = "service" => CheckedFirst]_vars
  BY <1>1
<1>. QED
  BY <1>2, Invariance, PTL DEF Spec, ServiceChecksFirst

\* What the executor found when it started is the check of the current subtask, or the
\* simulator raised and the state says so.
StatusTells == node = "executor" /\ status # "failed" => simulation.for = Current

(* How much of EveryBuildChecksFirst does hold: a transaction goes out on a passed check*)
(* only, in either build, and when it was the check of another subtask the state that   *)
(* the executor starts from says "failed", which the executor does not look at.         *)
OldCheckOnlyWhenFailed ==
  [][submitted' # submitted => simulation.passed /\ (CheckedFirst \/ status = "failed")]_vars

THEOREM OldChecksSayFailed == Spec => OldCheckOnlyWhenFailed
<1>1. Init => StatusTells
  BY DEF Init, StatusTells
<1>2. ASSUME IInv, StatusTells, [Next]_vars PROVE StatusTells'
  BY <1>2
  DEF StatusTells, Current, Next, vars, plan, awaiting, PlannerPlans, PlannerRaises, MemoryAnswers,
      MemoryRaises, SimulatorChecks, SimulatorRaises, ExecutorRaises, ExecutorBlocks,
      ExecutorStarts, CircuitOpen, DispatchAnswers, DispatchRaises, ReceiptArrives, ReceiptRaises,
      RecordAnswers, RecordRaises, CriticRaises, NextSubtask, TaskDone, Replan, TaskFailed,
      CriticDecides, RouteAfterCritic, Interrupted, Raise, CallRaises, Finish, Await
<1>3. ASSUME IInv, StatusTells, [Next]_vars, submitted' # submitted
      PROVE  simulation.passed /\ (CheckedFirst \/ status = "failed")
  BY <1>3, Submissions DEF StatusTells, CheckedFirst
<1>4. IInv /\ StatusTells /\ [Next]_vars =>
        [submitted' # submitted =>
           simulation.passed /\ (CheckedFirst \/ status = "failed")]_vars
  BY <1>3
<1>. QED
  BY <1>1, <1>2, <1>4, Invariance, PTL DEF Spec, OldCheckOnlyWhenFailed

-----------------------------------------------------------------------------
(* How long a task can take *)

Over == node \in {"end", "aborted"}

\* Steps left to the executor's calls, to the nodes of the graph, and to a round of them.
CallLeft ==
  CASE call = "none"     -> 8
    [] call = "dispatch" -> 5 + tries
    [] call = "receipt"  -> 2 + tries
    [] call = "record"   -> tries

NodeLeft ==
  CASE node = "planner"   -> 12
    [] node = "memory"    -> 11
    [] node = "simulator" -> 10
    [] node = "executor"  -> 1 + CallLeft
    [] node = "critic"    -> 1

RoundSteps == 10 * MaxSubtasks + 2

\* A planner that has still to run may put the index back to the first subtask.
RoundLeft == NodeLeft + 10 * (MaxSubtasks - 1 - (IF node = "planner" THEN 0 ELSE index))

StepsLeft == IF Over THEN 0 ELSE (MaxRetries - retryCount) * RoundSteps + RoundLeft

(* Unless it is over there is always some of a round left, and never more than a whole. *)
LEMMA RoundLeftRange ==
  ASSUME IInv, ~Over
  PROVE  RoundLeft \in 1 .. RoundSteps
<1>1. /\ MaxSubtasks \in Nat /\ index \in 0 .. MaxSubtasks - 1 /\ tries \in 0 .. 3
      /\ node \in {"planner", "memory", "simulator", "executor", "critic"}
      /\ call \in {"none", "dispatch", "receipt", "record"}
  BY WorkflowAssumption DEF IInv, TypeOK, Over, WorkflowAssumption
<1>2. (call = "dispatch" => tries <= 2) /\ (call = "record" => tries <= 2)
  BY DEF IInv, CallShape, TriesOf
<1>3. CallLeft \in 0 .. 8
  BY <1>1, <1>2 DEF CallLeft
<1>4. NodeLeft \in 1 .. 12 /\ (NodeLeft > 10 => node \in {"planner", "memory"})
  BY <1>1, <1>3 DEF NodeLeft
<1>. QED
  BY <1>1, <1>4 DEF RoundLeft, RoundSteps

(* Within a round every step takes from what is left of it.                             *)
LEMMA RoundRunsOut ==
  ASSUME IInv, Next, ~Replan, ~Over'
  PROVE  ~Over /\ retryCount' = retryCount /\ RoundLeft' < RoundLeft
<1>. DEFINE Goal == ~Over /\ retryCount' = retryCount /\ RoundLeft' < RoundLeft
<1>. SUFFICES Goal
  OBVIOUS
<1>1. /\ MaxSubtasks \in Nat /\ index \in 0 .. MaxSubtasks - 1 /\ tries \in 0 .. 3
      /\ call # "none" => node = "executor" /\ tries >= 1
      /\ call \in {"none", "dispatch", "receipt", "record"}
      /\ planned \in 0 .. MaxSubtasks
  BY WorkflowAssumption DEF IInv, TypeOK, CallShape, TriesOf, WorkflowAssumption
<1>. USE <1>1 DEF Over, RoundLeft, NodeLeft, CallLeft, plan, awaiting
<1>2. CASE PlannerPlans \/ PlannerRaises
  BY <1>2 DEF PlannerPlans, PlannerRaises, Raise
<1>3. CASE MemoryAnswers \/ MemoryRaises \/ SimulatorRaises \/ ExecutorRaises
  BY <1>3 DEF MemoryAnswers, MemoryRaises, SimulatorRaises, ExecutorRaises, Raise
<1>4. ASSUME NEW passed \in BOOLEAN, SimulatorChecks(passed) PROVE Goal
  BY <1>4 DEF SimulatorChecks
<1>5. CASE ExecutorBlocks \/ CircuitOpen \/ RecordAnswers
  BY <1>5 DEF ExecutorBlocks, CircuitOpen, RecordAnswers, Finish
<1>6. CASE ExecutorStarts
  BY <1>6 DEF ExecutorStarts, Await, TriesOf
<1>7. ASSUME NEW outcome \in {"success", "reverted"}, DispatchAnswers(outcome) PROVE Goal
  BY <1>7 DEF DispatchAnswers, Await, TriesOf
<1>8. ASSUME NEW kind \in ErrorKind, DispatchRaises(kind) \/ ReceiptRaises(kind) \/ RecordRaises(kind)
      PROVE  Goal
  BY <1>8 DEF DispatchRaises, ReceiptRaises, RecordRaises, CallRaises, Finish
<1>9. CASE ReceiptArrives
  BY <1>9 DEF ReceiptArrives, Await, TriesOf, Finish
<1>10. CASE CriticRaises \/ TaskDone \/ TaskFailed
  BY <1>10 DEF CriticRaises, TaskDone, TaskFailed, CriticDecides, RouteAfterCritic, Raise
<1>11. CASE NextSubtask
  BY <1>11 DEF NextSubtask, MoreSubtasksRemain, CriticDecides, RouteAfterCritic
<1>12. CASE Interrupted
  BY <1>12 DEF Interrupted
<1>. HIDE DEF Goal, Over, RoundLeft
<1>. QED
  BY <1>2, <1>3, <1>4, <1>5, <1>6, <1>7, <1>8, <1>9, <1>10, <1>11, <1>12 DEF Next

(* A step never follows the end of a task.                                              *)
LEMMA OverIsOver ==
  ASSUME IInv, Next
  PROVE  ~Over
BY DEF IInv, CallShape, Over, Next, PlannerPlans, PlannerRaises, MemoryAnswers, MemoryRaises,
       SimulatorChecks, SimulatorRaises, ExecutorRaises, ExecutorBlocks, ExecutorStarts, CircuitOpen,
       DispatchAnswers, DispatchRaises, ReceiptArrives, ReceiptRaises, RecordAnswers, RecordRaises,
       CriticRaises, NextSubtask, TaskDone, Replan, TaskFailed, CriticDecides, Interrupted

(* The loops of Terminates run out: a task that is not over has steps left, at most as  *)
(* many as there are in a round for each plan it may still make, and whatever answers,  *)
(* raises, is retried, replanned or swallowed, each step uses up one of them.           *)
StepsInRange ==
  /\ StepsLeft \in 0 .. (MaxRetries + 1) * RoundSteps
  /\ StepsLeft = 0 <=> Over

StepsRunOut == []StepsInRange /\ [][StepsLeft' < StepsLeft]_vars

THEOREM TaskRunsOut == Spec => StepsRunOut
<1>. DEFINE SomeLeft == ~Over => RoundLeft \in 1 .. RoundSteps
<1>0. /\ MaxRetries \in Nat /\ RoundSteps \in Nat
      /\ \A k \in 0 .. MaxRetries :
           /\ (MaxRetries - k) * RoundSteps \in 0 .. MaxRetries * RoundSteps
           /\ (MaxRetries - (k + 1)) * RoundSteps = (MaxRetries - k) * RoundSteps - RoundSteps
      /\ (MaxRetries + 1) * RoundSteps = MaxRetries * RoundSteps + RoundSteps
  <2>1. MaxRetries \in Nat /\ RoundSteps \in Nat
    BY WorkflowAssumption DEF WorkflowAssumption, RoundSteps
  <2>2. ASSUME NEW k \in 0 .. MaxRetries
        PROVE  /\ (MaxRetries - k) * RoundSteps \in 0 .. MaxRetries * RoundSteps
               /\ (MaxRetries - (k + 1)) * RoundSteps = (MaxRetries - k) * RoundSteps - RoundSteps
    <3>1. k \in Nat /\ k * RoundSteps \in Nat /\ MaxRetries - k \in Nat
      BY <2>1
    <3>2. (MaxRetries - k) * RoundSteps \in Nat
      BY <2>1, <3>1
    <3>3. (MaxRetries - k) * RoundSteps = MaxRetries * RoundSteps - k * RoundSteps
      BY <2>1
    <3>4. (MaxRetries - (k + 1)) * RoundSteps = (MaxRetries - k) * RoundSteps - RoundSteps
      BY <2>1
    <3>. QED
      BY <2>1, <3>1, <3>2, <3>3, <3>4
  <2>3. (MaxRetries + 1) * RoundSteps = MaxRetries * RoundSteps + RoundSteps
    BY <2>1
  <2>. QED
    BY <2>1, <2>2, <2>3
<1>1. IInv => StepsInRange /\ SomeLeft
  <2>. SUFFICES ASSUME IInv PROVE StepsInRange
    BY RoundLeftRange
  <2>1. retryCount \in 0 .. MaxRetries
    BY DEF IInv, TypeOK
  <2>2. CASE Over
    BY <2>2, <1>0 DEF StepsInRange, StepsLeft
  <2>3. CASE ~Over
    BY <2>1, <2>3, <1>0, RoundLeftRange DEF StepsInRange, StepsLeft
  <2>. QED
    BY <2>2, <2>3
<1>2. ASSUME IInv, SomeLeft', Next PROVE StepsLeft' < StepsLeft
  <2>1. ~Over /\ RoundLeft \in 1 .. RoundSteps
    BY <1>2, OverIsOver, RoundLeftRange
  <2>2. /\ retryCount \in 0 .. MaxRetries
        /\ StepsLeft = (MaxRetries - retryCount) * RoundSteps + RoundLeft
    BY <1>2, <2>1 DEF IInv, TypeOK, StepsLeft
  <2>3. CASE Over'
    <3>1. (MaxRetries - retryCount) * RoundSteps \in Nat
      BY <2>2, <1>0
    <3>2. StepsLeft' = 0
      BY <2>3 DEF StepsLeft
    <3>. QED
      BY <2>1, <2>2, <3>1, <3>2, <1>0
  <2>4. CASE ~Over' /\ ~Replan
    <3>1. retryCount' = retryCount /\ RoundLeft' < RoundLeft
      BY <1>2, <2>4, RoundRunsOut
    <3>2. StepsLeft' = (MaxRetries - retryCount) * RoundSteps + RoundLeft'
      BY <2>4, <3>1 DEF StepsLeft, RoundSteps
    <3>3. (MaxRetries - retryCount) * RoundSteps \in Nat /\ RoundLeft' \in Int
      BY <1>2, <2>2, <2>4, <1>0
    <3>. QED
      BY <2>1, <2>2, <3>1, <3>2, <3>3
  <2>5. CASE ~Over' /\ Replan
    <3>1. retryCount' = retryCount + 1 /\ retryCount < MaxRetries
      BY <2>5 DEF Replan
    <3>2. RoundLeft' \in 1 .. RoundSteps
      BY <1>2, <2>5 DEF RoundSteps
    <3>3. StepsLeft' = (MaxRetries - retryCount) * RoundSteps - RoundSteps + RoundLeft'
      BY <2>2, <2>5, <3>1, <1>0 DEF StepsLeft, RoundSteps
    <3>4. (MaxRetries - retryCount) * RoundSteps \in Nat
      BY <2>2, <1>0
    <3>5. RoundSteps \in Nat
      BY <1>0
    <3>. QED
      BY <2>1, <2>2, <3>2, <3>3, <3>4, <3>5
  <2>. QED
    BY <2>3, <2>4, <2>5
<1>3. IInv /\ SomeLeft' /\ [Next]_vars => [StepsLeft' < StepsLeft]_vars
  BY <1>2
<1>. HIDE DEF SomeLeft
<1>. QED
  BY <1>1, <1>3, Invariance, PTL DEF Spec, StepsRunOut
=============================================================================
