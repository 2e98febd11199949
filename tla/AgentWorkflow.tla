---------------------------- MODULE AgentWorkflow ----------------------------
(***************************************************************************)
(* One task going through the LangGraph pipeline planner -> memory ->      *)
(* simulator -> executor -> critic, in the two builds of the repository:   *)
(*   "service"    services/agent-orchestrator/src (agents, graph): a node  *)
(*                that raises ends the invocation, calls are made once;    *)
(*   "contracts"  contracts/agent_graph.py with planning_pipeline.py,      *)
(*                execution_review.py and resilience.py: a node that       *)
(*                raises is wrapped, the graph goes on with a failed       *)
(*                state, and calls are retried by with_retry.              *)
(*                                                                         *)
(* Every awaited call of the executor that can leave something behind is a *)
(* step; what a call does when it raises (nothing, or its effect with the  *)
(* answer lost) is a choice.  Subtasks are told apart by plan and position,*)
(* errors by whether their text has one of the transient patterns.         *)
(* Operators commented "Slip:" are altered forms of the operator that      *)
(* follows and take no part in the specification.                          *)
(***************************************************************************)
EXTENDS Integers, FiniteSets

CONSTANTS
  Graphs,       \* the builds to consider, of "service" and "contracts"
  MaxSubtasks,  \* bound: subtasks in a plan
  MaxRetries    \* max_retries of build_initial_state

ASSUME WorkflowAssumption ==
  /\ Graphs \subseteq {"service", "contracts"}
  /\ MaxSubtasks \in Nat \ {0} /\ MaxRetries \in Nat

VARIABLES
  graph,       \* the build this task runs in
  node,        \* the node about to run; "end" or "aborted" when the invocation is over
  status,      \* state["status"]
  planned,     \* len(state["subtasks"])
  index,       \* state["current_subtask_index"]
  simulation,  \* state["simulation"]: what it says and the subtask it was made for
  execution,   \* state["execution"]: "none", "confirmed", or the kind of its error
  retryCount,  \* state["retry_count"]
  call,        \* the call the executor is awaiting
  tries,       \* attempts with_retry has left for it
  tx,          \* the outcome, on chain, of the transaction whose receipt is awaited
  planId,      \* history: number of plans made
  submitted,   \* history: transactions submitted for each subtask of each plan
  landed,      \* history: subtasks with a successful transaction
  recorded,    \* history: subtasks whose spend reached the policy engine
  reported     \* history: subtasks the executor reported confirmed

plan == <<planned, index, planId>>
awaiting == <<call, tries, tx>>
history == <<submitted, landed, recorded, reported>>
vars == <<graph, node, status, simulation, execution, retryCount, plan, awaiting, history>>

Subtask == (0 .. MaxRetries + 1) \X (0 .. MaxSubtasks - 1)
ErrorKind == {"transient", "permanent"}
NoSimulation == [passed |-> FALSE, for |-> <<0, 0>>]
Current == <<planId, index>>

Init ==
  /\ graph \in Graphs
  /\ node = "planner"
  /\ status = "planning"
  /\ planned = 0 /\ index = 0
  /\ simulation = NoSimulation
  /\ execution = "none"
  /\ retryCount = 0
  /\ call = "none" /\ tries = 0 /\ tx = "none"
  /\ planId = 0
  /\ submitted = [s \in Subtask |-> 0]
  /\ landed = {} /\ recorded = {} /\ reported = {}

-----------------------------------------------------------------------------
(* Exceptions *)

\* Slip: the service swallows a node's exception like the other build.
RaiseSwallowed(next) ==
  /\ node' = next
  /\ status' = "failed"

\* A node raises: _wrap_node turns it into a failed state and the unconditional edge
\* to the next node is followed all the same; without _wrap_node the invocation ends.
Raise(next) ==
  \/ /\ graph = "contracts"
     /\ node' = next
     /\ status' = "failed"
  \/ /\ graph = "service"
     /\ node' = "aborted"
     /\ UNCHANGED status

-----------------------------------------------------------------------------
(* Planner and memory *)

\* PlannerOutputModel refuses an empty plan; the service's _parse_subtasks does not.
PlannerPlans ==
  /\ node = "planner"
  /\ planned' \in (IF graph = "contracts" THEN 1 ELSE 0) .. MaxSubtasks
  /\ index' = 0
  /\ planId' = planId + 1
  /\ status' = "simulating"
  /\ node' = "memory"
  /\ UNCHANGED <<graph, simulation, execution, retryCount, awaiting, history>>

\* The model's answer fails, does not parse, or asks for a capability the agent lacks.
PlannerRaises ==
  /\ node = "planner"
  /\ Raise("memory")
  /\ UNCHANGED <<graph, simulation, execution, retryCount, plan, awaiting, history>>

MemoryAnswers ==
  /\ node = "memory"
  /\ node' = "simulator"
  /\ UNCHANGED <<graph, status, simulation, execution, retryCount, plan, awaiting, history>>

MemoryRaises ==
  /\ node = "memory"
  /\ Raise("simulator")
  /\ UNCHANGED <<graph, simulation, execution, retryCount, plan, awaiting, history>>

-----------------------------------------------------------------------------
(* Simulator *)

\* The result is stored before PolicyRejectedError is raised, so a rejection leaves the
\* same state in both builds.
SimulatorChecks(passed) ==
  /\ node = "simulator"
  /\ index < planned
  /\ simulation' = [passed |-> passed, for |-> Current]
  /\ status' = IF passed THEN "executing" ELSE "failed"
  /\ node' = "executor"
  /\ UNCHANGED <<graph, execution, retryCount, plan, awaiting, history>>

\* No such subtask, the tool cannot build the call, or the gas estimate or the policy
\* check itself fails: state["simulation"] keeps what it held.
SimulatorRaises ==
  /\ node = "simulator"
  /\ Raise("executor")
  /\ UNCHANGED <<graph, simulation, execution, retryCount, plan, awaiting, history>>

-----------------------------------------------------------------------------
(* Executor *)

\* Slip: one attempt more than max_retries.
TriesOneMore(c) ==
  IF graph = "service" THEN 2
  ELSE CASE c = "dispatch" -> 3 [] c = "receipt" -> 4 [] c = "record" -> 3

TriesOf(c) ==
  IF graph = "service" THEN 1
  ELSE CASE c = "dispatch" -> 2 [] c = "receipt" -> 3 [] c = "record" -> 2

Await(c, outcome) == call' = c /\ tries' = TriesOf(c) /\ tx' = outcome

\* The executor stores its result and hands over to the critic.
Finish(result) ==
  /\ execution' = result
  /\ status' = "reviewing"
  /\ node' = "critic"
  /\ call' = "none" /\ tries' = 0 /\ tx' = "none"
  /\ reported' = IF result = "confirmed" THEN reported \cup {Current} ELSE reported

\* The awaited call raises an error of the given kind: with_retry tries again or gives
\* up with an error that quotes the last one.
CallRaises(kind) ==
  \/ /\ tries > 1
     /\ tries' = tries - 1
     /\ UNCHANGED <<node, status, execution, call, tx, reported>>
  \/ /\ tries = 1
     /\ Finish(kind)

ExecutorRaises ==
  /\ node = "executor"
  /\ index >= planned
  /\ Raise("critic")
  /\ UNCHANGED <<graph, simulation, execution, retryCount, plan, awaiting, history>>

ExecutorBlocks ==
  /\ node = "executor"
  /\ index < planned
  /\ ~simulation.passed
  /\ Finish("permanent")
  /\ UNCHANGED <<graph, simulation, retryCount, plan, submitted, landed, recorded>>

ExecutorStarts ==
  /\ node = "executor" /\ call = "none"
  /\ index < planned
  /\ simulation.passed
  /\ Await("dispatch", "none")
  /\ UNCHANGED <<graph, node, status, simulation, execution, retryCount, plan, history>>

\* A circuit breaker, shared with the other tasks, is found open before the first
\* attempt; record_spend is called without one.
CircuitOpen ==
  /\ graph = "contracts"
  /\ call \in {"dispatch", "receipt"}
  /\ tries = TriesOf(call)
  /\ Finish("permanent")
  /\ UNCHANGED <<graph, simulation, retryCount, plan, submitted, landed, recorded>>

Submit(outcome) ==
  /\ submitted' = [submitted EXCEPT ![Current] = @ + 1]
  /\ landed' = IF outcome = "success" THEN landed \cup {Current} ELSE landed

DispatchAnswers(outcome) ==
  /\ call = "dispatch"
  /\ Submit(outcome)
  /\ Await("receipt", outcome)
  /\ UNCHANGED <<graph, node, status, simulation, execution, retryCount, plan,
                 recorded, reported>>

\* dispatch raises, with nothing submitted or with the transaction hash lost.
DispatchRaises(kind) ==
  /\ call = "dispatch"
  /\ \/ UNCHANGED <<submitted, landed>>
     \/ \E outcome \in {"success", "reverted"} : Submit(outcome)
  /\ CallRaises(kind)
  /\ UNCHANGED <<graph, simulation, retryCount, plan, recorded>>

\* Slip: receipt.success is not looked at.
ReceiptArrivesUnread ==
  /\ call = "receipt"
  /\ Await("record", tx)
  /\ UNCHANGED <<graph, node, status, simulation, execution, retryCount, plan, history>>

\* "Transaction reverted" is one of the transient patterns.  In the service the log of
\* a reverted transaction may itself raise, with an error of either kind.
ReceiptArrives ==
  /\ call = "receipt"
  /\ \/ /\ tx = "success"
        /\ Await("record", tx)
        /\ UNCHANGED <<node, status, execution, reported>>
     \/ /\ tx = "reverted"
        /\ \/ Finish("transient")
           \/ graph = "service" /\ Finish("permanent")
  /\ UNCHANGED <<graph, simulation, retryCount, plan, submitted, landed, recorded>>

\* Slip: the attempts start over instead of running out.
ReceiptRaisesForever(kind) ==
  /\ call = "receipt"
  /\ tries' = IF tries = 1 THEN 2 ELSE tries - 1
  /\ UNCHANGED <<graph, node, status, simulation, execution, retryCount, plan,
                 call, tx, history>>

ReceiptRaises(kind) ==
  /\ call = "receipt"
  /\ CallRaises(kind)
  /\ UNCHANGED <<graph, simulation, retryCount, plan, submitted, landed, recorded>>

RecordAnswers ==
  /\ call = "record"
  /\ recorded' = recorded \cup {Current}
  /\ Finish("confirmed")
  /\ UNCHANGED <<graph, simulation, retryCount, plan, submitted, landed>>

\* record_spend raises, before or after its effect: a confirmed transaction is then
\* reported failed.  In the service, the log that follows record_spend may raise too.
RecordRaises(kind) ==
  /\ call = "record"
  /\ recorded' \in {recorded, recorded \cup {Current}}
  /\ CallRaises(kind)
  /\ UNCHANGED <<graph, simulation, retryCount, plan, submitted, landed>>

\* The process dies, or LangGraph gives the invocation up, between two steps: what was
\* awaited may have had its effect all the same.
Interrupted ==
  /\ node \notin {"end", "aborted"}
  /\ node' = "aborted"
  /\ call' = "none" /\ tries' = 0 /\ tx' = "none"
  /\ \/ UNCHANGED <<submitted, landed, recorded>>
     \/ /\ call = "dispatch"
        /\ \E outcome \in {"success", "reverted"} : Submit(outcome)
        /\ UNCHANGED recorded
     \/ /\ call = "record"
        /\ recorded' = recorded \cup {Current}
        /\ UNCHANGED <<submitted, landed>>
  /\ UNCHANGED <<graph, status, simulation, execution, retryCount, plan, reported>>

-----------------------------------------------------------------------------
(* Critic *)

RouteAfterCritic(s) ==
  CASE s = "simulating" -> "simulator"
    [] s = "retrying"   -> "planner"
    [] OTHER            -> "end"

\* Slip: off by one.
MoreSubtasksCountingCurrent == index + 1 <= planned

MoreSubtasksRemain == index + 1 < planned

\* Slip: every failure is worth a replan.
AnyFailure(result) == result # "confirmed"

WorthRetrying(result) == result = "transient"

\* _evaluate subscripts None when no executor ran; the service's log may raise.
CriticRaises ==
  /\ node = "critic"
  /\ execution = "none" \/ graph = "service"
  /\ Raise("end")
  /\ UNCHANGED <<graph, simulation, execution, retryCount, plan, awaiting, history>>

CriticDecides(newStatus) ==
  /\ node = "critic" /\ execution # "none"
  /\ status' = newStatus
  /\ node' = RouteAfterCritic(newStatus)
  /\ UNCHANGED <<graph, simulation, execution, planned, planId, awaiting, history>>

\* Slip: the index stays where it was.
NextSubtaskSameIndex ==
  /\ execution = "confirmed" /\ MoreSubtasksRemain
  /\ CriticDecides("simulating")
  /\ UNCHANGED <<retryCount, index>>

NextSubtask ==
  /\ execution = "confirmed" /\ MoreSubtasksRemain
  /\ CriticDecides("simulating")
  /\ index' = index + 1
  /\ UNCHANGED retryCount

TaskDone ==
  /\ execution = "confirmed" /\ ~MoreSubtasksRemain
  /\ CriticDecides("done")
  /\ UNCHANGED <<retryCount, index>>

Replan ==
  /\ execution # "confirmed" /\ WorthRetrying(execution) /\ retryCount < MaxRetries
  /\ CriticDecides("retrying")
  /\ retryCount' = retryCount + 1
  /\ UNCHANGED index

TaskFailed ==
  /\ execution # "confirmed"
  /\ ~WorthRetrying(execution) \/ retryCount >= MaxRetries
  /\ CriticDecides("failed")
  /\ UNCHANGED <<retryCount, index>>

-----------------------------------------------------------------------------

Next ==
  \/ PlannerPlans \/ PlannerRaises
  \/ MemoryAnswers \/ MemoryRaises
  \/ \E passed \in BOOLEAN : SimulatorChecks(passed)
  \/ SimulatorRaises
  \/ ExecutorRaises \/ ExecutorBlocks \/ ExecutorStarts \/ CircuitOpen
  \/ \E outcome \in {"success", "reverted"} : DispatchAnswers(outcome)
  \/ \E kind \in ErrorKind : DispatchRaises(kind) \/ ReceiptRaises(kind) \/ RecordRaises(kind)
  \/ ReceiptArrives \/ RecordAnswers
  \/ CriticRaises \/ NextSubtask \/ TaskDone \/ Replan \/ TaskFailed
  \/ Interrupted

\* LangGraph runs the next node, and an awaited call answers or raises.
Spec == Init /\ [][Next]_vars /\ WF_vars(Next)

-----------------------------------------------------------------------------
(* Properties *)

TypeOK ==
  /\ graph \in Graphs
  /\ node \in {"planner", "memory", "simulator", "executor", "critic", "end", "aborted"}
  /\ status \in {"planning", "simulating", "executing", "reviewing", "retrying",
                 "done", "failed"}
  /\ planned \in 0 .. MaxSubtasks
  /\ index \in 0 .. MaxSubtasks - 1
  /\ simulation \in [passed: BOOLEAN, for: Subtask]
  /\ execution \in {"none", "confirmed"} \cup ErrorKind
  /\ retryCount \in 0 .. MaxRetries
  /\ call \in {"none", "dispatch", "receipt", "record"}
  /\ tries \in 0 .. 3
  /\ tx \in {"none", "success", "reverted"}
  /\ planId \in 0 .. retryCount + 1
  /\ submitted \in [Subtask -> Nat]
  /\ landed \in SUBSET Subtask /\ recorded \in SUBSET Subtask /\ reported \in SUBSET Subtask

(* _summarize tells the user "completed N step(s) successfully": then each of the N     *)
(* subtasks of the plan landed on chain and its spend was recorded, whatever was        *)
(* retried, replanned or raised on the way.                                             *)
DoneMeansDone ==
  status = "done" => \A i \in 0 .. planned - 1 : <<planId, i>> \in landed \cap recorded

(* The policy engine is told of a spend only when a transaction of it landed.           *)
SpendsLanded == recorded \subseteq landed

(* Retries within with_retry and replans together resubmit a subtask at most so often:  *)
(* one round of attempts when it is planned and one per replan that produced no plan.   *)
AttemptsBounded ==
  \A s \in Subtask :
    submitted[s] <= (IF graph = "service" THEN 1 ELSE 2) * (retryCount + 1)

(* A rejection by the policy engine is final for the task: nothing is submitted, and no *)
(* later check overrides it, although the graph runs on through executor and critic.    *)
RejectionIsFinal ==
  [][simulation # NoSimulation /\ ~simulation.passed =>
       UNCHANGED <<submitted, simulation>>]_vars

(* A subtask the executor reported confirmed is not executed again under its plan.      *)
ConfirmedNotRepeated ==
  [][\A s \in reported : submitted'[s] = submitted[s]]_vars

CheckedFirst == submitted' # submitted => simulation.passed /\ simulation.for = Current

(* agents/simulator.py, of the service: checkAction confirms "the action is actually    *)
(* allowed before anything gets submitted": a transaction goes out only for the subtask *)
(* whose own check passed, never on the check of an earlier one.                        *)
ServiceChecksFirst == [][graph = "service" => CheckedFirst]_vars

(* The same of every build.                                                             *)
EveryBuildChecksFirst == [][CheckedFirst]_vars

(* Every invocation comes to an end: replans, retries and subtasks are bounded.         *)
Terminates == <>(node \in {"end", "aborted"})
=============================================================================
