# A TLA+ model of Big-X (MERCURY)

Big-X is a platform on which AI agents are owned as NFTs, plan and submit transactions under an
on-chain spending policy, earn revenue, are bought and sold, and move wrapped bitcoin over an
M-of-N bridge. It consists of Solidity contracts (`contracts/src`), Python services around them
(`contracts/*.py`, `services/`, `apps/api-gateway`, `infra/`), and a web front end. This directory
holds TLA+ modules translated from that code, TLC configurations that check them on small
instances, and TLAPS proofs of the most important safety properties for every instance.

`PROJECT.json` is the index: components, runs, altered forms used to test the properties, the
lines of source each definition stands for, the disagreements found between code and comments,
the hazards, and the theorems.

## 1. Inventory of the system

### On-chain

| Component | State | Operations | What is hard, and what makes it correct |
|---|---|---|---|
| **PolicyEngine** (`contracts/src/PolicyEngine.sol`) | per agent: policy, allowlist, approved hashes, nonce, lazily reset day total; roles | `setPolicy`, `setTargetAllowed`, `approveAction`, `checkAction`, `consumeAction`, role grants | No action replayed, no approval used twice; day total right across day changes; daily limit held while policies change; two copies of the same conditions agree, also over a midnight. |
| **BridgeContract** (`contracts/src/BridgeContract.sol`), token `test/MockWbtc.sol` | relayers, threshold M and count N, peg-in and peg-out entries with confirmations, daily total, pause | `confirmPegIn`, `requestPegOut`, `confirmPegOut`, admin operations | Confirmations arrive in any order, also before the request, while relayers and threshold change. At most one release per deposit and one redemption per request; quorum of distinct relayers; daily limit; tokens conserved. |
| **ERC7857IntelligentNFT** | owners, approvals, verifiers, royalties, pause | mint, batch mint, transfer, proof transfer, pause | Pause freezes ownership on every path. |
| **Marketplace** (same file) | listings, fee | `list`, `cancelListing`, `buy`, `setProtocolFee` | Listings outlive transfers; payments split without remainder. |
| **RevenueTracker** (same file) | earnings, lineage, cached owners | `recordRevenue`, `setLineage`, `syncOwner`, `withdraw` | Solvent under rounding and lineage; the owner cache lags behind the NFT. |
| **AgentRegistry**, **CapabilityRegistry**, **AgentAccount** (`AgentRegistry.sol`) | agent records with a lifecycle, capability tiers, cached owner | register, suspend, update, execute | Lifecycle moves along its transitions only; the cached owner goes stale. |
| **Legacy PolicyEngine** (`AgentRegistry.sol`) | like the newer one, without nonces | `validateAction`, `recordSpend`, `approveAction` | An approval does not expire; validation and recording are separate calls. |

The contracts call each other directly: the marketplace calls the NFT; nothing tells the tracker
of a sale. No code in the repository calls `consumeAction` (`AgentAccount.execute` does not,
although `PolicyEngine.sol:88` says so), so who holds the EXECUTOR role is left open.

### Off-chain

| Component | State | Operations | What is hard |
|---|---|---|---|
| **Agent workflow** (`contracts/agent_graph.py`, `planning_pipeline.py`, `execution_review.py`, `resilience.py`; a second build in `services/agent-orchestrator/src`) | one state dictionary per task, handed from node to node | planner, memory, simulator, executor, critic | Exceptions swallowed between nodes, retries inside retries, lost answers, results of an earlier step left behind. |
| **Orchestrator services** (`contracts/main.py`, `agent-orchestrator/src/main.py`) | task rows, breaker | execute a task, save, audit | A failed task can be saved as succeeded. |
| **Circuit breakers and retry loops** (`contracts/resilience.py`, `contracts/main.py`, `mpc_wallet.py`) | failure counts, open/half-open | allow, succeed, fail, `with_retry` | A half-open breaker that lets everyone, or nobody, through; loops that outlive the closing of the breaker; cancelled probes. |
| **Wallet service** (`contracts/wallet_service.py`) | nonce per wallet, submission queue, sessions, pending transactions | submit, poll, resync, reorg | Nonces given twice or skipped, queue slots never freed. |
| **Approvals, spend limits, MPC wallet** (`services/wallet-service`) | requests, day totals, breaker | approve, reject, check, record, sign | Check and record are apart; on-chain approval and stored status are apart. |
| **Bridging service** (`services/bridging-service`) | deposits seen, redemptions paid | attest, confirm, pay natively | A crash or a failed step between payment and record. |
| **Contract client** (`blockchain/smart_contract_integration/blockchain_client.py`) | breaker, cached nonce per key | read, write, wait for a receipt | The nonce cache has no lock, a failed attempt burns its nonce, a lost answer sends again. |
| **RabbitMQ client** (`infra/docker/RabbitMQ/rabbitMQ.py`) | three queues per subscriber, retry counts in headers, idempotency marks | publish, consume, retry, dead-letter | Callbacks interleave at every await; publish and acknowledge are apart; one subscriber's retry reaches the others. |
| **Redis client** (`infra/docker/redis`) | locks, counters | lock, count | Expiry. |
| **Recovery rehearsal** (`contracts/backup_restore.py`) | gates passed, a schema and a test agent in production, a monitor process | thirteen sections, cleanup, report, verdict | What an interrupt, an exception or a kill leaves behind; what the verdict rests on. |
| **API gateway** (`apps/api-gateway`) | listings in a database, login nonces | list, buy, login | Check, await, write. |
| **Guardrails, event listener, tool router, notifications, backend layer, AI reasoning, database scripts, web** | little or none | | Input, output, scoring, encoding. |

Several service directories exist twice (`event-listener` and `event_listener`, and so on) with the
same content; the hyphenated ones are the ones cited. The wallet service's session keys and
`_fetch`/`_persist`, `human_approval._get`, the MPC client and the native bitcoin send are stubs in
the source.

`PROJECT.json` lists all 25 components with their status, and 37 hazards at their lines.

## 2. Plan

The order was: what holds money on chain, then what spends it, then the clients everything goes
through.

| # | Module | Models | State |
|---|---|---|---|
| 1 | `PolicyEngine` | the policy engine | checked and proved |
| 2 | `BridgeContract`, `PegLedger`, `BridgeLedger` | the bridge, what it promises, the refinement | checked; every property of the run proved, and how much of two refuted comments holds |
| 3 | `AgentNFT`, `RevenueTracker`, `AgentMarket` | NFT, tracker, marketplace, composed | checked; every property of the run proved, and whom the tracker pays |
| 4 | `AgentWorkflow` | the pipeline, one task, both builds | checked; every safety property proved, and that its loops run out |
| 5 | `EventDelivery`, `EventConsumer` | what RabbitMQ subscribers are promised, and the client that keeps it | checked; its invariants and the safety of the promise proved, and that callbacks and retries run out |
| 6 | `ContractClient` | threads, breaker, nonces, node and chain | checked; its three invariants proved, and that calls run out |
| 7 | `Resilience` | the breakers and retry loops of the orchestrator | checked; its three invariants proved |
| 8 | `RecoveryDrill` | the disaster-recovery rehearsal | one disagreement shown; types, verdict, monitor and what its last sentence is worth proved |

Dropped from the first plan after reading the code closely, for the reasons in section 7: the agent
registry, the wallet service, approvals and spend limits, the bridging service, the gateway's market
and the Redis locks. `Resilience` stays a module of its own and does not replace the choice
`AgentWorkflow` makes between an open and a closed breaker: the choice allows every answer the
breaker can give, and the two together are beyond what TLC can explore.

`TokensAddUp`, `TrackerSolvent` and `NothingStuckInMarket` are about sums over sets. `SumTheorems` gives
what their proofs need of the community modules' `SumFunction` and `SumFunctionOnSet`, by the argument of
section 6; nothing about money is left to TLC alone.

## 3. The modules and the code

Common conventions. A contract's transaction is one step: what the EVM reverts leaves no trace and
is no step, so each `require`, custom-error `revert`, `onlyRole`, `whenNotPaused` and checked
subtraction is a guard, also one in a call made last. Contract state keeps its source names.
Variables marked *history* record what happened and are read by properties only. Constants marked
*bound* are bounds of the instance, not of the code. Operators commented **Slip:** are altered
forms of the operator after them, as a plausible slip in the code would alter it; they take no part
in a specification, and each shows that some property can fail.

**`PolicyEngine`.** One action per function, plus `NextDay` for `block.timestamp`. `keccak256`
over the encoded arguments is injective for our purpose, so a hash is the record of what it covers.
`ApproveAction` may approve a hash of any nonce, past or to come, as the function does. The source
writes the conditions twice, and so does the module: `CheckAction` is `checkAction`'s copy and shares no
operator with `consumeAction`'s (`Consumable`, from `SpentSoFar`, `FitsDailyLimit`, `NeedsApproval`). Role
operations inherited from OpenZeppelin are actions, with the double check `grantExecutorRole` makes.
History: `consumed` (with what each action rested on) and `released` (wei per agent and day).

**`BridgeContract`.** One action per function; token transfer and daily limit are guards of the
action that ends in them, as their revert undoes it. Both zero-entry behaviours are kept: a deposit
whose first recipient is `address(0)` stays open for the next one, and a peg-out id may be confirmed
before it is requested. `relayerCount` is the contract's own count, which `grantRole` and repeated
`addRelayer` separate from the role's membership. Time is in ticks. `TokenTransfer` and
`TokenApprove` are the token; allowances to others than the bridge are left out.

**`PegLedger`** says, without relayers, thresholds, roles or clock, what holders of the token rely
on. **`BridgeLedger`** maps the contract to it: `released` are the executed deposits, `requests` the
entries below `nextPegOutId`, `redeemed` those of them marked executed.

**`AgentNFT`**, **`RevenueTracker`**, **`AgentMarket`.** `AgentMarket` extends the NFT and instantiates
the tracker, with `purse` (the accounts' ether) shared. Roles stay with the deployer, and payees are
externally owned accounts: a payment always succeeds and runs no code. Metadata, token URIs and
operators other than the marketplace are left out. The treasury calls `syncOwner` with the owner the NFT
names, or with an address in `Strays`, since the function takes any. `buy` is one step, with royalty, fee,
proceeds and refund as `PaidOut`, in integer arithmetic that rounds as the code's does.

**`AgentWorkflow`.** One task through the five nodes, in the build chosen at the start:
`"service"` lets a node's exception end the invocation and calls once; `"contracts"` wraps nodes
(`_wrap_node` returns a failed state and the unconditional edge is followed) and retries calls
(`with_retry`). The executor's `dispatch`, `wait_for_receipt` and `record_spend` are steps of their
own; each may answer, raise with nothing done, or raise with its effect done and the answer lost.
Errors are kept as transient or permanent, as the critic's patterns tell them apart. A circuit
breaker is found open or closed nondeterministically. `simulation.for` and `planId` only say which
subtask a stored result was made for. `Interrupted` is a process that dies, also while a call is
awaited whose effect may still come about, or LangGraph's own step limit. Caches and log rows shared
among tasks are left out.

**`EventDelivery`** is what subscribers rely on: pairs of a subscriber's queue and an event are owed
from the moment the event reaches the queue until they are settled, handled or dead-lettered, for
good; and whatever is owed is settled in the end. Publishing is once per event, handling may repeat,
and one subscriber's retry may reach others (`Share`).

**`EventConsumer`** is the client. Copies of an event differ in their `retry_count` only, so a queue is
a counter per copy. `process_message` is cut at its awaits: `Check` (idempotency check and decoding),
`Handle`, `MarkProcessed`, `Ack`, and on any exception `_handle_failure`, which publishes (`Reroute`,
or `RerouteFails` when the publish raises, routed or not) and then acknowledges (`AckRouted`).
`_route_to_dlq_explicitly` is the same with stages of its own. A worker is one delivery in progress;
several of a subscriber interleave, as the client prefetches ten. `Disconnect` is a lost connection,
which the callbacks survive with messages they can no longer acknowledge (`stale`), or the end of the
process. The broker is external: an exchange copies a message to every queue bound with the key, a
retry queue's message expires to the main exchange, unacknowledged messages come back. `Owed` and
`Settled` map its state to `EventDelivery`; subscribers without a worker are down for good and are
owed nothing.

**`ContractClient`.** `Gate`, `Provide`, `Read` and the steps of `_send_once` from RPC to RPC, with
`RecordFailure` and `RecordSuccess` where the code records them. `get_and_increment` is cut at its RPC:
`Ask` finds the cache empty, `Count` is the node's answer, whatever others took and sent in between, and
`TakeNonce` stores it, over a cache that may be full by then; storing, reading and incrementing are
bytecode between two switches of threads that no call separates, and are one step. `Provide` has both
ways to fail, without a provider (the call ends) and after it (the attempt is retried). What follows a
receipt or an answer, counting and logging the success, is a step of its own, `Report`, as it lies inside
the retried `try` and what it raises sends the call again. A transaction is named by thread and attempt.
The node and the chain are external: a nonce is refused or replaces what waits with it, and the chain
mines the next nonce only. `Earlier` are nonces an earlier run of the service left pending, so a node's
first count need not be the chain's. The waits between attempts have no state. `cooled` says that the
recovery timeout is over.

**`Resilience`.** One dependency, one breaker, several tasks; `build` chooses between the breaker of
`contracts/resilience.py`, which half-open lets everyone through, and that of `contracts/main.py`,
which lets one probe through and refuses the rest. `Enter` is the call of `with_retry`, `Call` an
attempt, `Succeed` and `Fail` its outcome, `Cancel` a `CancelledError` at an await, which neither
records. The dependency goes down and comes up on its own.

**`RecoveryDrill`.** One action per numbered section, split where an interruption leaves something
behind: the insert of the test agent is committed before its deletion, and the monitor is started before
the script has a name for it (`MonitorStart`, `MonitorBound`). `Raises`, `Interrupt` and `Kill` are an
exception, a signal that the script handles, and one it cannot. The handler cleans up first, with the
monitor alive, and `unwinds` says where its exit then leads: through the `finally` of section 11
(`MonitorStop`), which may itself fail or be interrupted, through that of `main`, or out. `lost` records
how the script may have lost its monitor. `OthersChange` is everyone else who uses production. Gates are
kept by name, since the verdict compares names.

## 4. The runs

| Run | Instance | Distinct states | Shows |
|---|---|---|---|
| `policy_engine` | 1 agent, 1 target, admin and executor, amounts 1 and 2, two policies, 2 nonces, 3 days | 851,968 | `NoReplay`, `OneApprovalOneAction`, `SpentIsDayTotal`, `PreflightLasts`, `WithinDailyLimit` |
| `bridge` | 2 relayers, both needed, 1 user, 1 deposit, 2 peg-outs, timelock 1 tick, 2-tick days | 1,103,184 | `ThresholdWithinCount`, `ConfirmationsAreDistinct`, `WithdrawnIsDayTotal`, `TokensAddUp`, `QuorumAtExecution`, `RedeemedWithinLimit`, `ImplementsLedger` |
| `bridge_agreement` | the same, two claims for the deposit | | a violation of `AgreedRelease` |
| `bridge_timelock` | the same | | a violation of `ExecutedAfterTimelock` |
| `workflow` | both builds, 2 subtasks, `max_retries` 2 (the default) | 877,137 | `DoneMeansDone`, `SpendsLanded`, `AttemptsBounded`, `RejectionIsFinal`, `ConfirmedNotRepeated`, `ServiceChecksFirst`, `Terminates` |
| `workflow_unchecked` | contracts build | | a violation of `EveryBuildChecksFirst` |
| `market` | 2 accounts, 2 agents, 1 of them traded, price 20, payments 20 and 21, fees 2.5%, 10% and one refused, royalty 5% or 100%, owners synced to the NFT's or to others | 1,757,088 | `TrackerSolvent`, `NothingStuckInMarket`, `SaleByLister`, `PauseFreezesOwnership` |
| `market_revenue` | the same, owners synced to the NFT's | | a violation of `RevenueFollowsPurchase` |
| `events` | 2 subscribers, 1 event, well-formed or not, 2 workers on one queue or on both, `MAX_RETRIES` 1, 1 fault | 290,408 | `DeadLetteredWhenExhausted`, `RepeatsHaveCause`, `DeliveryKept` (the refinement, with its liveness) |
| `client` | 2 writing threads, 1 reading, 2 attempts, threshold 2, 2 faults, 1 transaction of an earlier run pending | 437,142 | `RacesRepeatNothing`, `NoNonceSkipped`, `MinedOrBehindBurned`, `EveryCallReturns` |
| `resilience` | both breakers, 3 tasks, 2 attempts, threshold 2, 1 outage, 2 cancellations | 154,956 | `OpenLoadBounded`, `HalfOpenHasProbe`, `RecoversWhenUp` |
| `drill_untouched` | the script, with nothing bounded | | a violation of `ProductionUntouched` |

Why the bounds are enough. *Policy engine*: agents do not share state, so one suffices; three days
hold a reset, a day without actions and another reset; two nonces hold a stale and an early
approval; the policies make 1 + 2 exceed one limit, meet the other, and put one amount on either
side of the approval threshold. *Bridge*: a quorum of two has a first and a second confirmer; two
peg-outs compete for one day's limit, and one can be confirmed before it is requested; a second day
brings the reset; the limit is raised and lowered again between them; the re-added relayer makes role and
count drift apart. That a deposit is first claimed for `address(0)` doubles the states and is left to the
proofs. *Workflow*: two subtasks are enough for a result to be left behind by an earlier one; two replans reach the code's default.
*Market*: two accounts make owner and lister differ; one traded agent and one fork suffice
since listings are per token and lineage relates two agents (or one to itself); with revenue 3
and half of it for the parent the share rounds down, and with a royalty of 100% the split underflows.

*Events*: two
subscribers make a retry fan out; with two workers a second copy of the event is handled while the
first is between handling and marking, and a subscriber may be down; one retry has a first failure
that is retried and a second that is not; one fault suffices for a lost connection, a crash or a failed
publish at every point, and events share nothing but the queues, so one is enough. *Client*: two
writers race for the empty cache: one counts before and stores after the other has sent, so that a nonce
is given twice and a transaction refused or replaced; one attempt burns a nonce the other's transaction
then waits behind; the pending transaction of an earlier run makes the first counts differ, and once it is
mined they are those of a start without one;
the reader is refused by, or is the probe of, a breaker the writers opened; two faults are a failed
attempt in each writer, or the two that open the breaker. *Resilience*: with three tasks two are inside
their loops when the third's failure opens the breaker, and both a probe and a late caller can be
cancelled. *Rehearsal*: no bounds. Its whole space, 1,668,688 states, also satisfies `DrillTypeOK`,
`PassIsClean` and `MonitorEndsWithScript`, which are proved.

Deadlock is checked for the bridge and the market. Elsewhere the system may stop, and the
configuration says so: the policy engine when all roles are renounced at the last day; a workflow, the
client's threads and the rehearsal when they end; the event client when its queues are empty and
everything is published; the service's breaker when a cancelled probe leaves it half-open and every
task is outside.

Fairness, as far as the code and its surroundings justify it:

- `AgentWorkflow`: `WF_vars(Next)`. LangGraph runs the next node as soon as one returns, and an awaited
  call answers or raises: the nodes set no timeout of their own, so this is what is asked of the
  clients behind the calls. No particular outcome (a success, say) is assumed to be fair.
- `EventConsumer`: a subscriber finishes subscribing, the broker expires what waits in a retry queue
  (its time to live is a queue argument) and delivers what is ready to a consumer that is free, and a
  callback goes on to its next await. A handler may raise every time. Faults are finitely many, by
  their bound. Nobody is obliged to publish.
- `ContractClient`: a thread goes on, every RPC answers or raises (web3's HTTP provider has a timeout), and the
  chain mines a transaction that carries the next nonce. That the recovery timeout passes is not
  assumed: calls return all the same.
- `Resilience`: the recovery timeout passes, an attempt answers or raises, and each task calls again,
  as the orchestrator keeps getting work. `RecoversWhenUp` asks for the dependency to stay up.

The contracts are driven by whoever sends transactions, and the rehearsal by its operator; nothing is
assumed to happen there, so they have safety properties only.

## 5. Where code and documentation disagree

1. **A peg-in's amount need not be agreed** (`BridgeContract.sol:115`, run `bridge_agreement`). The
   comment says the token is released once that many relayers agree; the code keeps the first
   confirmation's recipient and amount and counts the later ones whatever they say. What holds is
   `ReleasesAttested`: the claim is one some relayer attested, and a quorum if they all say the same.
2. **A peg-out can be executed before it is requested** (`BridgeContract.sol:166`, run
   `bridge_timelock`). The comment asks for confirmations and the timelock; the zero entry of an id
   not requested yet passes both checks of the code. The later request overwrites the entry but not
   who confirmed it, so these relayers cannot confirm the real one. The ledger's promises still hold:
   the early entry has amount 0 and is no request. And a request once made does wait, and is executed
   once (`RequestsWaitTimelock`).
3. **A subtask can be submitted on an earlier subtask's check** (`agent_graph.py:64`, run
   `workflow_unchecked`). In the build with wrapped nodes a simulator that raises leaves the previous
   simulation in place. The service build ends the invocation instead, and `ServiceChecksFirst` holds. A
   task that submits so has the status "failed" (`OldChecksSayFailed`), which the executor ignores.
4. **Revenue does not follow a purchase** (`ERC7857IntelligentNFT.sol:199`, run `market_revenue`). The
   README says it transfers instantly; the tracker pays its cached owner until the treasury syncs it,
   and never anybody else (`CachedOwnersPaid`).
5. **The rehearsal says production was not modified when it may have been** (`backup_restore.py:283`,
   run `drill_untouched`). `ensure_restore_schema` returns the URL of production (`:205`, called at
   `:448`), so section 13 commits its test agent to production's own table (`:723-729`) and deletes it
   in a second transaction (`:732-733`); an interrupt between the two leaves it there, and `cleanup`
   prints its line all the same. Without an error or an interruption the line is true
   (`SentenceHoldsWhenQuiet`).

An observation without a run: `ContractWriteError` says "write failed before submission"
(`blockchain_client.py:75`), and `send` raises it after the last attempt whatever became of the ones
before. A submission whose answer was lost, whose receipt was late, or whose success could not be logged
may be on the chain or get there. `RacesRepeatNothing` says when the sentence can be trusted: while
nothing raised and no wait timed out.

## 6. What is proved

The proof modules prove, for every value of the constants that satisfies the named assumptions
(`PolicyEngineAssumption`; `BridgeAssumption`, `FiniteAssumption`; `WorkflowAssumption`; `NFTAssumption`,
`RoyaltyAssumption`, `FeeAssumption`, `MarketAssumption`, `LineageAssumption`, `AccountAssumption`;
`ConsumerAssumption`; `ClientAssumption`; `ResilienceAssumption`; the rehearsal has no constants): any
number of agents, relayers, tokens and accounts, any amounts, limits, fees, royalties, timelock and day
length, plans of any length, any `max_retries`, any bound on clock and ids; any number of subscribers,
events, deliveries in progress, tasks, threads, retries, faults, and any breaker threshold. The
assumptions say no more than that amounts and nonces are naturals, special addresses are no accounts, readers are
no writers, some task exists, the constructors' checks passed, and what is counted or summed over is
finite: accounts and deposits (whose balances and amounts are added up), deliveries in progress (whose
requeued copies are counted) and tasks (whose attempts are). They are: an address has 160 bits, a
deposit's hash 256, and a process has finitely many tasks.

| Module | Theorem | Property |
|---|---|---|
| `PolicyEngineProofs` | `TypeCorrect` | `TypeOK`: The policy engine's state keeps its types, for any agents, policies, days and nonces. |
| `PolicyEngineProofs` | `ReplayFreedom` | `NoReplay`: No two consumed actions of an agent share a nonce, whatever the sequence of transactions. |
| `PolicyEngineProofs` | `ApprovalsUsedOnce` | `OneApprovalOneAction`: Every gated action rested on an approval of exactly that action, and no approval serves two. |
| `PolicyEngineProofs` | `DayTotals` | `SpentIsDayTotal`: The lazily reset counter is the day's released total, on every day. |
| `PolicyEngineProofs` | `DailyLimitHolds` | `WithinDailyLimit`: A release leaves the day's total within the limit in force, however policies changed before. |
| `PolicyEngineProofs` | `PreflightKeeps` | `PreflightLasts`: What `checkAction` agreed to can be consumed later, unless the agent's policy, allowlist or nonce moved. |
| `BridgeProofs` | `TypeCorrect` | `TypeOK`: The bridge's state keeps its types, for any relayers, deposits, limits and clock. |
| `BridgeProofs` | `ThresholdHolds` | `ThresholdWithinCount`: The threshold stays between one and the contract's relayer count through every admin operation. |
| `BridgeProofs` | `DistinctConfirmations` | `ConfirmationsAreDistinct`: Confirmation counters count distinct accounts, early peg-out confirmations and overwriting requests included. |
| `BridgeProofs` | `DayTotal` | `WithdrawnIsDayTotal`: What the daily limit compares with is what was redeemed today. |
| `BridgeProofs` | `QuorumHolds` | `QuorumAtExecution`: No deposit is released and no peg-out executed on fewer distinct relayers than the threshold of that moment. |
| `BridgeProofs` | `RedemptionsWithinLimit` | `RedeemedWithinLimit`: An execution leaves the day's redemptions within the daily limit in force. |
| `BridgeProofs` | `Implementation` | `ImplementsLedger`: The bridge contract implements the ledger its users rely on: every step maps to a release, a lock, a redemption, a transfer or a stutter. |
| `BridgeProofs` | `AddUp` | `TokensAddUp`: No step makes or loses a token, and the reserve holds what requests locked less what deposits released. |
| `BridgeProofs` | `ReleasesAttested` | A deposit releases the claim it has held since it first named a recipient, attested by a relayer, and by a quorum if its relayers agree. |
| `BridgeProofs` | `RequestsWaitTimelock` | A request that was made keeps owner, amount and time, is executed once, and not before its timelock has elapsed. |
| `AgentWorkflowProofs` | `TypeCorrect` | `TypeOK`: A task's state keeps its types, for plans of any length and any max_retries, in either build. |
| `AgentWorkflowProofs` | `DoneIsDone` | `DoneMeansDone`: A task reported done has had every subtask of its plan land and its spend recorded. |
| `AgentWorkflowProofs` | `OnlyLandedRecorded` | `SpendsLanded`: The policy engine is told of a spend only when its transaction landed. |
| `AgentWorkflowProofs` | `BoundedAttempts` | `AttemptsBounded`: Retries and replans together submit a subtask at most a fixed number of times. |
| `AgentWorkflowProofs` | `RejectionsFinal` | `RejectionIsFinal`: After a policy rejection nothing is submitted and no other check is made. |
| `AgentWorkflowProofs` | `NoRepeats` | `ConfirmedNotRepeated`: A subtask reported confirmed is not submitted again under its plan. |
| `AgentWorkflowProofs` | `ServiceChecks` | `ServiceChecksFirst`: In the service build a transaction goes out only for the subtask whose own check passed. |
| `AgentWorkflowProofs` | `OldChecksSayFailed` | A transaction goes out on a passed check, and when it was another subtask's the task's status says "failed". |
| `AgentWorkflowProofs` | `TaskRunsOut` | A task that is not over has a bounded number of steps left, and every step uses one up. |
| `AgentMarketProofs` | `TypeCorrect` | `TypeOK`: NFT, tracker and marketplace keep their types; no balance goes below zero. |
| `AgentMarketProofs` | `TrackerPaysOut` | `TrackerSolvent`: The tracker's ether is what is withdrawable, and that is what was earned less what was withdrawn. |
| `AgentMarketProofs` | `NothingStuck` | `NothingStuckInMarket`: A sale pays out to the wei what the buyer sent; accounts and tracker keep the ether there was. |
| `AgentMarketProofs` | `ListersSell` | `SaleByLister`: A purchase takes the token from whoever listed it, however often it moved in between. |
| `AgentMarketProofs` | `PauseHolds` | `PauseFreezesOwnership`: While the NFT is paused no agent changes hands on any path. |
| `AgentMarketProofs` | `CachedOwnersPaid` | Earnings leave an agent whole, to the owner the tracker has cached and to nobody else. |
| `EventConsumerProofs` | `ConsumerTypeOK` | `TypeOK`: Queues, callbacks and marks keep their types; no callback works on a copy whose count exceeds `MAX_RETRIES`. |
| `EventConsumerProofs` | `ConsumerDeadLetters` | `DeadLetteredWhenExhausted`: A well-formed event is dead-lettered only after `MAX_RETRIES` + 1 failures. |
| `EventConsumerProofs` | `ConsumerRepeats` | `RepeatsHaveCause`: Without a fault or a retry that fanned out no handler completes an event twice. |
| `EventConsumerProofs` | `EventsStayOwed` | The safety of `EventDelivery` is implemented: an event owed leaves queues and callbacks only handled or dead-lettered. |
| `EventConsumerProofs` | `CallbacksRunOut` | A callback takes at most six steps on a message and never turns back. |
| `EventConsumerProofs` | `RetriesCountUp` | The counts of copies only rise and end at `MAX_RETRIES`, whatever fails, fans out or is requeued. |
| `ContractClientProofs` | `ClientTypeOK` | `TypeOK`: Client, breaker and chain keep their types. |
| `ContractClientProofs` | `ClientRepeatsNothing` | `RacesRepeatNothing`: The races for the nonce counter make no write execute twice or after it ended in an error. |
| `ContractClientProofs` | `ClientSkipsNoNonce` | `NoNonceSkipped`: Every nonce before a waiting transaction is sent, in hand or burned, late counts included. |
| `ContractClientProofs` | `CallsRunOut` | A call takes at most seven steps per attempt; every step is one of those, settles a transaction for good, or is the one passing of the recovery timeout. |
| `OperationsProofs` | `BreakerTypes` | `Resilience`'s `TypeOK`: Breakers and loops keep their types; a breaker is closed exactly while its failures are below the threshold. |
| `OperationsProofs` | `OpenLoad` | `OpenLoadBounded`: While a breaker is open the dependency sees fewer calls than all tasks' attempts together. |
| `OperationsProofs` | `ProbeUnderWay` | `HalfOpenHasProbe`: A half-open breaker has its probe on the way, unless it was cancelled. |
| `OperationsProofs` | `AbandonedForGood` | A service breaker that is half-open with every task outside lost its probe to a cancellation, and stays so for good. |
| `OperationsProofs` | `DrillTypeCorrect`, `DrillPassIsClean`, `DrillMonitorEnds` | `DrillTypeOK`; a rehearsal that announces PASS passed every gate and left no agent, nor its monitor unless no signal reached it; when a monitor can outlive a script nobody killed. |
| `OperationsProofs` | `SentenceHoldsWhenQuiet` | A rehearsal without error and interruption, or whose report on file says PASS, left no test agent in production, as its baseline found. |

*Policy engine.* None of the properties is inductive alone. `NoReplay` needs that nonces are typed
and that consumed nonces lie below the current one (it says so itself); `OneApprovalOneAction` also
needs `HashesBindNonces`, that a consumed hash carries the nonce it was consumed with, so that equal
hashes mean equal nonces; the day total needs `Accounting`, that `spentToday` is the total of
`lastResetDay`, which is never ahead of today, and that later days are still zero. Their conjunction
with `TypeOK` is `IInv`. Each action is one step of the proof, `ConsumeAction` the only one that
disturbs all parts.

`PreflightLasts` relates the two copies of the conditions over time: a yes of `checkAction` now and what
`consumeAction` lets through after another step. The hard case is a new day, at which each copy reads the
stored total in its own way: by `Accounting` it is today's or of an earlier day, and then zero in both, so
the room under the limit only grows. Approvals are never taken back, and the nonce did not move, so the
hash is the same.

*Bridge.* `IInv` is `TypeOK`, `ThresholdWithinCount`, `ConfirmationsAreDistinct` and `DailyAccounts`
(the stored total is that of `lastResetDay`, not in the future, and later days are zero).
`QuorumAtExecution` follows from a counter that reaches the threshold and counts distinct accounts;
`RedeemedWithinLimit` from `DailyAccounts` and the guard of `ExecutePegOut`.

*The bridge implements its ledger.* `Implementation` needs `TypeOK` only. A confirmation that
executes maps to `Release` or `Redeem`, and its `~executed` guard is what makes either happen once;
a request maps to `Lock`, where the fresh entry extends the sequence of requests
(`LedgerRequests' = Append(...)`); users' transfers map to `Transfer`; the rest, among it the
execution of an id that was never requested, stutters.

*What relayers attested.* The history `attested` records who claimed what. `Attested` adds to `IInv` that
there are as many attestations of a deposit as confirmations, by relayers who confirmed, and that an entry
with a recipient holds a claim one of them made. If they all claim the same, the attestations that agree
with the entry are all there are, and a release has a quorum of them.
`RequestsWaitTimelock` needs the types only: `requestedAt` is never written after the request, as the
ids of requests grow and no request returns to an old one.

*Workflow.* `IInv` adds to `TypeOK` what the code leaves implicit in its state dictionary:
`CallShape` (a call is awaited only in the executor, after a passed check, with attempts left; a
record only of what landed), `PlanShape` (a current subtask exists wherever one is acted on),
`Progress` (subtasks before the index were reported, and what was reported landed and was recorded),
`ReportedBehind` (what was reported is behind the current subtask), `Attempts` (submissions of a
subtask start at none with each plan, plus attempts left stay within a round per replan),
`RejectedLeaves` (a rejected subtask leads to the end only) and `ServiceFresh` (in the service the
stored check is the current subtask's). `ControlStep` and `AttemptsStep` have one step per action.

`TaskRunsOut` counts: `StepsLeft` is a round's worth of steps for each plan that may still be made, and
within the round `RoundLeft`, which orders the nodes, the subtasks behind the current one and the tries
of the call that is awaited. A replan starts a new round and gives up one of the plans left.
`OldChecksSayFailed` is inductive through `StatusTells`: the only way to the executor without a check of
the current subtask is a simulator that raised, and the wrapper that swallowed it wrote "failed".

*Sums.* `SumFunctionOnSet` folds over a finite set by choosing elements in some order, and the prover
cannot use the library's induction over finite sets, which takes a predicate as its parameter. That
strict inclusion is well founded on the subsets of a finite set needs none: `SumTheorems` collects the
subsets for which a claim fails; if there are any, one of them has none of the others among its own
subsets, and taking an element out of it contradicts that (`MinimalSubset`). So are shown that the fold
is defined (`FoldFunctionOnSet` takes a function by `CHOOSE`), that it does not depend on the order, that
sums of naturals are naturals, that sums add (`SumPlus`), and what all the proofs use: a function changed
in one place changes its sum by the same amount (`SumChange`, `SumFunctionChange`).

*The bridge's tokens add up.* `TokensAddUp` is inductive with `TypeOK`. `MovedSum` is the token: a
transfer takes before it gives, as `MockWbtc` does, so that one to oneself changes nothing; `Moved` and
the ledger's `Pay` write the two changes one after the other for that reason. A request moves to the
bridge what it adds to `Locked`, a release takes from it what it adds to `Released`, as the deposit was
not released before; a redemption pays natively, so its tokens stay, in the reserve and in `Locked`.

*Market.* `IInv` is `NFTTypeOK`, `TrackerInv` (types, `TrackerSolvent`, and accounts' and tracker's ether
together are what accounts began with) and `MarketInv` (types, `ActiveHasSeller`: whoever a sale pays
exists, and a fee of at most 10%). `Buy` is the hard step: seller, royalty receiver, fee recipient and
buyer may be the same account in any combination, and fee, royalty and proceeds are rounded quotients.
The payments are four functions that are zero but at one account (`SumOfFour`), so whatever coincides
their sum is the sum of the parts, and that is the price and the refund. `RecordRevenue` adds a rounded
share to the parent and the rest to the agent, one after the other, which covers an agent that is its
own parent. For the two action properties, `Update`'s comparison of the current owner with the listing's
seller and its `whenNotPaused` do the rest.
`CachedOwnersPaid` goes through the actions once more: nothing but a withdrawal lowers what an agent has
to withdraw, also when a parent is credited with a share.

*Event client.* `Sound` joins `TypeOK` with `Origins` (what is in a queue or a callback was published,
and only queues that are bound hold it), `Counts` (a copy's count is at most its event's failures, and
less than them while its failure is handled, so that what is dead-lettered has failed on every attempt)
and `Processed` (a mark, and a callback about to mark or acknowledge, stands for a handled event).
For the promise two more parts are needed. `Holds`, by which `Owed` is defined, also counts a callback
that has sent its copy on but not acknowledged yet; when it acknowledges, something else must still
hold the event. `HeldFirmly` says so: what is held and not settled is in a queue or in a callback that
has not sent it on. `WorkIsOwed` says that callbacks and retry queues only hold what is or was owed to
somebody, which is what lets a dead letter or an expired retry be a step of `Share`. `Kept`, a step of
`EventDelivery` or a stutter together with `HeldFirmly'`, has one lemma per kind of step.

For `RepeatsHaveCause`, `Faultless` says what holds while there have been no faults. `Single`: an event
that has not fanned out is in one place of a subscriber at most, one waiting copy or one callback that
has not sent it on; publishing finds no copy, an expiry or a retry that does not fan out moves one, and
a delivery takes it. `HandledOnce`: what is handled is marked, or its callback is about to mark it, and
who handles an event finds it unhandled; the check of another callback cannot come between, as there is
none. `NoneStale`: no acknowledgement fails. TLC agrees on the run's instance.

What of `DeliveryKept`'s liveness is no fairness are two descents. `AwaitsLeft` orders the stages of a
callback, and each of its steps goes down (`CallbacksRunOut`). A copy never meets its count again in the
retry queue it came from: `RetriesCountUp` lists what a queue may gain and from whom.

*Contract client.* `Inv` is `TypeOK`, `RacesRepeatNothing`, `AttemptsOrdered` (a thread's attempts take
and send their transactions in order) and `Cover`: every nonce below the cache, below a count just
obtained, or below one taken is mined, held by the node, in hand or burned. `NoNonceSkipped` speaks of
waiting transactions only and is not inductive: the late store of an old count moves the cache back, and
what lies below the new cache has to be covered already. `RacesRepeatNothing` rests on `Cover` too: an
attempt that sent something fails without a fault only when its transaction was replaced, for to be stuck
behind a gap takes a burned nonce, and no attempt burns one without a fault (a refused one leaves a nonce
that is mined or held).

`CallsRunOut` counts the steps a thread has left within its attempt, and its attempts left. A mined,
replaced or reverted transaction stays as it is, so the chain's own steps are finitely many too; the
breaker cools once between two steps of threads.

*Breakers.* `BreakerInv` adds `LoadInv` to the types and `HalfOpenHasProbe`: while the breaker is open,
the calls it has seen so far and the attempts that are `Left` to the loops entered before are fewer than
all attempts of all tasks. Nobody enters then, each call uses up one of what is left, and the failure
that opened the breaker had used up one that is not counted. What is left is a set of pairs of task and
attempt, so the bound is the cardinality of a product and needs no sum. `AbandonedForGood` reads
`HalfOpenHasProbe` the other way: with no task inside there is nobody to report anything.

*Rehearsal.* `OperationsProofs` holds its proofs too, though it shares nothing with the breakers. The
argument follows one gate, the write test: once it has passed the agent is deleted and the step that
inserts it is behind (`GateMeansDeleted`); a verdict is only reached at the end, and PASS needs every
gate (`VerdictAtEnd`). A monitor is watched, about to be ended by an exit under way, or lost
(`MonitorInHand`). For the sentence `cleanup` prints, `QuietMeansRestored` follows the agent: while
there is no error and no interruption it is in production only between the section that inserts it and
the one that deletes it, both of which come before the sentence (`SentenceOnWayOut`).

Only model-checked: liveness (`Terminates`, `MinedOrBehindBurned`, `EveryCallReturns`, `RecoversWhenUp`,
and in `DeliveryKept` that what is owed is settled) needs fairness, and with it `ENABLED`, which is beyond
the prover. What is proved of it is what does not: that the loops run out (`TaskRunsOut`, `CallsRunOut`,
`CallbacksRunOut`, `RetriesCountUp`), so that a task, a call or a callback that did not end would have to
stand still, which is what the fairness excludes; and that the exception in `RecoversWhenUp` is needed
(`AbandonedForGood`). Every other
invariant and action property of the runs that pass is proved. The violations of section 5 are runs, and
for each a theorem says how much of the refuted sentence holds.

To repeat: `tlc -config Bridge.cfg MCBridge`, `tlapm BridgeProofs.tla`, and likewise for the others.

## 7. What is not modelled

Components marked `not_modelled` or `partly` in `PROJECT.json`. Most of what looks like protocol state
there cannot be reached in the code as it is, and a model would be of code nobody can run:

- **Wallet service** (`contracts/wallet_service.py`): stops at its first submission as written. Its
  nonces, retries and confirmations are close to `ContractClient`'s.
- **Approvals, spend limits, MPC wallet** (`services/wallet-service`): the database functions of
  `human_approval` are stubs that raise, `SpendLimitsService.record_spend` has no caller, and the
  constructor of the MPC provider raises `NotImplementedError`, so its breaker never runs.
- **Bridging service**: `_send_native_btc` and `derive_deposit_address` raise `NotImplementedError`, and
  nothing starts the deposit monitor. In `BridgeContract` any relayer may confirm anything at any time,
  which includes whatever the service would do.
- **API gateway**: the market's handlers do not match the database models and stop at their first query;
  authentication and rate limits hold one entry per caller.
- **Orchestrator services**: `OrchestratorService.execute` saves under the role `"workflow"`, which
  `AgentRole` lacks, and ends in that error. The breaker of `contracts/main.py` is modelled in
  `Resilience`, although nothing constructs it.
- **Redis client**: single commands that only its own test calls.
- **Legacy PolicyEngine** (`AgentRegistry.sol`; its ABI is still in the risk-policy service):
  `PolicyEngine.sol:9-10` replaces its check and record by one atomic step; the replacement is modelled.
- **AgentRegistry, CapabilityRegistry, AgentAccount**: single guarded steps of a role holder on one
  record; the copy of an owner that goes stale is the same pattern as the revenue tracker's.
- **Guardrails, event listener, tool router, notifications, AI reasoning, oracle, risk engine,
  verification scripts, web**: text, decoding, encoding, scoring and output without protocol state.

Within modelled components:

- *Contracts*: gas, events, reentrancy by payees with code, ERC-20 allowances to others than the bridge,
  NFT metadata, role changes of the NFT, marketplace and tracker, overflow of 256-bit counters (checked
  arithmetic reverts, far above any bound here).
- *Workflow*: the content of plans, prompts, memories and messages, and caches shared among tasks.
- *Event client*: metrics, the content of events, a broker that loses what it confirmed.
- *Contract client*: there are three copies of it in the repository; the one in
  `blockchain/smart_contract_integration` is modelled. The eth-account version the services pin (0.13.7)
  has no `rawTransaction`, so with it every write raises after its nonce was taken: the behaviours of
  `PrepareFails`, a part of the model. Several processes with the same key are several clients; the
  model has one.
- *Breakers*: `TTLCache`, the lengths of backoffs, and the breaker of `mpc_wallet.py`.
- *Rehearsal*: what the backup and the SQL checks compare. Three things the reading showed are kept as
  they are: "the restored database" is reached through a search path that leads to production's tables;
  `psql` exits with 0 although statements failed; and the report file's status is computed before the
  missing gates are added, so the file can say PASS where the exit status says FAIL. `run_monitor.py`
  is not in the repository and external.
