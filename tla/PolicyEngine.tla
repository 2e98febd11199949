---------------------------- MODULE PolicyEngine ----------------------------
(***************************************************************************)
(* contracts/src/PolicyEngine.sol: the on-chain spending policy of every   *)
(* agent.  A transaction is one step: what the EVM reverts is not a step,  *)
(* so every require, revert and onlyRole of a function is a guard here.    *)
(*                                                                         *)
(* keccak256 of abi.encode(nftId, nonce, target, value, data) is injective *)
(* for our purpose, so an action hash is the record of what it covers; the *)
(* pair (target, data) is one member of Target.                            *)
(*                                                                         *)
(* Operators commented "Slip:" are altered forms of the operator that      *)
(* follows and take no part in the specification.                          *)
(***************************************************************************)
EXTENDS Integers, Sequences

CONSTANTS
  Agent,      \* NFT ids
  Target,     \* what is called: an address with its calldata
  Account,    \* callers
  Admin,      \* the constructor's admin
  Amount,     \* values an action may carry, in wei
  Policies,   \* the policies setPolicy is called with
  MaxNonce,   \* bound: no agent consumes more than MaxNonce actions
  MaxDay      \* bound: the clock stops at the end of day MaxDay

ASSUME PolicyEngineAssumption ==
  /\ Admin \in Account
  /\ Amount \subseteq Nat
  /\ Policies \subseteq [perTxLimit: Nat, dailyLimit: Nat,
                         humanApprovalThreshold: Nat, exists: {TRUE}]
  /\ MaxNonce \in Nat
  /\ MaxDay \in Nat \ {0}

Role == {"DEFAULT_ADMIN", "POLICY_ADMIN", "EXECUTOR", "HUMAN_APPROVER"}
Day == 0 .. MaxDay
ActionHash == [nft: Agent, nonce: Nat, target: Target, value: Amount]
ConsumedAction == [nft: Agent, nonce: Nat, gated: BOOLEAN, hash: ActionHash]

\* The zero value every entry of the policies mapping starts with.
NoPolicy == [perTxLimit |-> 0, dailyLimit |-> 0,
             humanApprovalThreshold |-> 0, exists |-> FALSE]

VARIABLES
  roles,           \* AccessControl: the accounts that hold each role
  policies,        \* the AgentPolicy of each agent
  allowedTargets,  \* the allowlist of each agent
  spentToday,      \* wei consumed on day lastResetDay
  lastResetDay,    \* the day spentToday belongs to
  humanApprovals,  \* the approved hashes of each agent, never taken back
  agentNonce,      \* the nonce the next action must name
  today,           \* block.timestamp / 1 days
  consumed,        \* history: the actions consumed, in order, with what they rested on
  released         \* history: wei let through, for each agent and day

vars == <<roles, policies, allowedTargets, spentToday, lastResetDay,
          humanApprovals, agentNonce, today, consumed, released>>

Init ==
  /\ roles = [r \in Role |-> IF r \in {"DEFAULT_ADMIN", "POLICY_ADMIN"}
                             THEN {Admin} ELSE {}]
  /\ policies = [a \in Agent |-> NoPolicy]
  /\ allowedTargets = [a \in Agent |-> {}]
  /\ spentToday = [a \in Agent |-> 0]
  /\ lastResetDay = [a \in Agent |-> 0]
  /\ humanApprovals = [a \in Agent |-> {}]
  /\ agentNonce = [a \in Agent |-> 0]
  /\ today = 1
  /\ consumed = <<>>
  /\ released = [a \in Agent |-> [d \in Day |-> 0]]

-----------------------------------------------------------------------------
(* Administration *)

SetPolicy(caller, a, policy) ==
  /\ caller \in roles["POLICY_ADMIN"]
  /\ policies' = [policies EXCEPT ![a] = policy]
  /\ UNCHANGED <<roles, allowedTargets, spentToday, lastResetDay, humanApprovals,
                 agentNonce, today, consumed, released>>

SetTargetAllowed(caller, a, target, allowed) ==
  /\ caller \in roles["POLICY_ADMIN"]
  /\ allowedTargets' = [allowedTargets EXCEPT
                          ![a] = IF allowed THEN @ \cup {target} ELSE @ \ {target}]
  /\ UNCHANGED <<roles, policies, spentToday, lastResetDay, humanApprovals,
                 agentNonce, today, consumed, released>>

\* OpenZeppelin's grantRole: DEFAULT_ADMIN administers every role.
GrantRole(caller, role, account) ==
  /\ caller \in roles["DEFAULT_ADMIN"]
  /\ roles' = [roles EXCEPT ![role] = @ \cup {account}]
  /\ UNCHANGED <<policies, allowedTargets, spentToday, lastResetDay, humanApprovals,
                 agentNonce, today, consumed, released>>

\* grantExecutorRole and grantHumanApproverRole check POLICY_ADMIN and then call
\* the public grantRole, which checks DEFAULT_ADMIN of the same caller again.
GrantExecutorRole(caller, executor) ==
  /\ caller \in roles["POLICY_ADMIN"]
  /\ GrantRole(caller, "EXECUTOR", executor)

GrantHumanApproverRole(caller, approver) ==
  /\ caller \in roles["POLICY_ADMIN"]
  /\ GrantRole(caller, "HUMAN_APPROVER", approver)

\* OpenZeppelin's revokeRole, by the role's admin, and renounceRole, by its holder.
RevokeRole(caller, role, account) ==
  /\ caller \in roles["DEFAULT_ADMIN"] \cup {account}
  /\ roles' = [roles EXCEPT ![role] = @ \ {account}]
  /\ UNCHANGED <<policies, allowedTargets, spentToday, lastResetDay, humanApprovals,
                 agentNonce, today, consumed, released>>

-----------------------------------------------------------------------------
(* Approving and consuming actions *)

\* Slip: the hash of the legacy engine, without the nonce.
HashWithoutNonce(a, nonce, target, value) ==
  [nft |-> a, nonce |-> 0, target |-> target, value |-> value]

HashOf(a, nonce, target, value) ==
  [nft |-> a, nonce |-> nonce, target |-> target, value |-> value]

\* computeActionHash: the nonce is the one in force when the view is called.
ComputeActionHash(a, target, value) == HashOf(a, agentNonce[a], target, value)

\* approveAction stores whatever hash it is given: one computed before the nonce
\* moved on, or one for a nonce still to come, like any other.
ApproveAction(caller, a, hash) ==
  /\ caller \in roles["HUMAN_APPROVER"]
  /\ humanApprovals' = [humanApprovals EXCEPT ![a] = @ \cup {hash}]
  /\ UNCHANGED <<roles, policies, allowedTargets, spentToday, lastResetDay,
                 agentNonce, today, consumed, released>>

\* checkAction: the read-only preflight of the simulator.  Its conditions are a copy of their
\* own in the source, and so they are here.
CheckAction(a, target, value) ==
  LET policy == policies[a]
      spent  == IF lastResetDay[a] = today THEN spentToday[a] ELSE 0
  IN  /\ policy.exists
      /\ target \in allowedTargets[a]
      /\ value <= policy.perTxLimit
      /\ spent + value <= policy.dailyLimit
      /\ value > policy.humanApprovalThreshold =>
           ComputeActionHash(a, target, value) \in humanApprovals[a]

\* What follows is consumeAction's.

NeedsApproval(a, value) == value > policies[a].humanApprovalThreshold

\* Slip: the total of an earlier day still counts.
SpentLately(a) == spentToday[a]

\* The day's total so far: the stored one counts only on the day it belongs to.
SpentSoFar(a) == IF lastResetDay[a] = today THEN spentToday[a] ELSE 0

\* Slip: the action's own value is not counted.
LimitNotYetReached(a, value) == SpentSoFar(a) < policies[a].dailyLimit

FitsDailyLimit(a, value) == SpentSoFar(a) + value <= policies[a].dailyLimit

\* Slip: no reset on a new day.
SpentAfterNoReset(a, value) == spentToday[a] + value

\* Slip: the value is taken off.
SpentAfterNegated(a, value) ==
  (IF lastResetDay[a] # today THEN 0 ELSE spentToday[a]) - value

\* The stored total consumeAction leaves behind; it is reset first when the day is new.
SpentAfter(a, value) ==
  (IF lastResetDay[a] # today THEN 0 ELSE spentToday[a]) + value

\* Slip: a nonce already used will do.
NonceNotAhead(a, expectedNonce) == expectedNonce <= agentNonce[a]

NonceIsCurrent(a, expectedNonce) == expectedNonce = agentNonce[a]

\* The conditions consumeAction reverts without.
Consumable(a, expectedNonce, target, value) ==
  /\ NonceIsCurrent(a, expectedNonce)
  /\ policies[a].exists
  /\ target \in allowedTargets[a]
  /\ value <= policies[a].perTxLimit
  /\ FitsDailyLimit(a, value)
  /\ NeedsApproval(a, value) =>
       HashOf(a, expectedNonce, target, value) \in humanApprovals[a]

\* consumeAction: validate, account and advance the nonce, in one transaction.
ConsumeAction(caller, a, expectedNonce, target, value) ==
  /\ caller \in roles["EXECUTOR"]
  /\ Consumable(a, expectedNonce, target, value)
  /\ spentToday' = [spentToday EXCEPT ![a] = SpentAfter(a, value)]
  /\ lastResetDay' = [lastResetDay EXCEPT ![a] = today]
  /\ agentNonce' = [agentNonce EXCEPT ![a] = @ + 1]
  /\ consumed' = Append(consumed,
                        [nft |-> a, nonce |-> expectedNonce, gated |-> NeedsApproval(a, value),
                         hash |-> HashOf(a, expectedNonce, target, value)])
  /\ released' = [released EXCEPT ![a][today] = @ + value]
  /\ UNCHANGED <<roles, policies, allowedTargets, humanApprovals, today>>

\* The chain's clock: block.timestamp passes a multiple of one day.
NextDay ==
  /\ today < MaxDay
  /\ today' = today + 1
  /\ UNCHANGED <<roles, policies, allowedTargets, spentToday, lastResetDay,
                 humanApprovals, agentNonce, consumed, released>>

-----------------------------------------------------------------------------

Next ==
  \/ NextDay
  \/ \E caller \in Account :
       \/ \E a \in Agent :
            \/ \E policy \in Policies : SetPolicy(caller, a, policy)
            \/ \E target \in Target, allowed \in BOOLEAN :
                 SetTargetAllowed(caller, a, target, allowed)
            \/ \E nonce \in 0 .. MaxNonce - 1, target \in Target, value \in Amount :
                 \/ ApproveAction(caller, a, HashOf(a, nonce, target, value))
                 \/ ConsumeAction(caller, a, nonce, target, value)
       \/ \E account \in Account :
            \/ \E role \in Role : GrantRole(caller, role, account)
            \/ \E role \in Role : RevokeRole(caller, role, account)
            \/ GrantExecutorRole(caller, account)
            \/ GrantHumanApproverRole(caller, account)

Spec == Init /\ [][Next]_vars

-----------------------------------------------------------------------------
(* Properties *)

TypeOK ==
  /\ roles \in [Role -> SUBSET Account]
  /\ policies \in [Agent -> Policies \cup {NoPolicy}]
  /\ allowedTargets \in [Agent -> SUBSET Target]
  /\ spentToday \in [Agent -> Nat]
  /\ lastResetDay \in [Agent -> Day]
  /\ humanApprovals \in [Agent -> SUBSET ActionHash]
  /\ agentNonce \in [Agent -> Nat]
  /\ today \in Day \ {0}
  /\ consumed \in Seq(ConsumedAction)
  /\ released \in [Agent -> [Day -> Nat]]

(* The replay invariant the nonce check of consumeAction is there for: every consumed  *)
(* action used a nonce that is spent now, and no two of an agent used the same one.     *)
NoReplay ==
  \A i \in DOMAIN consumed :
    /\ consumed[i].nonce < agentNonce[consumed[i].nft]
    /\ \A j \in DOMAIN consumed :
         (consumed[i].nft = consumed[j].nft /\ consumed[i].nonce = consumed[j].nonce)
           => i = j

(* "Advance nonce - this is what kills ALL stale approvals": an action above the        *)
(* approval threshold rested on an approval of exactly that action, and no approval is  *)
(* what two consumed actions rest on.                                                   *)
OneApprovalOneAction ==
  \A i \in DOMAIN consumed : consumed[i].gated =>
    /\ consumed[i].hash \in humanApprovals[consumed[i].nft]
    /\ \A j \in DOMAIN consumed :
         (consumed[i].nft = consumed[j].nft /\ consumed[i].hash = consumed[j].hash) => i = j

(* spentToday and lastResetDay are a lazily reset cache of the day's total: on every   *)
(* day of an agent's life consumeAction's view of what was spent is what was released. *)
SpentIsDayTotal ==
  \A a \in Agent :
    /\ SpentSoFar(a) = released[a][today]
    /\ \A d \in Day : d > today => released[a][d] = 0

(* Whatever sequence of policy changes, resets and approvals came before, a step that  *)
(* releases wei leaves the day's total of that agent within the limit now in force.    *)
ReleaseWithinLimit ==
  \A a \in Agent, d \in Day :
    released'[a][d] # released[a][d] =>
      d = today /\ released'[a][d] <= policies[a].dailyLimit

WithinDailyLimit == [][ReleaseWithinLimit]_vars

(* The simulator's preflight and the execution are transactions of their own: what       *)
(* checkAction agreed to, consumeAction lets through later with the nonce then current,  *)
(* unless the agent's policy or allowlist changed or another action of it came between.  *)
(* Midnights, at which each of the two copies of the conditions reads the stored total   *)
(* anew, other agents' actions, approvals and roles in between do not matter.            *)
PreflightStays ==
  \A a \in Agent, target \in Target, value \in Amount :
    /\ CheckAction(a, target, value)
    /\ policies'[a] = policies[a] /\ target \in allowedTargets'[a]
    /\ agentNonce'[a] = agentNonce[a]
    => /\ CheckAction(a, target, value)'
       /\ Consumable(a, agentNonce[a], target, value)'

PreflightLasts == [][PreflightStays]_vars
=============================================================================
