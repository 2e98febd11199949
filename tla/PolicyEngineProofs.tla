------------------------- MODULE PolicyEngineProofs -------------------------
(***************************************************************************)
(* Theorems about PolicyEngine, for every set of agents, accounts, targets,*)
(* amounts and policies, and however long the contract runs.               *)
(*                                                                         *)
(* NoReplay is inductive together with the types.  What is consumed on an  *)
(* approval stays approved because approvals are never withdrawn, and its  *)
(* hash names its nonce (HashesBindNonces), so NoReplay makes it unique.   *)
(* SpentIsDayTotal is not inductive: Accounting adds what the stored total *)
(* means on days when it is stale.                                         *)
(***************************************************************************)
EXTENDS PolicyEngine, TLAPS

(* Every consumed action's hash is the one of its agent and nonce, and a gated action's *)
(* hash has been approved.                                                              *)
HashesBindNonces ==
  \A i \in DOMAIN consumed :
    /\ consumed[i].hash.nonce = consumed[i].nonce
    /\ consumed[i].gated => consumed[i].hash \in humanApprovals[consumed[i].nft]

(* The stored total is the total of the day it was last reset on, and nothing was let   *)
(* through on any later day.                                                            *)
Accounting ==
  \A a \in Agent :
    /\ lastResetDay[a] <= today
    /\ spentToday[a] = released[a][lastResetDay[a]]
    /\ \A d \in Day : d > lastResetDay[a] => released[a][d] = 0

IInv == TypeOK /\ NoReplay /\ HashesBindNonces /\ Accounting

-----------------------------------------------------------------------------

(* A hash of a known agent, target, amount and a natural nonce is an action hash. *)
LEMMA HashType ==
  ASSUME NEW a \in Agent, NEW n \in Nat, NEW t \in Target, NEW v \in Amount
  PROVE  HashOf(a, n, t, v) \in ActionHash
BY DEF HashOf, ActionHash

(* Every entry of the history is a record of a consumed action. *)
LEMMA EntryType ==
  ASSUME TypeOK
  PROVE  /\ Len(consumed) \in Nat
         /\ DOMAIN consumed = 1 .. Len(consumed)
         /\ \A i \in DOMAIN consumed :
              consumed[i] \in ConsumedAction /\ consumed[i].nft \in Agent /\ consumed[i].nonce \in Nat
<1>1. consumed \in Seq(ConsumedAction)
  BY DEF TypeOK
<1>2. /\ Len(consumed) \in Nat
      /\ DOMAIN consumed = 1 .. Len(consumed)
      /\ \A i \in DOMAIN consumed : consumed[i] \in ConsumedAction
  BY <1>1
<1>3. \A e \in ConsumedAction : e.nft \in Agent /\ e.nonce \in Nat
  BY DEF ConsumedAction
<1> QED
  BY <1>2, <1>3

(* The contract's state keeps its types, for every value of the constants. *)
LEMMA TypeStep == TypeOK /\ [Next]_vars => TypeOK'
<1> SUFFICES ASSUME TypeOK, [Next]_vars PROVE TypeOK'
  OBVIOUS
<1> USE PolicyEngineAssumption
<1>1. CASE UNCHANGED vars
  BY <1>1 DEF TypeOK, vars
<1>2. CASE NextDay
  BY <1>2 DEF TypeOK, NextDay, Day
<1>3. ASSUME NEW caller \in Account, NEW a \in Agent, NEW policy \in Policies,
             SetPolicy(caller, a, policy)
      PROVE  TypeOK'
  BY <1>3 DEF TypeOK, SetPolicy
<1>4. ASSUME NEW caller \in Account, NEW a \in Agent, NEW target \in Target,
             NEW allowed \in BOOLEAN, SetTargetAllowed(caller, a, target, allowed)
      PROVE  TypeOK'
  BY <1>4 DEF TypeOK, SetTargetAllowed
<1>5. ASSUME NEW caller \in Account, NEW a \in Agent, NEW nonce \in 0 .. MaxNonce - 1,
             NEW target \in Target, NEW value \in Amount,
             ApproveAction(caller, a, HashOf(a, nonce, target, value))
      PROVE  TypeOK'
  <2>1. HashOf(a, nonce, target, value) \in ActionHash
    BY HashType
  <2> QED
    BY <1>5, <2>1 DEF TypeOK, ApproveAction
<1>6. ASSUME NEW caller \in Account, NEW a \in Agent, NEW nonce \in 0 .. MaxNonce - 1,
             NEW target \in Target, NEW value \in Amount,
             ConsumeAction(caller, a, nonce, target, value)
      PROVE  TypeOK'
  <2>1. HashOf(a, nonce, target, value) \in ActionHash
    BY HashType
  <2>2. value \in Nat
    OBVIOUS
  <2>3. SpentAfter(a, value) \in Nat
    BY <2>2 DEF SpentAfter, TypeOK
  <2>4. /\ spentToday' \in [Agent -> Nat]
        /\ lastResetDay' \in [Agent -> Day]
        /\ agentNonce' \in [Agent -> Nat]
    BY <1>6, <2>3 DEF TypeOK, ConsumeAction
  <2>5. consumed' \in Seq(ConsumedAction)
    <3>1. [nft |-> a, nonce |-> nonce, gated |-> NeedsApproval(a, value),
           hash |-> HashOf(a, nonce, target, value)] \in ConsumedAction
      BY <2>1 DEF ConsumedAction, NeedsApproval
    <3> QED
      BY <1>6, <3>1 DEF TypeOK, ConsumeAction
  <2>6. released' \in [Agent -> [Day -> Nat]]
    BY <1>6, <2>2 DEF TypeOK, ConsumeAction
  <2> QED
    BY <1>6, <2>4, <2>5, <2>6 DEF TypeOK, ConsumeAction
<1>7. ASSUME NEW caller \in Account, NEW account \in Account, NEW role \in Role,
             GrantRole(caller, role, account) \/ RevokeRole(caller, role, account)
      PROVE  TypeOK'
  <2>1. /\ roles[role] \cup {account} \in SUBSET Account
        /\ roles[role] \ {account} \in SUBSET Account
    BY DEF TypeOK
  <2>2. roles' \in [Role -> SUBSET Account]
    BY <1>7, <2>1 DEF TypeOK, GrantRole, RevokeRole
  <2> QED
    BY <1>7, <2>2 DEF TypeOK, GrantRole, RevokeRole
<1>8. ASSUME NEW caller \in Account, NEW account \in Account,
             GrantExecutorRole(caller, account) \/ GrantHumanApproverRole(caller, account)
      PROVE  TypeOK'
  BY <1>7, <1>8 DEF GrantExecutorRole, GrantHumanApproverRole, Role
<1> QED
  BY <1>1, <1>2, <1>3, <1>4, <1>5, <1>6, <1>7, <1>8 DEF Next

(* Every reachable state of the contract is of its type. *)
THEOREM TypeCorrect == Spec => []TypeOK
<1>1. Init => TypeOK
  BY PolicyEngineAssumption DEF Init, TypeOK, Day, NoPolicy
<1> QED
  BY <1>1, TypeStep, PTL DEF Spec

-----------------------------------------------------------------------------

(* A step that does not consume an action leaves the nonces, the totals and the history *)
(* alone, never withdraws an approval, and the clock never goes back.                   *)
Bystander ==
  /\ UNCHANGED <<spentToday, lastResetDay, agentNonce, consumed, released>>
  /\ today' \in {today, today + 1}
  /\ \A a \in Agent : humanApprovals[a] \subseteq humanApprovals'[a]

(* consumeAction is the only function that touches the nonce, the totals or the history. *)
LEMMA StepKinds ==
  ASSUME TypeOK, [Next]_vars
  PROVE  \/ Bystander
         \/ \E caller \in Account, a \in Agent, nonce \in 0 .. MaxNonce - 1,
               target \in Target, value \in Amount :
              ConsumeAction(caller, a, nonce, target, value)
<1>1. CASE UNCHANGED vars
  BY <1>1 DEF vars, Bystander
<1>2. CASE NextDay
  BY <1>2 DEF NextDay, Bystander, TypeOK
<1>3. ASSUME NEW caller \in Account, NEW a \in Agent, NEW policy \in Policies,
             SetPolicy(caller, a, policy)
      PROVE  Bystander
  BY <1>3 DEF SetPolicy, Bystander
<1>4. ASSUME NEW caller \in Account, NEW a \in Agent, NEW target \in Target,
             NEW allowed \in BOOLEAN, SetTargetAllowed(caller, a, target, allowed)
      PROVE  Bystander
  BY <1>4 DEF SetTargetAllowed, Bystander
<1>5. ASSUME NEW caller \in Account, NEW a \in Agent, NEW hash,
             ApproveAction(caller, a, hash)
      PROVE  Bystander
  BY <1>5 DEF ApproveAction, Bystander, TypeOK
<1>6. ASSUME NEW caller, NEW account, NEW role,
             GrantRole(caller, role, account) \/ RevokeRole(caller, role, account)
      PROVE  Bystander
  BY <1>6 DEF GrantRole, RevokeRole, Bystander
<1>7. ASSUME NEW caller \in Account, NEW account \in Account,
             GrantExecutorRole(caller, account) \/ GrantHumanApproverRole(caller, account)
      PROVE  Bystander
  BY <1>6, <1>7 DEF GrantExecutorRole, GrantHumanApproverRole
<1> QED
  BY <1>1, <1>2, <1>3, <1>4, <1>5, <1>6, <1>7 DEF Next

(* What a consumed action leaves behind, with the history spelled out by position. *)
LEMMA ConsumeEffect ==
  ASSUME TypeOK, NEW caller \in Account, NEW a \in Agent, NEW nonce \in 0 .. MaxNonce - 1,
         NEW target \in Target, NEW value \in Amount,
         ConsumeAction(caller, a, nonce, target, value)
  PROVE  /\ nonce = agentNonce[a]
         /\ agentNonce' = [agentNonce EXCEPT ![a] = nonce + 1]
         /\ Len(consumed) \in Nat
         /\ DOMAIN consumed = 1 .. Len(consumed)
         /\ DOMAIN consumed' = 1 .. Len(consumed) + 1
         /\ \A i \in DOMAIN consumed : consumed'[i] = consumed[i]
         /\ consumed'[Len(consumed) + 1] =
              [nft |-> a, nonce |-> nonce, gated |-> NeedsApproval(a, value),
               hash |-> HashOf(a, nonce, target, value)]
         /\ consumed'[Len(consumed) + 1].nft = a
         /\ consumed'[Len(consumed) + 1].nonce = nonce
<1> DEFINE new == [nft |-> a, nonce |-> nonce, gated |-> NeedsApproval(a, value),
                   hash |-> HashOf(a, nonce, target, value)]
<1>1. /\ nonce = agentNonce[a]
      /\ agentNonce' = [agentNonce EXCEPT ![a] = nonce + 1]
  BY DEF ConsumeAction, Consumable, NonceIsCurrent
<1>2. new \in ConsumedAction
  BY HashType DEF NeedsApproval, ConsumedAction
<1>3. consumed \in Seq(ConsumedAction) /\ consumed' = Append(consumed, new)
  BY DEF ConsumeAction, TypeOK
<1> HIDE DEF new
<1>4. /\ Len(consumed) \in Nat
      /\ DOMAIN consumed = 1 .. Len(consumed)
      /\ DOMAIN consumed' = 1 .. Len(consumed) + 1
      /\ \A i \in DOMAIN consumed : consumed'[i] = consumed[i]
      /\ consumed'[Len(consumed) + 1] = new
  BY <1>2, <1>3
<1> QED
  BY <1>1, <1>4 DEF new

-----------------------------------------------------------------------------

(* Every step keeps consumed actions on nonces of their own: consumeAction uses the     *)
(* current nonce, which lies above every nonce used before.                             *)
LEMMA NoReplayStep ==
  ASSUME TypeOK, NoReplay, [Next]_vars
  PROVE  NoReplay'
<1>1. CASE Bystander
  BY <1>1 DEF Bystander, NoReplay
<1>2. ASSUME NEW caller \in Account, NEW a \in Agent, NEW nonce \in 0 .. MaxNonce - 1,
             NEW target \in Target, NEW value \in Amount,
             ConsumeAction(caller, a, nonce, target, value)
      PROVE  NoReplay'
  <2> DEFINE last == Len(consumed) + 1
  <2>1. /\ nonce = agentNonce[a]
        /\ agentNonce' = [agentNonce EXCEPT ![a] = nonce + 1]
        /\ Len(consumed) \in Nat
        /\ DOMAIN consumed = 1 .. Len(consumed)
        /\ DOMAIN consumed' = 1 .. last
        /\ \A i \in DOMAIN consumed : consumed'[i] = consumed[i]
        /\ consumed'[last].nft = a /\ consumed'[last].nonce = nonce
    BY <1>2, ConsumeEffect
  <2>2. /\ nonce \in Nat
        /\ agentNonce \in [Agent -> Nat]
        /\ \A i \in DOMAIN consumed : consumed[i].nft \in Agent /\ consumed[i].nonce \in Nat
    BY EntryType, PolicyEngineAssumption DEF TypeOK
  <2>3. ASSUME NEW i \in DOMAIN consumed'
        PROVE  /\ i # last => i \in DOMAIN consumed /\ consumed'[i] = consumed[i]
               /\ consumed'[i].nonce < agentNonce'[consumed'[i].nft]
    BY <2>1, <2>2 DEF NoReplay
  <2>4. ASSUME NEW i \in DOMAIN consumed', NEW j \in DOMAIN consumed',
               consumed'[i].nft = consumed'[j].nft,
               consumed'[i].nonce = consumed'[j].nonce
        PROVE  i = j
    <3>1. CASE i # last /\ j # last
      BY <2>3, <2>4, <3>1 DEF NoReplay
    <3>2. CASE i = last /\ j # last
      <4>1. consumed[j].nonce < agentNonce[consumed[j].nft]
        BY <2>3, <3>2 DEF NoReplay
      <4>2. consumed[j].nft = a /\ consumed[j].nonce = nonce
        BY <2>1, <2>3, <2>4, <3>2
      <4> QED
        BY <2>1, <2>2, <4>1, <4>2
    <3>3. CASE i # last /\ j = last
      <4>1. consumed[i].nonce < agentNonce[consumed[i].nft]
        BY <2>3, <3>3 DEF NoReplay
      <4>2. consumed[i].nft = a /\ consumed[i].nonce = nonce
        BY <2>1, <2>3, <2>4, <3>3
      <4> QED
        BY <2>1, <2>2, <4>1, <4>2
    <3> QED
      BY <3>1, <3>2, <3>3
  <2> QED
    BY <2>3, <2>4 DEF NoReplay
<1> QED
  BY <1>1, <1>2, StepKinds

(* A consumed action's hash names its nonce, and an approval it needed stays in place.  *)
LEMMA HashesBindNoncesStep ==
  ASSUME TypeOK, HashesBindNonces, [Next]_vars
  PROVE  HashesBindNonces'
<1>0. \A i \in DOMAIN consumed : consumed[i].nft \in Agent
  BY EntryType
<1>1. CASE Bystander
  BY <1>0, <1>1 DEF Bystander, HashesBindNonces
<1>2. ASSUME NEW caller \in Account, NEW a \in Agent, NEW nonce \in 0 .. MaxNonce - 1,
             NEW target \in Target, NEW value \in Amount,
             ConsumeAction(caller, a, nonce, target, value)
      PROVE  HashesBindNonces'
  <2> DEFINE last == Len(consumed) + 1
  <2>1. /\ DOMAIN consumed = 1 .. Len(consumed)
        /\ DOMAIN consumed' = 1 .. last
        /\ Len(consumed) \in Nat
        /\ \A i \in DOMAIN consumed : consumed'[i] = consumed[i]
        /\ consumed'[last] =
             [nft |-> a, nonce |-> nonce, gated |-> NeedsApproval(a, value),
              hash |-> HashOf(a, nonce, target, value)]
    BY <1>2, ConsumeEffect
  <2>2. /\ humanApprovals' = humanApprovals
        /\ NeedsApproval(a, value) =>
             HashOf(a, nonce, target, value) \in humanApprovals[a]
    BY <1>2 DEF ConsumeAction, Consumable
  <2>3. HashOf(a, nonce, target, value).nonce = nonce
    BY DEF HashOf
  <2>4. ASSUME NEW i \in DOMAIN consumed'
        PROVE  /\ consumed'[i].hash.nonce = consumed'[i].nonce
               /\ consumed'[i].gated =>
                    consumed'[i].hash \in humanApprovals'[consumed'[i].nft]
    <3>1. CASE i = last
      BY <2>1, <2>2, <2>3, <3>1
    <3>2. CASE i # last
      BY <2>1, <2>2, <3>2 DEF HashesBindNonces
    <3> QED
      BY <3>1, <3>2
  <2> QED
    BY <2>4 DEF HashesBindNonces
<1> QED
  BY <1>1, <1>2, StepKinds

(* The stored total stays the total of its day, whatever day consumeAction runs on.     *)
LEMMA AccountingStep ==
  ASSUME TypeOK, Accounting, [Next]_vars
  PROVE  Accounting'
<1>1. CASE Bystander
  BY <1>1 DEF Bystander, Accounting, TypeOK, Day
<1>2. ASSUME NEW caller \in Account, NEW a \in Agent, NEW nonce \in 0 .. MaxNonce - 1,
             NEW target \in Target, NEW value \in Amount,
             ConsumeAction(caller, a, nonce, target, value)
      PROVE  Accounting'
  <2>0. \A d \in Day : d \in Nat
    BY PolicyEngineAssumption DEF Day
  <2>1. /\ value \in Nat /\ today \in Day /\ today \in Nat
        /\ spentToday \in [Agent -> Nat] /\ lastResetDay \in [Agent -> Day]
        /\ released \in [Agent -> [Day -> Nat]]
        /\ \A b \in Agent : lastResetDay[b] \in Nat
    BY <2>0, PolicyEngineAssumption DEF TypeOK
  <2>2. /\ spentToday' = [spentToday EXCEPT ![a] = SpentAfter(a, value)]
        /\ lastResetDay' = [lastResetDay EXCEPT ![a] = today]
        /\ released' = [released EXCEPT ![a][today] = @ + value]
        /\ today' = today
    BY <1>2 DEF ConsumeAction
  <2>3. SpentAfter(a, value) = released[a][today] + value
    <3>0. /\ lastResetDay[a] <= today
          /\ spentToday[a] = released[a][lastResetDay[a]]
          /\ \A d \in Day : d > lastResetDay[a] => released[a][d] = 0
      BY Zenon DEF Accounting
    <3>1. CASE lastResetDay[a] = today
      BY <3>0, <3>1 DEF SpentAfter
    <3>2. CASE lastResetDay[a] # today
      <4>0. lastResetDay[a] \in Nat /\ today \in Nat
        BY <2>1
      <4>1. today > lastResetDay[a]
        BY <3>0, <4>0, <3>2
      <4>2. released[a][today] = 0
        BY <2>1, <3>0, <4>1
      <4>3. SpentAfter(a, value) = 0 + value
        BY <3>2 DEF SpentAfter
      <4> QED
        BY <2>1, <4>2, <4>3
    <3> QED
      BY <3>1, <3>2
  <2>4. ASSUME NEW b \in Agent
        PROVE  /\ lastResetDay'[b] <= today'
               /\ spentToday'[b] = released'[b][lastResetDay'[b]]
               /\ \A d \in Day : d > lastResetDay'[b] => released'[b][d] = 0
    <3>1. CASE b = a
      <4>1. /\ lastResetDay'[a] = today
            /\ spentToday'[a] = released[a][today] + value
            /\ released'[a] = [released[a] EXCEPT ![today] = @ + value]
        BY <2>1, <2>2, <2>3
      <4>2. \A d \in Day : d > today => released[a][d] = 0
        <5>1. /\ lastResetDay[a] <= today
              /\ \A d \in Day : d > lastResetDay[a] => released[a][d] = 0
          BY Zenon DEF Accounting
        <5>2. lastResetDay[a] \in Nat /\ today \in Nat
          BY <2>1
        <5> QED
          BY <2>0, <5>1, <5>2
      <4>3. \A d \in Day : d > today => released'[a][d] = 0
        BY <2>0, <2>1, <4>1, <4>2
      <4>4. released'[a][today] = released[a][today] + value
        BY <2>1, <4>1
      <4> QED
        BY <2>1, <2>2, <3>1, <4>1, <4>3, <4>4
    <3>2. CASE b # a
      <4>1. /\ lastResetDay[b] <= today
            /\ spentToday[b] = released[b][lastResetDay[b]]
            /\ \A d \in Day : d > lastResetDay[b] => released[b][d] = 0
        BY Zenon DEF Accounting
      <4>2. /\ lastResetDay'[b] = lastResetDay[b] /\ spentToday'[b] = spentToday[b]
            /\ released'[b] = released[b] /\ today' = today
        BY <2>1, <2>2, <3>2
      <4> QED
        BY <4>1, <4>2
    <3> QED
      BY <3>1, <3>2
  <2> QED
    BY <2>4 DEF Accounting
<1> QED
  BY <1>1, <1>2, StepKinds

-----------------------------------------------------------------------------

LEMMA InitIInv == Init => IInv
<1> SUFFICES ASSUME Init PROVE IInv
  OBVIOUS
<1>1. TypeOK
  BY PolicyEngineAssumption DEF Init, TypeOK, Day, NoPolicy
<1>2. NoReplay /\ HashesBindNonces
  BY DEF Init, NoReplay, HashesBindNonces
<1>3. Accounting
  <2>1. 0 \in Day
    BY PolicyEngineAssumption DEF Day
  <2>2. /\ today = 1
        /\ \A a \in Agent : lastResetDay[a] = 0 /\ spentToday[a] = 0
        /\ \A a \in Agent, d \in Day : released[a][d] = 0
    BY DEF Init
  <2>3. ASSUME NEW a \in Agent
        PROVE  /\ lastResetDay[a] <= today
               /\ spentToday[a] = released[a][lastResetDay[a]]
               /\ \A d \in Day : d > lastResetDay[a] => released[a][d] = 0
    <3>1. lastResetDay[a] = 0 /\ spentToday[a] = 0 /\ released[a][0] = 0
      BY <2>1, <2>2
    <3> QED
      BY <2>2, <3>1
  <2> QED
    BY <2>3 DEF Accounting
<1> QED
  BY <1>1, <1>2, <1>3 DEF IInv

LEMMA StepIInv == IInv /\ [Next]_vars => IInv'
BY TypeStep, NoReplayStep, HashesBindNoncesStep, AccountingStep DEF IInv

LEMMA Invariance == Spec => []IInv
BY InitIInv, StepIInv, PTL DEF Spec

(* However approvals, policies, role changes and days interleave, no two actions of an  *)
(* agent are consumed under one nonce.                                                  *)
THEOREM ReplayFreedom == Spec => []NoReplay
<1>1. IInv => NoReplay
  BY DEF IInv
<1> QED
  BY <1>1, Invariance, PTL

(* An action above the threshold rested on an approval of its own, used for no other.   *)
THEOREM ApprovalsUsedOnce == Spec => []OneApprovalOneAction
<1>1. IInv => OneApprovalOneAction
  BY DEF IInv, NoReplay, HashesBindNonces, OneApprovalOneAction
<1> QED
  BY <1>1, Invariance, PTL

(* What consumeAction takes for the day's total is what was released that day.          *)
THEOREM DayTotals == Spec => []SpentIsDayTotal
<1>1. ASSUME IInv PROVE SpentIsDayTotal
  <2>0. \A d \in Day : d \in Nat
    BY PolicyEngineAssumption DEF Day
  <2>1. /\ today \in Nat /\ today \in Day
        /\ \A a \in Agent : lastResetDay[a] \in Nat
        /\ TypeOK /\ Accounting
    BY <1>1, <2>0 DEF IInv, TypeOK
  <2>2. ASSUME NEW a \in Agent
        PROVE  /\ SpentSoFar(a) = released[a][today]
               /\ \A d \in Day : d > today => released[a][d] = 0
    <3>1. CASE lastResetDay[a] = today
      BY <2>1, <3>1 DEF SpentSoFar, Accounting
    <3>2. CASE lastResetDay[a] # today
      <4>1. today > lastResetDay[a]
        BY <2>1, <3>2 DEF Accounting
      <4> QED
        BY <2>0, <2>1, <3>2, <4>1 DEF SpentSoFar, Accounting
    <3> QED
      BY <3>1, <3>2
  <2> QED
    BY <2>2 DEF SpentIsDayTotal
<1> QED
  BY <1>1, Invariance, PTL

(* The daily limit bounds every release: the cached total the guard reads is the real   *)
(* one, so what is added to it stays within the limit in force at that step.            *)
THEOREM DailyLimitHolds == Spec => WithinDailyLimit
<1>1. ASSUME IInv, SpentIsDayTotal, [Next]_vars PROVE ReleaseWithinLimit
  <2>1. CASE Bystander
    BY <2>1 DEF Bystander, ReleaseWithinLimit
  <2>2. ASSUME NEW caller \in Account, NEW a \in Agent, NEW nonce \in 0 .. MaxNonce - 1,
               NEW target \in Target, NEW value \in Amount,
               ConsumeAction(caller, a, nonce, target, value)
        PROVE  ReleaseWithinLimit
    <3>1. /\ value \in Nat /\ today \in Day /\ released \in [Agent -> [Day -> Nat]]
      BY <1>1, PolicyEngineAssumption DEF IInv, TypeOK
    <3>2. /\ released' = [released EXCEPT ![a][today] = @ + value]
          /\ released[a][today] + value <= policies[a].dailyLimit
      BY <1>1, <2>2 DEF ConsumeAction, Consumable, FitsDailyLimit, SpentIsDayTotal
    <3> QED
      BY <3>1, <3>2 DEF ReleaseWithinLimit
  <2> QED
    BY <1>1, <2>1, <2>2, StepKinds DEF IInv
<1> QED
  BY <1>1, Invariance, DayTotals, PTL DEF Spec, WithinDailyLimit

(* A yes of checkAction is stale only after the agent's policy or allowlist changed or  *)
(* the agent consumed another action: not because of a new day, however the stored      *)
(* total reads on it in either copy of the conditions, of other agents' actions, of     *)
(* approvals or of roles.                                                               *)
THEOREM PreflightKeeps == Spec => PreflightLasts
<1>1. ASSUME IInv, [Next]_vars PROVE PreflightStays
  <2>1. SUFFICES ASSUME NEW a \in Agent, NEW target \in Target, NEW value \in Amount,
                        CheckAction(a, target, value),
                        policies'[a] = policies[a], target \in allowedTargets'[a],
                        agentNonce'[a] = agentNonce[a]
                 PROVE  /\ CheckAction(a, target, value)'
                        /\ Consumable(a, agentNonce[a], target, value)'
    BY Zenon DEF PreflightStays
  <2>2. humanApprovals[a] \subseteq humanApprovals'[a] /\ FitsDailyLimit(a, value)'
    <3>1. CASE Bystander
      <4>1. lastResetDay[a] = today' => lastResetDay[a] = today
        BY <1>1, <3>1, PolicyEngineAssumption DEF IInv, TypeOK, Accounting, Bystander, Day
      <4>2. value \in Nat /\ SpentSoFar(a) \in Nat /\ policies[a].dailyLimit \in Nat
        <5>1. value \in Nat /\ spentToday[a] \in Nat
          BY <1>1, PolicyEngineAssumption DEF IInv, TypeOK
        <5>2. policies[a] \in Policies \cup {NoPolicy}
          BY <1>1 DEF IInv, TypeOK
        <5>3. \A p \in Policies \cup {NoPolicy} : p.dailyLimit \in Nat
          <6>1. \A p \in Policies : p.dailyLimit \in Nat
            BY PolicyEngineAssumption
          <6>. QED
            BY <6>1 DEF NoPolicy
        <5>. QED
          BY <5>1, <5>2, <5>3 DEF SpentSoFar
      <4>3. SpentSoFar(a)' = SpentSoFar(a) \/ SpentSoFar(a)' = 0
        BY <3>1, <4>1 DEF Bystander, SpentSoFar
      <4>. QED
        BY <2>1, <3>1, <4>2, <4>3 DEF Bystander, CheckAction, FitsDailyLimit, SpentSoFar
    <3>2. ASSUME NEW caller \in Account, NEW b \in Agent, NEW nonce \in 0 .. MaxNonce - 1,
                 NEW t \in Target, NEW v \in Amount, ConsumeAction(caller, b, nonce, t, v)
          PROVE  humanApprovals[a] \subseteq humanApprovals'[a] /\ FitsDailyLimit(a, value)'
      <4>1. b # a
        <5>1. agentNonce \in [Agent -> Nat] /\ agentNonce' = [agentNonce EXCEPT ![b] = @ + 1]
          BY <1>1, <3>2 DEF IInv, TypeOK, ConsumeAction
        <5>. QED
          BY <2>1, <5>1
      <4>2. /\ spentToday'[a] = spentToday[a] /\ lastResetDay'[a] = lastResetDay[a]
            /\ today' = today /\ humanApprovals' = humanApprovals
        BY <1>1, <3>2, <4>1 DEF IInv, TypeOK, ConsumeAction
      <4>. QED
        BY <2>1, <4>2 DEF CheckAction, FitsDailyLimit, SpentSoFar
    <3>. QED
      BY <1>1, <3>1, <3>2, StepKinds DEF IInv
  <2>3. CheckAction(a, target, value)'
    BY <2>1, <2>2 DEF CheckAction, FitsDailyLimit, SpentSoFar, ComputeActionHash, HashOf
  <2>4. Consumable(a, agentNonce[a], target, value)'
    BY <2>1, <2>2 DEF CheckAction, Consumable, NonceIsCurrent, NeedsApproval, ComputeActionHash
  <2>. QED
    BY <2>3, <2>4
<1>. QED
  BY <1>1, Invariance, PTL DEF Spec, PreflightLasts
=============================================================================
