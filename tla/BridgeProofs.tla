---------------------------- MODULE BridgeProofs ----------------------------
(***************************************************************************)
(* Theorems about BridgeContract and BridgeLedger, for every set of        *)
(* accounts, deposits, amounts and limits and every bound: first the       *)
(* contract's own invariants, then that it implements PegLedger, then that *)
(* its tokens add up, then what holds of the two comments the runs refute. *)
(***************************************************************************)
EXTENDS BridgeLedger, SumTheorems, SequenceTheorems

-----------------------------------------------------------------------------
(* Division of the clock into days *)

(* A clock that has not passed MaxTime shows a day of the calendar. *)
LEMMA DayOfTime ==
  ASSUME NEW t \in 0 .. MaxTime
  PROVE  t \div DayLength \in Day
<1>1. t \in Nat /\ MaxTime \in Nat /\ DayLength \in Nat /\ DayLength > 0 /\ t <= MaxTime
  BY BridgeAssumption DEF BridgeAssumption
<1>. DEFINE q == t \div DayLength
            r == t % DayLength
            Q == MaxTime \div DayLength
            R == MaxTime % DayLength
<1>2. q \in Int /\ Q \in Int /\ t = DayLength * q + r /\ MaxTime = DayLength * Q + R
      /\ r \in 0 .. DayLength - 1 /\ R \in 0 .. DayLength - 1
  BY <1>1, SMT
<1>3. q >= 0 /\ q <= Q
  BY <1>1, SMT
<1>. QED
  BY <1>2, <1>3 DEF Day

-----------------------------------------------------------------------------
(* Types *)

(* A zero entry of either mapping is a request of the right type. *)
LEMMA NoRequestTypes == NoPegIn \in PegIn /\ NoPegOut \in PegOut
BY DEF NoPegIn, NoPegOut, PegIn, PegOut

(* Everything the constructor leaves behind has its type. *)
LEMMA TypeInit == Init => TypeOK
<1>. SUFFICES ASSUME Init PROVE TypeOK
  OBVIOUS
<1>1. 0 \in Day /\ StartTime \in 0 .. MaxTime
  <2>1. 0 \div DayLength = 0
    BY BridgeAssumption DEF BridgeAssumption
  <2>. QED
    BY <2>1, DayOfTime, BridgeAssumption DEF BridgeAssumption
<1>2. roles \in [Role -> SUBSET Account] /\ paused \in BOOLEAN
  BY BridgeAssumption DEF Init, BridgeAssumption
<1>3. requiredConfirmations \in Nat /\ relayerCount \in Nat /\ limits \in Nat \X Nat
  BY BridgeAssumption DEF Init, BridgeAssumption
<1>4. withdrawnToday \in Nat /\ lastResetDay \in Day /\ redeemedOn \in [Day -> Nat]
  BY <1>1 DEF Init
<1>5. pegInRequests \in [Deposit -> PegIn] /\ pegOutRequests \in [PegOutId -> PegOut]
  BY NoRequestTypes DEF Init
<1>6. nextPegOutId \in 0 .. MaxPegOuts
  BY BridgeAssumption DEF Init, BridgeAssumption
<1>. QED
  BY <1>1, <1>2, <1>3, <1>4, <1>5, <1>6, BridgeAssumption
  DEF Init, TypeOK, BridgeAssumption

(* A payment within the sender's balance leaves every balance a natural number. *)
LEMMA MovedType ==
  ASSUME balanceOf \in [Holder -> Nat], NEW from \in Holder, NEW to \in Holder,
         NEW value \in Nat, value <= balanceOf[from]
  PROVE  Moved(from, to, value) \in [Holder -> Nat]
BY DEF Moved

(* What a confirmation leaves of a deposit's request has the right type. *)
LEMMA ConfirmedPegInType ==
  ASSUME NEW req \in PegIn, NEW recipient \in Account \cup {Zero}, NEW amount \in Nat
  PROVE  ConfirmedPegIn(req, recipient, amount) \in PegIn
BY DEF ConfirmedPegIn, PegIn, Quorum

(* What a confirmation leaves of a redemption request has the right type, counts one    *)
(* more and is executed exactly when the quorum is reached.                             *)
LEMMA ConfirmedPegOutType ==
  ASSUME NEW req \in PegOut
  PROVE  /\ ConfirmedPegOut(req) \in PegOut
         /\ ConfirmedPegOut(req).confirmations = req.confirmations + 1
         /\ ConfirmedPegOut(req).executed = Quorum(req.confirmations + 1)
<1>. DEFINE n == req.confirmations + 1
            out == ConfirmedPegOut(req)
<1>1. n \in Nat /\ Quorum(n) \in BOOLEAN
  BY DEF PegOut, Quorum
<1>. HIDE DEF n
<1>2. out = [req EXCEPT !.confirmations = n, !.executed = Quorum(n)]
  BY DEF ConfirmedPegOut, n
<1>3. /\ out \in PegOut
      /\ out.confirmations = n
      /\ out.executed = Quorum(n)
  BY <1>1, <1>2, Zenon DEF PegOut
<1>. QED
  BY <1>3 DEF n

(* Whatever step is taken, the state keeps its type. *)
LEMMA TypeStep == TypeOK /\ [Next]_vars => TypeOK'
<1>. SUFFICES ASSUME TypeOK, [Next]_vars PROVE TypeOK'
  OBVIOUS
<1>. USE DEF config, daily, pegIns, pegOuts, token
<1>1. CASE Tick
  BY <1>1, BridgeAssumption DEF TypeOK, Tick, BridgeAssumption
<1>2. ASSUME NEW caller \in Account, NEW d \in Deposit, NEW claim \in Claim,
             ConfirmPegIn(caller, d, claim[1], claim[2])
      PROVE  TypeOK'
  <2>. DEFINE req == ConfirmedPegIn(pegInRequests[d], claim[1], claim[2])
  <2>1. claim[1] \in Account \cup {Zero} /\ claim[2] \in Nat
    BY BridgeAssumption DEF BridgeAssumption
  <2>2. req \in PegIn
    BY <2>1, ConfirmedPegInType DEF TypeOK
  <2>3. pegInRequests' \in [Deposit -> PegIn]
    BY <1>2, <2>2 DEF ConfirmPegIn, TypeOK
  <2>4. pegInConfirmedBy' \in [Deposit -> SUBSET Account]
    BY <1>2 DEF ConfirmPegIn, TypeOK
  <2>5. attested' \in [Deposit -> SUBSET Attestation]
    <3>1. [relayer |-> caller, recipient |-> claim[1], amount |-> claim[2]] \in Attestation
      BY <2>1 DEF Attestation
    <3>. QED
      BY <1>2, <3>1 DEF ConfirmPegIn, TypeOK
  <2>6. balanceOf' \in [Holder -> Nat]
    <3>1. CASE balanceOf' = balanceOf
      BY <3>1 DEF TypeOK
    <3>2. CASE /\ req.amount <= balanceOf[Bridge]
               /\ balanceOf' = Moved(Bridge, req.recipient, req.amount)
      <4>1. req.recipient \in Holder /\ req.amount \in Nat /\ Bridge \in Holder
        BY <2>2 DEF PegIn, Holder
      <4>. QED
        BY <3>2, <4>1, MovedType DEF TypeOK
    <3>. QED
      BY <1>2, <3>1, <3>2 DEF ConfirmPegIn
  <2>. QED
    BY <1>2, <2>3, <2>4, <2>5, <2>6 DEF ConfirmPegIn, TypeOK
<1>3. ASSUME NEW caller \in User, NEW amount \in Amount, TokenApprove(caller, amount)
      PROVE  TypeOK'
  BY <1>3, BridgeAssumption DEF TypeOK, TokenApprove, BridgeAssumption
<1>4. ASSUME NEW caller \in User, NEW amount \in Amount, RequestPegOut(caller, amount)
      PROVE  TypeOK'
  <2>1. caller \in Account /\ caller \in Holder /\ Bridge \in Holder /\ amount \in Nat
    BY BridgeAssumption DEF BridgeAssumption, Holder
  <2>2. nextPegOutId \in PegOutId /\ nextPegOutId' \in 0 .. MaxPegOuts
    BY <1>4, BridgeAssumption DEF RequestPegOut, TypeOK, PegOutId, BridgeAssumption
  <2>3. balanceOf' \in [Holder -> Nat]
    BY <1>4, <2>1, MovedType DEF RequestPegOut, TypeOK
  <2>4. allowance' \in [Account -> Nat]
    BY <1>4, <2>1 DEF RequestPegOut, TypeOK
  <2>5. pegOutRequests' \in [PegOutId -> PegOut]
    <3>1. [requester |-> caller, amount |-> amount, confirmations |-> 0,
           requestedAt |-> now, executed |-> FALSE] \in PegOut
      BY <2>1 DEF TypeOK, PegOut
    <3>. QED
      BY <1>4, <2>2, <3>1 DEF RequestPegOut, TypeOK
  <2>. QED
    BY <1>4, <2>2, <2>3, <2>4, <2>5 DEF RequestPegOut, TypeOK
<1>5. ASSUME NEW caller \in User, NEW to \in User \cup {Bridge}, NEW amount \in Amount,
             TokenTransfer(caller, to, amount)
      PROVE  TypeOK'
  <2>1. caller \in Holder /\ to \in Holder /\ amount \in Nat
    BY BridgeAssumption DEF BridgeAssumption, Holder
  <2>2. balanceOf' \in [Holder -> Nat]
    BY <1>5, <2>1, MovedType DEF TokenTransfer, TypeOK
  <2>. QED
    BY <1>5, <2>2 DEF TokenTransfer, TypeOK
<1>6. ASSUME NEW caller \in Account, NEW id \in PegOutId, ConfirmPegOut(caller, id)
      PROVE  TypeOK'
  <2>0. pegOutRequests[id] \in PegOut /\ pegOutRequests[id].amount \in Nat
    BY DEF TypeOK, PegOut
  <2>1. pegOutConfirmedBy' \in [PegOutId -> SUBSET Account]
    BY <1>6 DEF ConfirmPegOut, TypeOK
  <2>2. pegOutRequests' \in [PegOutId -> PegOut]
    BY <1>6, <2>0, ConfirmedPegOutType DEF ConfirmPegOut, TypeOK
  <2>3. withdrawnToday' \in Nat /\ lastResetDay' \in Day /\ redeemedOn' \in [Day -> Nat]
    <3>1. CASE UNCHANGED daily
      BY <3>1 DEF TypeOK
    <3>2. CASE ExecutePegOut(id)
      <4>1. today \in Day
        BY DayOfTime DEF TypeOK, today
      <4>. QED
        BY <3>2, <4>1, <2>0 DEF ExecutePegOut, WithdrawnSoFar, TypeOK
    <3>. QED
      BY <1>6, <3>1, <3>2 DEF ConfirmPegOut
  <2>. QED
    BY <1>6, <2>1, <2>2, <2>3 DEF ConfirmPegOut, TypeOK
<1>7. ASSUME NEW caller \in Account, NEW threshold \in 0 .. MaxCount,
             SetThreshold(caller, threshold)
      PROVE  TypeOK'
  BY <1>7, BridgeAssumption DEF SetThreshold, TypeOK, BridgeAssumption
<1>8. ASSUME NEW caller \in Account, NEW newLimits \in Limits, SetLimits(caller, newLimits)
      PROVE  TypeOK'
  BY <1>8, BridgeAssumption DEF SetLimits, TypeOK, BridgeAssumption
<1>9. ASSUME NEW caller \in Account, NEW grant \in Grantable,
             \/ GrantRole(caller, grant[1], grant[2])
             \/ RevokeRole(caller, grant[1], grant[2])
             \/ grant[1] = "RELAYER" /\ AddRelayer(caller, grant[2])
             \/ grant[1] = "RELAYER" /\ RemoveRelayer(caller, grant[2])
      PROVE  TypeOK'
  <2>1. grant[1] \in Role /\ grant[2] \in Account /\ "RELAYER" \in Role
    BY BridgeAssumption DEF BridgeAssumption, Role
  <2>2. roles' \in [Role -> SUBSET Account] /\ relayerCount' \in Nat
    BY <1>9, <2>1 DEF GrantRole, RevokeRole, AddRelayer, RemoveRelayer, TypeOK
  <2>. QED
    BY <1>9, <2>2 DEF GrantRole, RevokeRole, AddRelayer, RemoveRelayer, TypeOK
<1>10. ASSUME NEW caller \in Account, Pause(caller) \/ Unpause(caller)
       PROVE  TypeOK'
  BY <1>10 DEF Pause, Unpause, TypeOK
<1>11. CASE UNCHANGED vars
  BY <1>11 DEF vars, TypeOK, WithdrawnSoFar
<1>. QED
  BY <1>1, <1>2, <1>3, <1>4, <1>5, <1>6, <1>7, <1>8, <1>9, <1>10, <1>11 DEF Next

(* Every reachable state has its type: no balance, allowance or count ever turns        *)
(* negative, and every payment goes to an address of the model.                         *)
THEOREM TypeCorrect == Spec => []TypeOK
<1>1. Init => TypeOK
  BY TypeInit
<1>2. TypeOK /\ [Next]_vars => TypeOK'
  BY TypeStep
<1>. QED
  BY <1>1, <1>2, PTL DEF Spec

-----------------------------------------------------------------------------
(* The inductive invariant *)

(* The stored total belongs to lastResetDay, which is not after today, and nothing has  *)
(* been redeemed on a later day: what is left of the daily accounts when days pass      *)
(* without an execution.                                                                *)
DailyAccounts ==
  /\ lastResetDay <= today
  /\ withdrawnToday = redeemedOn[lastResetDay]
  /\ \A d \in Day : d > lastResetDay => redeemedOn[d] = 0

IInv == TypeOK /\ ThresholdWithinCount /\ ConfirmationsAreDistinct /\ DailyAccounts

AdminStep == UNCHANGED <<daily, pegIns, pegOuts, now>>

(* Confirmations, requests and ticks leave the relayer set, the threshold and the       *)
(* limits alone, and every other step leaves requests, daily accounts and clock alone.  *)
LEMMA StepKinds ==
  ASSUME [Next]_vars
  PROVE  \/ /\ \/ \E caller \in Account, d \in Deposit, claim \in Claim :
                     ConfirmPegIn(caller, d, claim[1], claim[2])
               \/ \E caller \in User, amount \in Amount : RequestPegOut(caller, amount)
               \/ \E caller \in Account, id \in PegOutId : ConfirmPegOut(caller, id)
               \/ Tick
            /\ UNCHANGED config
         \/ AdminStep
<1>. USE DEF AdminStep, config, daily, pegIns, pegOuts, token
<1>1. ASSUME NEW caller \in Account, NEW d \in Deposit, NEW claim \in Claim,
             ConfirmPegIn(caller, d, claim[1], claim[2])
      PROVE  UNCHANGED config
  BY <1>1 DEF ConfirmPegIn
<1>2. ASSUME NEW caller \in User, NEW amount \in Amount, RequestPegOut(caller, amount)
      PROVE  UNCHANGED config
  BY <1>2 DEF RequestPegOut
<1>3. ASSUME NEW caller \in Account, NEW id \in PegOutId, ConfirmPegOut(caller, id)
      PROVE  UNCHANGED config
  BY <1>3 DEF ConfirmPegOut
<1>4. CASE Tick
  BY <1>4 DEF Tick
<1>5. ASSUME NEW caller \in User, NEW amount \in Amount,
             \/ TokenApprove(caller, amount)
             \/ \E to \in User \cup {Bridge} : TokenTransfer(caller, to, amount)
      PROVE  AdminStep
  BY <1>5 DEF TokenApprove, TokenTransfer
<1>6. ASSUME NEW caller \in Account, NEW grant \in Grantable,
             \/ GrantRole(caller, grant[1], grant[2])
             \/ RevokeRole(caller, grant[1], grant[2])
             \/ grant[1] = "RELAYER" /\ AddRelayer(caller, grant[2])
             \/ grant[1] = "RELAYER" /\ RemoveRelayer(caller, grant[2])
      PROVE  AdminStep
  BY <1>6 DEF GrantRole, RevokeRole, AddRelayer, RemoveRelayer
<1>7. ASSUME NEW caller \in Account,
             \/ \E threshold \in 0 .. MaxCount : SetThreshold(caller, threshold)
             \/ \E newLimits \in Limits : SetLimits(caller, newLimits)
             \/ Pause(caller)
             \/ Unpause(caller)
      PROVE  AdminStep
  BY <1>7 DEF SetThreshold, SetLimits, Pause, Unpause
<1>8. CASE UNCHANGED vars
  BY <1>8 DEF vars
<1>9. CASE Next
  BY <1>1, <1>2, <1>3, <1>4, <1>5, <1>6, <1>7, <1>9 DEF Next
<1>. QED
  BY <1>8, <1>9

(* addRelayer, removeRelayer and setThreshold keep the threshold within the count, and  *)
(* nothing else touches either.                                                         *)
LEMMA ThresholdStep ==
  ASSUME TypeOK, ThresholdWithinCount, [Next]_vars
  PROVE  ThresholdWithinCount'
<1>. USE DEF config, daily, pegIns, pegOuts, token, ThresholdWithinCount
<1>1. CASE UNCHANGED config
  BY <1>1
<1>2. ASSUME NEW caller \in Account, NEW threshold \in 0 .. MaxCount,
             SetThreshold(caller, threshold)
      PROVE  ThresholdWithinCount'
  BY <1>2, BridgeAssumption DEF SetThreshold, ThresholdAllowed, TypeOK, BridgeAssumption
<1>3. ASSUME NEW caller \in Account, NEW grant \in Grantable,
             \/ GrantRole(caller, grant[1], grant[2])
             \/ RevokeRole(caller, grant[1], grant[2])
             \/ grant[1] = "RELAYER" /\ AddRelayer(caller, grant[2])
             \/ grant[1] = "RELAYER" /\ RemoveRelayer(caller, grant[2])
      PROVE  ThresholdWithinCount'
  BY <1>3 DEF GrantRole, RevokeRole, AddRelayer, RemoveRelayer, TypeOK
<1>4. ASSUME NEW caller \in Account,
             \/ \E newLimits \in Limits : SetLimits(caller, newLimits)
             \/ Pause(caller)
             \/ Unpause(caller)
      PROVE  ThresholdWithinCount'
  BY <1>4 DEF SetLimits, Pause, Unpause
<1>5. ASSUME NEW caller \in User, NEW amount \in Amount,
             \/ TokenApprove(caller, amount)
             \/ \E to \in User \cup {Bridge} : TokenTransfer(caller, to, amount)
             \/ RequestPegOut(caller, amount)
      PROVE  UNCHANGED config
  BY <1>5 DEF TokenApprove, TokenTransfer, RequestPegOut
<1>6. ASSUME NEW caller \in Account,
             \/ \E d \in Deposit, claim \in Claim :
                  ConfirmPegIn(caller, d, claim[1], claim[2])
             \/ \E id \in PegOutId : ConfirmPegOut(caller, id)
      PROVE  UNCHANGED config
  BY <1>6 DEF ConfirmPegIn, ConfirmPegOut
<1>7. Tick \/ UNCHANGED vars => UNCHANGED config
  BY DEF Tick, vars
<1>. QED
  BY <1>1, <1>2, <1>3, <1>4, <1>5, <1>6, <1>7 DEF Next

(* A relayer that has not confirmed yet makes the set of confirmers one larger.         *)
LEMMA OneMore ==
  ASSUME NEW S \in SUBSET Account, NEW relayer \in Account, NotYetConfirmed(relayer, S)
  PROVE  Cardinality(S) \in Nat /\ Cardinality(S \cup {relayer}) = Cardinality(S) + 1
<1>1. IsFiniteSet(S)
  BY FS_Subset, FiniteAssumption
<1>. QED
  BY <1>1, FS_AddElement, FS_CardinalityType DEF NotYetConfirmed

(* What a deposit's confirmation does to its request and its confirmers.                *)
LEMMA PegInConfirmed ==
  ASSUME TypeOK, ConfirmationsAreDistinct,
         NEW caller \in Account, NEW d \in Deposit, NEW claim \in Claim,
         ConfirmPegIn(caller, d, claim[1], claim[2])
  PROVE  /\ pegInRequests'[d].confirmations = Cardinality(pegInConfirmedBy'[d])
         /\ pegInRequests'[d].executed = Quorum(pegInRequests'[d].confirmations)
         /\ \A e \in Deposit \ {d} : /\ pegInRequests'[e] = pegInRequests[e]
                                     /\ pegInConfirmedBy'[e] = pegInConfirmedBy[e]
         /\ UNCHANGED <<pegOuts, daily, now>>
<1>. DEFINE req == ConfirmedPegIn(pegInRequests[d], claim[1], claim[2])
<1>1. pegInRequests' = [pegInRequests EXCEPT ![d] = req]
      /\ pegInConfirmedBy' = [pegInConfirmedBy EXCEPT ![d] = pegInConfirmedBy[d] \cup {caller}]
      /\ UNCHANGED <<pegOuts, daily, now>>
  BY DEF ConfirmPegIn
<1>2. /\ req.confirmations = pegInRequests[d].confirmations + 1
      /\ req.executed = Quorum(req.confirmations)
  BY DEF ConfirmedPegIn
<1>3. pegInRequests \in [Deposit -> PegIn] /\ pegInConfirmedBy \in [Deposit -> SUBSET Account]
  BY DEF TypeOK
<1>4. pegInRequests'[d] = req /\ pegInConfirmedBy'[d] = pegInConfirmedBy[d] \cup {caller}
  BY <1>1, <1>3
<1>5. Cardinality(pegInConfirmedBy'[d]) = Cardinality(pegInConfirmedBy[d]) + 1
  <2>1. NotYetConfirmed(caller, pegInConfirmedBy[d])
    BY DEF ConfirmPegIn
  <2>. QED
    BY <2>1, <1>3, <1>4, OneMore
<1>6. pegInRequests[d].confirmations = Cardinality(pegInConfirmedBy[d])
  BY DEF ConfirmationsAreDistinct
<1>. QED
  BY <1>1, <1>2, <1>3, <1>4, <1>5, <1>6

(* What a redemption's confirmation does to its request and its confirmers.             *)
LEMMA PegOutConfirmed ==
  ASSUME TypeOK, ConfirmationsAreDistinct,
         NEW caller \in Account, NEW id \in PegOutId, ConfirmPegOut(caller, id)
  PROVE  /\ pegOutRequests'[id].confirmations <= Cardinality(pegOutConfirmedBy'[id])
         /\ pegOutRequests'[id].confirmations \in Nat
         /\ Cardinality(pegOutConfirmedBy'[id]) \in Nat
         /\ pegOutRequests'[id].executed = Quorum(pegOutRequests'[id].confirmations)
         /\ \A e \in PegOutId \ {id} : /\ pegOutRequests'[e] = pegOutRequests[e]
                                       /\ pegOutConfirmedBy'[e] = pegOutConfirmedBy[e]
         /\ UNCHANGED <<pegIns, now>>
<1>. DEFINE req == ConfirmedPegOut(pegOutRequests[id])
<1>1. pegOutRequests' = [pegOutRequests EXCEPT ![id] = req]
      /\ pegOutConfirmedBy' = [pegOutConfirmedBy EXCEPT ![id] = pegOutConfirmedBy[id] \cup {caller}]
      /\ UNCHANGED <<pegIns, now>>
  BY DEF ConfirmPegOut
<1>2. pegOutRequests \in [PegOutId -> PegOut] /\ pegOutConfirmedBy \in [PegOutId -> SUBSET Account]
  BY DEF TypeOK
<1>3. pegOutRequests'[id] = req /\ pegOutConfirmedBy'[id] = pegOutConfirmedBy[id] \cup {caller}
  BY <1>1, <1>2
<1>4. /\ req.confirmations = pegOutRequests[id].confirmations + 1
      /\ req.executed = Quorum(req.confirmations)
      /\ pegOutRequests[id].confirmations \in Nat
  BY <1>2, ConfirmedPegOutType DEF PegOut
<1>5. /\ Cardinality(pegOutConfirmedBy[id]) \in Nat
      /\ Cardinality(pegOutConfirmedBy'[id]) = Cardinality(pegOutConfirmedBy[id]) + 1
  <2>1. NotYetConfirmed(caller, pegOutConfirmedBy[id])
    BY DEF ConfirmPegOut
  <2>. QED
    BY <2>1, <1>2, <1>3, OneMore
<1>6. pegOutRequests[id].confirmations <= Cardinality(pegOutConfirmedBy[id])
  BY DEF ConfirmationsAreDistinct
<1>7. \A e \in PegOutId \ {id} : /\ pegOutRequests'[e] = pegOutRequests[e]
                                 /\ pegOutConfirmedBy'[e] = pegOutConfirmedBy[e]
  BY <1>1, <1>2
<1>. QED
  BY <1>1, <1>3, <1>4, <1>5, <1>6, <1>7

(* What a request does: a fresh, unexecuted and unconfirmed entry, and no other.        *)
LEMMA PegOutRequested ==
  ASSUME TypeOK, NEW user \in User, NEW amount \in Amount, RequestPegOut(user, amount)
  PROVE  /\ \A e \in PegOutId :
              \/ pegOutRequests'[e].confirmations = 0 /\ pegOutRequests'[e].executed = FALSE
              \/ pegOutRequests'[e] = pegOutRequests[e]
         /\ UNCHANGED <<pegOutConfirmedBy, pegIns, daily, now>>
BY DEF RequestPegOut, TypeOK

(* The counters go on counting distinct confirmers.                                     *)
LEMMA ConfirmationsStep ==
  ASSUME TypeOK, ConfirmationsAreDistinct, [Next]_vars
  PROVE  ConfirmationsAreDistinct'
<1>1. ASSUME NEW caller \in Account, NEW d \in Deposit, NEW claim \in Claim,
             ConfirmPegIn(caller, d, claim[1], claim[2])
      PROVE  ConfirmationsAreDistinct'
  BY <1>1, PegInConfirmed DEF ConfirmationsAreDistinct, pegOuts
<1>2. ASSUME NEW user \in User, NEW amount \in Amount, RequestPegOut(user, amount)
      PROVE  ConfirmationsAreDistinct'
  <2>1. \A e \in PegOutId : Cardinality(pegOutConfirmedBy[e]) \in Nat
    <3>1. \A e \in PegOutId : IsFiniteSet(pegOutConfirmedBy[e])
      BY FS_Subset, FiniteAssumption DEF TypeOK
    <3>. QED
      BY <3>1, FS_CardinalityType
  <2>. QED
    <3>1. /\ \A e \in PegOutId :
               \/ pegOutRequests'[e].confirmations = 0
               \/ pegOutRequests'[e] = pegOutRequests[e]
          /\ UNCHANGED <<pegOutConfirmedBy, pegInRequests, pegInConfirmedBy>>
      BY <1>2, PegOutRequested DEF pegIns
    <3>2. \A e \in PegOutId :
            pegOutRequests'[e].confirmations <= Cardinality(pegOutConfirmedBy'[e])
      BY <2>1, <3>1 DEF ConfirmationsAreDistinct
    <3>. QED
      BY <3>1, <3>2 DEF ConfirmationsAreDistinct
<1>3. ASSUME NEW caller \in Account, NEW id \in PegOutId, ConfirmPegOut(caller, id)
      PROVE  ConfirmationsAreDistinct'
  BY <1>3, PegOutConfirmed DEF ConfirmationsAreDistinct, pegIns
<1>4. Tick \/ AdminStep => ConfirmationsAreDistinct'
  BY DEF Tick, AdminStep, ConfirmationsAreDistinct, pegIns, pegOuts
<1>. QED
  BY <1>1, <1>2, <1>3, <1>4, StepKinds

(* Later times show later days.                                                         *)
LEMMA DaysAdvance ==
  ASSUME TypeOK, Tick
  PROVE  today <= today' /\ today \in Day /\ today' \in Day
<1>1. now \in Nat /\ now' = now + 1 /\ DayLength \in Nat /\ DayLength > 0
      /\ now \in 0 .. MaxTime /\ now' \in 0 .. MaxTime
  BY BridgeAssumption DEF Tick, TypeOK, BridgeAssumption
<1>2. now \div DayLength <= now' \div DayLength
  <2>. DEFINE q == now \div DayLength
              r == now % DayLength
              Q == (now + 1) \div DayLength
              R == (now + 1) % DayLength
  <2>1. q \in Int /\ Q \in Int /\ now = DayLength * q + r /\ now + 1 = DayLength * Q + R
        /\ r \in 0 .. DayLength - 1 /\ R \in 0 .. DayLength - 1
    BY <1>1, SMT
  <2>2. q <= Q
    BY <1>1, SMT
  <2>. QED
    BY <1>1, <2>2
<1>. QED
  BY <1>1, <1>2, DayOfTime DEF today

(* The daily accounts agree with what was redeemed, whoever redeems and however many    *)
(* days pass.                                                                           *)
LEMMA AccountsStep ==
  ASSUME TypeOK, ConfirmationsAreDistinct, DailyAccounts, [Next]_vars
  PROVE  DailyAccounts'
<1>0. today \in Day /\ today \in Int /\ Day \subseteq Nat
  BY DayOfTime DEF TypeOK, today, Day
<1>1. CASE Tick
  <2>1. today <= today' /\ today' \in Int /\ lastResetDay \in Int
    <3>1. today <= today' /\ today' \in Day
      BY <1>1, DaysAdvance
    <3>2. lastResetDay \in Day
      BY DEF TypeOK
    <3>. QED
      BY <1>0, <3>1, <3>2
  <2>. QED
    BY <1>0, <1>1, <2>1 DEF Tick, DailyAccounts, daily
<1>2. ASSUME NEW caller \in Account, NEW id \in PegOutId, ConfirmPegOut(caller, id)
      PROVE  DailyAccounts'
  <2>1. today' = today
    BY <1>2 DEF ConfirmPegOut, today
  <2>2. CASE UNCHANGED daily
    BY <2>1, <2>2 DEF DailyAccounts, daily
  <2>3. CASE ExecutePegOut(id)
    <3>. DEFINE amount == pegOutRequests[id].amount
    <3>1. amount \in Nat
      BY DEF TypeOK, PegOut
    <3>2. redeemedOn \in [Day -> Nat] /\ lastResetDay \in Day /\ withdrawnToday \in Nat
      BY DEF TypeOK
    <3>3. WithdrawnSoFar = redeemedOn[today]
      BY <1>0, <3>2 DEF WithdrawnSoFar, DailyAccounts
    <3>4. /\ lastResetDay' = today
          /\ withdrawnToday' = redeemedOn[today] + amount
          /\ redeemedOn' = [redeemedOn EXCEPT ![today] = redeemedOn[today] + amount]
      BY <2>3, <3>3 DEF ExecutePegOut
    <3>. HIDE DEF amount
    <3>5. \A d \in Day : d > today => redeemedOn'[d] = 0
      BY <1>0, <3>2, <3>4 DEF DailyAccounts
    <3>. QED
      BY <1>0, <2>1, <3>1, <3>2, <3>4, <3>5 DEF DailyAccounts
  <2>. QED
    BY <1>2, <2>2, <2>3 DEF ConfirmPegOut
<1>3. UNCHANGED <<daily, now>> => DailyAccounts'
  BY DEF DailyAccounts, daily, today
<1>4. ASSUME NEW caller \in Account, NEW d \in Deposit, NEW claim \in Claim,
             ConfirmPegIn(caller, d, claim[1], claim[2])
      PROVE  UNCHANGED <<daily, now>>
  BY <1>4 DEF ConfirmPegIn
<1>5. ASSUME NEW user \in User, NEW amount \in Amount, RequestPegOut(user, amount)
      PROVE  UNCHANGED <<daily, now>>
  BY <1>5 DEF RequestPegOut
<1>. QED
  BY <1>1, <1>2, <1>3, <1>4, <1>5, StepKinds DEF AdminStep

(* The deployment satisfies the inductive invariant.                                    *)
LEMMA InitIInv == Init => IInv
<1>. SUFFICES ASSUME Init PROVE IInv
  OBVIOUS
<1>1. TypeOK
  BY TypeInit
<1>2. ThresholdWithinCount
  BY BridgeAssumption DEF Init, ThresholdWithinCount, BridgeAssumption
<1>3. ConfirmationsAreDistinct
  BY FS_EmptySet DEF Init, ConfirmationsAreDistinct, NoPegIn, NoPegOut
<1>4. DailyAccounts
  <2>1. today \in Day /\ lastResetDay \in Day
    BY <1>1, DayOfTime DEF TypeOK, today
  <2>. QED
    BY <2>1 DEF Init, DailyAccounts, Day
<1>. QED
  BY <1>1, <1>2, <1>3, <1>4 DEF IInv

(* The invariant is inductive, and so holds for ever.                                   *)
LEMMA Invariance == Spec => []IInv
<1>1. Init => IInv
  BY InitIInv
<1>2. IInv /\ [Next]_vars => IInv'
  BY TypeStep, ThresholdStep, ConfirmationsStep, AccountsStep DEF IInv
<1>. QED
  BY <1>1, <1>2, PTL DEF Spec

-----------------------------------------------------------------------------
(* Safety *)

(* The threshold stays between 1 and the contract's count of relayers, for every        *)
(* sequence of addRelayer, removeRelayer, setThreshold and of grants that bypass them.  *)
THEOREM ThresholdHolds == Spec => []ThresholdWithinCount
<1>1. IInv => ThresholdWithinCount
  BY DEF IInv
<1>. QED
  BY <1>1, Invariance, PTL

(* Confirmation counters count distinct accounts.                                       *)
THEOREM DistinctConfirmations == Spec => []ConfirmationsAreDistinct
<1>1. IInv => ConfirmationsAreDistinct
  BY DEF IInv
<1>. QED
  BY <1>1, Invariance, PTL

(* The lazily reset daily total is the day's total.                                     *)
THEOREM DayTotal == Spec => []WithdrawnIsDayTotal
<1>1. IInv => WithdrawnIsDayTotal
  <2>. SUFFICES ASSUME IInv PROVE WithdrawnSoFar = redeemedOn[today]
    BY DEF WithdrawnIsDayTotal
  <2>1. today \in Day /\ lastResetDay \in Day /\ Day \subseteq Nat
    BY DayOfTime DEF IInv, TypeOK, today, Day
  <2>. QED
    BY <2>1 DEF IInv, DailyAccounts, WithdrawnSoFar
<1>. QED
  BY <1>1, Invariance, PTL

QuorumStep ==
  /\ \A d \in Deposit :
       pegInRequests'[d].executed /\ ~pegInRequests[d].executed =>
         Cardinality(pegInConfirmedBy'[d]) >= requiredConfirmations
  /\ \A id \in PegOutId :
       pegOutRequests'[id].executed /\ ~pegOutRequests[id].executed =>
         Cardinality(pegOutConfirmedBy'[id]) >= requiredConfirmations

(* A step that executes a request has a quorum of distinct relayers behind it.          *)
LEMMA QuorumLemma ==
  ASSUME IInv, [Next]_vars
  PROVE  QuorumStep
<1>. USE DEF IInv
<1>1. ASSUME NEW caller \in Account, NEW d \in Deposit, NEW claim \in Claim,
             ConfirmPegIn(caller, d, claim[1], claim[2])
      PROVE  QuorumStep
  BY <1>1, PegInConfirmed DEF QuorumStep, Quorum, pegOuts
<1>2. ASSUME NEW user \in User, NEW amount \in Amount, RequestPegOut(user, amount)
      PROVE  QuorumStep
  BY <1>2, PegOutRequested DEF QuorumStep, pegIns
<1>3. ASSUME NEW caller \in Account, NEW id \in PegOutId, ConfirmPegOut(caller, id)
      PROVE  QuorumStep
  <2>1. requiredConfirmations \in Nat
    BY DEF TypeOK
  <2>2. pegOutRequests'[id].executed =>
          Cardinality(pegOutConfirmedBy'[id]) >= requiredConfirmations
    <3>. DEFINE n == pegOutRequests'[id].confirmations
                k == Cardinality(pegOutConfirmedBy'[id])
    <3>1. n <= k /\ n \in Nat /\ k \in Nat
          /\ pegOutRequests'[id].executed = Quorum(n)
      BY <1>3, PegOutConfirmed
    <3>2. ASSUME Quorum(n) PROVE k >= requiredConfirmations
      <4>1. n >= requiredConfirmations
        BY <3>2 DEF Quorum
      <4>. HIDE DEF n, k
      <4>. QED
        BY <2>1, <3>1, <4>1
    <3>. QED
      BY <3>1, <3>2
  <2>3. /\ pegInRequests' = pegInRequests
        /\ \A e \in PegOutId \ {id} : pegOutRequests'[e] = pegOutRequests[e]
    <3>1. UNCHANGED pegIns
      BY <1>3 DEF ConfirmPegOut
    <3>2. \A e \in PegOutId \ {id} : pegOutRequests'[e] = pegOutRequests[e]
      BY <1>3, PegOutConfirmed
    <3>. QED
      BY <3>1, <3>2 DEF pegIns
  <2>. QED
    BY <2>2, <2>3 DEF QuorumStep
<1>4. Tick \/ AdminStep => QuorumStep
  BY DEF Tick, AdminStep, QuorumStep, pegIns, pegOuts
<1>. QED
  BY <1>1, <1>2, <1>3, <1>4, StepKinds

(* Nothing is released or redeemed on fewer distinct relayers than the threshold.       *)
THEOREM QuorumHolds == Spec => QuorumAtExecution
<1>1. IInv /\ [Next]_vars => [QuorumStep]_vars
  BY QuorumLemma
<1>. QED
  BY <1>1, Invariance, PTL DEF Spec, QuorumAtExecution, QuorumStep

LimitStep == redeemedOn' # redeemedOn => redeemedOn'[today] <= limits[2]

(* A step that redeems leaves the day's total within the daily limit.                   *)
LEMMA LimitLemma ==
  ASSUME IInv, [Next]_vars
  PROVE  LimitStep
<1>1. ASSUME NEW caller \in Account, NEW id \in PegOutId, ConfirmPegOut(caller, id),
             ExecutePegOut(id)
      PROVE  LimitStep
  <2>1. today \in Day /\ lastResetDay \in Day /\ redeemedOn \in [Day -> Nat]
        /\ Day \subseteq Nat
    BY DayOfTime DEF IInv, TypeOK, today, Day
  <2>2. WithdrawnSoFar = redeemedOn[today]
    BY <2>1 DEF IInv, DailyAccounts, WithdrawnSoFar
  <2>. DEFINE amount == pegOutRequests[id].amount
  <2>3. /\ redeemedOn' = [redeemedOn EXCEPT ![today] = redeemedOn[today] + amount]
        /\ WithdrawnSoFar + amount <= limits[2]
    BY <1>1 DEF ExecutePegOut, FitsDailyLimit
  <2>. HIDE DEF amount
  <2>4. redeemedOn'[today] = redeemedOn[today] + amount
    BY <2>1, <2>3, Zenon
  <2>5. redeemedOn'[today] <= limits[2]
    BY <2>2, <2>3, <2>4
  <2>. QED
    BY <2>5 DEF LimitStep
<1>2. ASSUME NEW caller \in Account, NEW id \in PegOutId, ConfirmPegOut(caller, id),
             UNCHANGED daily
      PROVE  LimitStep
  BY <1>2 DEF LimitStep, daily
<1>3. ASSUME NEW caller \in Account, NEW id \in PegOutId, ConfirmPegOut(caller, id)
      PROVE  LimitStep
  BY <1>1, <1>2, <1>3 DEF ConfirmPegOut
<1>4. ASSUME NEW caller \in Account, NEW d \in Deposit, NEW claim \in Claim,
             ConfirmPegIn(caller, d, claim[1], claim[2])
      PROVE  UNCHANGED daily
  BY <1>4 DEF ConfirmPegIn
<1>5. ASSUME NEW user \in User, NEW amount \in Amount, RequestPegOut(user, amount)
      PROVE  UNCHANGED daily
  BY <1>5 DEF RequestPegOut
<1>6. Tick \/ AdminStep \/ UNCHANGED daily => LimitStep
  BY DEF Tick, AdminStep, LimitStep, daily
<1>. QED
  BY <1>3, <1>4, <1>5, <1>6, StepKinds

(* Redemptions never take a day's total over the daily limit in force.                  *)
THEOREM RedemptionsWithinLimit == Spec => RedeemedWithinLimit
<1>1. IInv /\ [Next]_vars => [LimitStep]_vars
  BY LimitLemma
<1>. QED
  BY <1>1, Invariance, PTL DEF Spec, RedeemedWithinLimit, LimitStep
-----------------------------------------------------------------------------
(* What does hold of the two claims the runs refute *)

ClaimOf(a) == <<a.recipient, a.amount>>

(* There are as many attestations of a deposit as confirmations, all by relayers that   *)
(* have confirmed, and its request holds a claim that one of them made.                 *)
Attested ==
  \A d \in Deposit :
    /\ \A a \in attested[d] : a.relayer \in pegInConfirmedBy[d]
    /\ IsFiniteSet(attested[d])
    /\ Cardinality(attested[d]) = pegInRequests[d].confirmations
    /\ \/ pegInRequests[d].recipient = Zero
       \/ \E a \in attested[d] : ClaimOf(a) = ClaimOf(pegInRequests[d])

Agreeing(d) == {a \in attested[d] : ClaimOf(a) = ClaimOf(pegInRequests[d])}
Unanimous(d) == \A a, b \in attested[d] : ClaimOf(a) = ClaimOf(b)

AttestedStep ==
  \A d \in Deposit :
    /\ pegInRequests[d].recipient # Zero => ClaimOf(pegInRequests[d])' = ClaimOf(pegInRequests[d])
    /\ pegInRequests'[d].executed /\ ~pegInRequests[d].executed =>
         /\ Agreeing(d)' # {}
         /\ Unanimous(d)' => Cardinality(Agreeing(d)') >= requiredConfirmations

(* What a confirmation does to the deposit's attestations and its claim.                *)
LEMMA AttestedConfirmed ==
  ASSUME TypeOK, Attested,
         NEW caller \in Account, NEW d \in Deposit, NEW claim \in Claim,
         ConfirmPegIn(caller, d, claim[1], claim[2])
  PROVE  /\ \A a \in attested'[d] : a.relayer \in pegInConfirmedBy'[d]
         /\ IsFiniteSet(attested'[d])
         /\ Cardinality(attested'[d]) = pegInRequests'[d].confirmations
         /\ \E a \in attested'[d] : ClaimOf(a) = ClaimOf(pegInRequests'[d])
         /\ pegInRequests[d].recipient # Zero =>
              ClaimOf(pegInRequests'[d]) = ClaimOf(pegInRequests[d])
         /\ \A e \in Deposit \ {d} : attested'[e] = attested[e]
<1>. DEFINE req == pegInRequests[d]
            a0 == [relayer |-> caller, recipient |-> claim[1], amount |-> claim[2]]
<1>1. /\ pegInRequests \in [Deposit -> PegIn] /\ pegInConfirmedBy \in [Deposit -> SUBSET Account]
      /\ attested \in [Deposit -> SUBSET Attestation]
  BY DEF TypeOK
<1>2. /\ pegInRequests'[d] = ConfirmedPegIn(req, claim[1], claim[2])
      /\ pegInConfirmedBy'[d] = pegInConfirmedBy[d] \cup {caller}
      /\ attested' = [attested EXCEPT ![d] = attested[d] \cup {a0}]
      /\ caller \notin pegInConfirmedBy[d]
  BY <1>1 DEF ConfirmPegIn, NotYetConfirmed
<1>3. /\ attested'[d] = attested[d] \cup {a0}
      /\ \A e \in Deposit \ {d} : attested'[e] = attested[e]
  BY <1>1, <1>2
<1>4. a0.relayer = caller /\ ClaimOf(a0) = <<claim[1], claim[2]>>
  BY DEF ClaimOf
<1>. HIDE DEF a0
<1>5. \A a \in attested'[d] : a.relayer \in pegInConfirmedBy'[d]
  BY <1>2, <1>3, <1>4 DEF Attested
<1>6. IsFiniteSet(attested'[d]) /\ Cardinality(attested'[d]) = pegInRequests'[d].confirmations
  <2>1. a0 \notin attested[d]
    BY <1>2, <1>4 DEF Attested
  <2>2. IsFiniteSet(attested[d])
    BY DEF Attested
  <2>3. /\ IsFiniteSet(attested[d] \cup {a0})
        /\ Cardinality(attested[d] \cup {a0}) = Cardinality(attested[d]) + 1
    BY <2>1, <2>2, FS_AddElement
  <2>4. pegInRequests'[d].confirmations = pegInRequests[d].confirmations + 1
    BY <1>2 DEF ConfirmedPegIn
  <2>5. Cardinality(attested[d]) = pegInRequests[d].confirmations
    BY DEF Attested
  <2>. QED
    BY <1>3, <2>3, <2>4, <2>5
<1>7. /\ \E a \in attested'[d] : ClaimOf(a) = ClaimOf(pegInRequests'[d])
      /\ req.recipient # Zero => ClaimOf(pegInRequests'[d]) = ClaimOf(req)
  <2>1. CASE req.recipient = Zero
    <3>1. ClaimOf(pegInRequests'[d]) = <<claim[1], claim[2]>>
      BY <1>2, <2>1 DEF ConfirmedPegIn, ClaimOf
    <3>. QED
      BY <1>3, <1>4, <2>1, <3>1
  <2>2. CASE req.recipient # Zero
    <3>1. ClaimOf(pegInRequests'[d]) = ClaimOf(req)
      BY <1>2, <2>2 DEF ConfirmedPegIn, ClaimOf
    <3>. QED
      BY <1>3, <2>2, <3>1 DEF Attested
  <2>. QED
    BY <2>1, <2>2
<1>. QED
  BY <1>3, <1>5, <1>6, <1>7

(* Only a deposit's confirmation touches its attestations, and it keeps them in order.  *)
LEMMA AttestedLemma ==
  ASSUME IInv, Attested, [Next]_vars
  PROVE  Attested' /\ AttestedStep
<1>1. ASSUME NEW caller \in Account, NEW d \in Deposit, NEW claim \in Claim,
             ConfirmPegIn(caller, d, claim[1], claim[2])
      PROVE  Attested' /\ AttestedStep
  <2>. USE <1>1 DEF IInv
  <2>1. /\ pegInRequests'[d].executed = Quorum(pegInRequests'[d].confirmations)
        /\ \A e \in Deposit \ {d} : /\ pegInRequests'[e] = pegInRequests[e]
                                    /\ pegInConfirmedBy'[e] = pegInConfirmedBy[e]
                                    /\ attested'[e] = attested[e]
    BY PegInConfirmed, AttestedConfirmed
  <2>2. Attested'
    BY <2>1, AttestedConfirmed DEF Attested, ClaimOf
  <2>3. ASSUME pegInRequests'[d].executed
        PROVE  /\ Agreeing(d)' # {}
               /\ Unanimous(d)' => Cardinality(Agreeing(d)') >= requiredConfirmations
    <3>1. PICK a \in attested'[d] : ClaimOf(a) = ClaimOf(pegInRequests'[d])
      BY AttestedConfirmed
    <3>2. Agreeing(d)' # {}
      BY <3>1 DEF Agreeing, ClaimOf
    <3>3. ASSUME Unanimous(d)' PROVE Cardinality(Agreeing(d)') >= requiredConfirmations
      <4>1. Agreeing(d)' = attested'[d]
        BY <3>1, <3>3 DEF Agreeing, Unanimous, ClaimOf
      <4>2. pegInRequests'[d].confirmations >= requiredConfirmations
        BY <2>1, <2>3 DEF Quorum
      <4>. QED
        BY <4>1, <4>2, AttestedConfirmed
    <3>. QED
      BY <3>2, <3>3
  <2>4. AttestedStep
    BY <2>1, <2>3, AttestedConfirmed DEF AttestedStep, ClaimOf
  <2>. QED
    BY <2>2, <2>4
<1>2. ASSUME UNCHANGED pegIns PROVE Attested' /\ AttestedStep
  BY <1>2 DEF Attested, AttestedStep, pegIns, ClaimOf
<1>3. ASSUME NEW user \in User, NEW amount \in Amount, RequestPegOut(user, amount)
      PROVE  UNCHANGED pegIns
  BY <1>3 DEF RequestPegOut
<1>4. ASSUME NEW caller \in Account, NEW id \in PegOutId, ConfirmPegOut(caller, id)
      PROVE  UNCHANGED pegIns
  BY <1>4 DEF ConfirmPegOut
<1>5. Tick \/ AdminStep => UNCHANGED pegIns
  BY DEF Tick, AdminStep
<1>. QED
  BY <1>1, <1>2, <1>3, <1>4, <1>5, StepKinds

(* How much of AgreedRelease does hold: what a deposit releases is a claim that some    *)
(* relayer attested, the one it held since it first named a recipient, and when its     *)
(* relayers say the same it is one that a quorum of them attested.                      *)
AttestedRelease == [][AttestedStep]_vars

THEOREM ReleasesAttested == Spec => AttestedRelease
<1>1. Init => Attested
  BY FS_EmptySet DEF Init, Attested, NoPegIn
<1>2. IInv /\ Attested /\ [Next]_vars => Attested' /\ [AttestedStep]_vars
  BY AttestedLemma
<1>. QED
  BY <1>1, <1>2, Invariance, PTL DEF Spec, AttestedRelease

RequestsWaitStep ==
  \A id \in Requested :
    LET req == pegOutRequests[id]
        next == pegOutRequests'[id]
    IN  /\ next.requester = req.requester /\ next.amount = req.amount
        /\ next.requestedAt = req.requestedAt
        /\ req.executed => next.executed
        /\ next.executed /\ ~req.executed => now - req.requestedAt >= Timelock

(* How much of ExecutedAfterTimelock does hold: a request that was made keeps its owner,*)
(* its amount and its time, is executed once, and not before its timelock has elapsed.  *)
(* What the runs show executed early are ids of requests still to come.                 *)
RequestsWait == [][RequestsWaitStep]_vars

THEOREM RequestsWaitTimelock == Spec => RequestsWait
<1>1. ASSUME TypeOK, [Next]_vars PROVE RequestsWaitStep
  <2>1. ASSUME NEW caller \in Account, NEW id \in PegOutId, ConfirmPegOut(caller, id)
        PROVE  RequestsWaitStep
    <3>1. /\ pegOutRequests \in [PegOutId -> PegOut]
          /\ pegOutRequests' = [pegOutRequests EXCEPT ![id] = ConfirmedPegOut(pegOutRequests[id])]
          /\ ~pegOutRequests[id].executed
          /\ now >= pegOutRequests[id].requestedAt + Timelock
      BY <1>1, <2>1 DEF TypeOK, ConfirmPegOut
    <3>2. now \in Int /\ Timelock \in Nat /\ \A e \in PegOutId : pegOutRequests[e].requestedAt \in Nat
      BY <1>1, <3>1, BridgeAssumption DEF TypeOK, PegOut, BridgeAssumption
    <3>3. LET next == ConfirmedPegOut(pegOutRequests[id])
          IN  /\ next.requester = pegOutRequests[id].requester
              /\ next.amount = pegOutRequests[id].amount
              /\ next.requestedAt = pegOutRequests[id].requestedAt
      BY <3>1 DEF ConfirmedPegOut, PegOut
    <3>. QED
      BY <3>1, <3>2, <3>3 DEF RequestsWaitStep, Requested
  <2>2. ASSUME NEW user \in User, NEW amount \in Amount, RequestPegOut(user, amount)
        PROVE  RequestsWaitStep
    <3>1. \A id \in Requested : pegOutRequests'[id] = pegOutRequests[id]
      BY <1>1, <2>2 DEF RequestPegOut, Requested, TypeOK, PegOutId
    <3>. QED
      BY <3>1 DEF RequestsWaitStep
  <2>3. ASSUME UNCHANGED pegOuts PROVE RequestsWaitStep
    BY <2>3 DEF RequestsWaitStep, pegOuts
  <2>4. ASSUME NEW caller \in Account, NEW d \in Deposit, NEW claim \in Claim,
               ConfirmPegIn(caller, d, claim[1], claim[2])
        PROVE  UNCHANGED pegOuts
    BY <2>4 DEF ConfirmPegIn
  <2>5. Tick \/ AdminStep => UNCHANGED pegOuts
    BY DEF Tick, AdminStep
  <2>. QED
    BY <1>1, <2>1, <2>2, <2>3, <2>4, <2>5, StepKinds
<1>2. TypeOK /\ [Next]_vars => [RequestsWaitStep]_vars
  BY <1>1
<1>. QED
  BY <1>2, TypeCorrect, PTL DEF Spec, RequestsWait

-----------------------------------------------------------------------------
(* The contract and the ledger *)

Step == Ledger!LedgerNext \/ UNCHANGED Ledger!ledgerVars

Request == [owner: Account \cup {Zero}, amount: Nat]

-----------------------------------------------------------------------------
(* What the ledger sees of the contract's state *)

RequestsTyped ==
  /\ LedgerRequests \in Seq(Request)
  /\ Len(LedgerRequests) = nextPegOutId
  /\ DOMAIN LedgerRequests = 1 .. nextPegOutId

(* The positions of the ledger's requests are ids of the contract.                      *)
LEMMA Positions ==
  ASSUME TypeOK
  PROVE  /\ nextPegOutId \in Nat /\ MaxPegOuts \in Nat /\ nextPegOutId <= MaxPegOuts
         /\ \A i \in 1 .. nextPegOutId : i \in Nat /\ i - 1 \in PegOutId /\ i - 1 < nextPegOutId
<1>1. MaxPegOuts \in Nat
  BY BridgeAssumption DEF BridgeAssumption
<1>2. nextPegOutId \in 0 .. MaxPegOuts
  BY DEF TypeOK
<1>. QED
  BY <1>1, <1>2 DEF PegOutId

(* The ids below nextPegOutId, in order, are a sequence of requests.                    *)
LEMMA RequestsType == TypeOK => RequestsTyped
<1>. SUFFICES ASSUME TypeOK PROVE RequestsTyped
  OBVIOUS
<1>1. nextPegOutId \in Nat /\ \A i \in 1 .. nextPegOutId : i - 1 \in PegOutId
  BY Positions
<1>2. \A i \in 1 .. nextPegOutId : pegOutRequests[i - 1] \in PegOut
  BY <1>1 DEF TypeOK
<1>3. \A i \in 1 .. nextPegOutId :
        [owner |-> pegOutRequests[i - 1].requester,
         amount |-> pegOutRequests[i - 1].amount] \in Request
  BY <1>2 DEF PegOut, Request
<1>4. LedgerRequests \in [1 .. nextPegOutId -> Request]
  BY <1>3 DEF LedgerRequests
<1>. QED
  BY <1>1, <1>4 DEF RequestsTyped

(* A step that leaves balances, deposits and requests alone is a stutter of the ledger. *)
LEMMA Stutter ==
  ASSUME UNCHANGED <<balanceOf, pegInRequests, pegOutRequests, nextPegOutId>>
  PROVE  UNCHANGED Ledger!ledgerVars
BY DEF Ledger!ledgerVars, ReleasedDeposits, LedgerRequests, RedeemedRequests

-----------------------------------------------------------------------------
(* Steps *)

(* A payment of the token is a payment in the ledger.                                   *)
LEMMA PaymentInLedger ==
  ASSUME TypeOK, NEW from \in Holder, NEW to \in Holder, NEW amount \in Nat,
         amount <= balanceOf[from], balanceOf' = Moved(from, to, amount)
  PROVE  amount \in 0 .. balanceOf[from] /\ Ledger!Pay(from, to, amount)
BY DEF TypeOK, Moved, Ledger!Pay

(* A confirmation of a deposit either releases it, once, or is a stutter.               *)
LEMMA PegInImplements ==
  ASSUME TypeOK, NEW caller \in Account, NEW d \in Deposit, NEW claim \in Claim,
         ConfirmPegIn(caller, d, claim[1], claim[2])
  PROVE  Step
<1>. DEFINE req == ConfirmedPegIn(pegInRequests[d], claim[1], claim[2])
<1>1. req \in PegIn /\ req.executed = Quorum(req.confirmations)
  <2>1. pegInRequests[d] \in PegIn /\ claim[1] \in Account \cup {Zero} /\ claim[2] \in Nat
    BY BridgeAssumption DEF TypeOK, BridgeAssumption
  <2>2. req \in PegIn
    BY <2>1, ConfirmedPegInType
  <2>3. req.executed = Quorum(req.confirmations)
    BY DEF ConfirmedPegIn
  <2>. QED
    BY <2>2, <2>3
<1>2. /\ pegInRequests' = [pegInRequests EXCEPT ![d] = req]
      /\ ~pegInRequests[d].executed
      /\ UNCHANGED <<pegOutRequests, nextPegOutId>>
      /\ \/ ~Quorum(req.confirmations) /\ UNCHANGED balanceOf
         \/ /\ Quorum(req.confirmations)
            /\ req.amount <= balanceOf[Bridge]
            /\ balanceOf' = Moved(Bridge, req.recipient, req.amount)
  BY DEF ConfirmPegIn, pegOuts
<1>. HIDE DEF req
<1>3. pegInRequests \in [Deposit -> PegIn]
  BY DEF TypeOK
<1>4. UNCHANGED <<LedgerRequests, RedeemedRequests>>
  BY <1>2 DEF LedgerRequests, RedeemedRequests
<1>5. /\ d \notin ReleasedDeposits
      /\ ReleasedDeposits' = IF req.executed THEN ReleasedDeposits \cup {d} ELSE ReleasedDeposits
  BY <1>2, <1>3 DEF ReleasedDeposits
<1>6. CASE ~Quorum(req.confirmations)
  BY <1>1, <1>2, <1>4, <1>5, <1>6 DEF Step, Ledger!ledgerVars
<1>7. CASE Quorum(req.confirmations)
  <2>1. req.recipient \in Holder /\ req.amount \in Nat /\ Bridge \in Holder
    BY <1>1 DEF PegIn, Holder
  <2>2. req.amount \in 0 .. balanceOf[Bridge] /\ Ledger!Pay(Bridge, req.recipient, req.amount)
    BY <1>2, <1>7, <2>1, PaymentInLedger
  <2>3. Ledger!Release(d, req.recipient, req.amount)
    BY <1>1, <1>4, <1>5, <1>7, <2>2 DEF Ledger!Release
  <2>. QED
    BY <2>1, <2>2, <2>3 DEF Step, Ledger!LedgerNext
<1>. QED
  BY <1>6, <1>7

(* A request locks its amount and is appended, not redeemed.                            *)
LEMMA RequestImplements ==
  ASSUME TypeOK, TypeOK', NEW user \in User, NEW amount \in Amount, RequestPegOut(user, amount)
  PROVE  Step
<1>. DEFINE n == nextPegOutId
            entry == [requester |-> user, amount |-> amount, confirmations |-> 0,
                      requestedAt |-> now, executed |-> FALSE]
            asked == [owner |-> user, amount |-> amount]
<1>1. /\ nextPegOutId < MaxPegOuts
      /\ nextPegOutId' = n + 1
      /\ pegOutRequests' = [pegOutRequests EXCEPT ![n] = entry]
      /\ amount <= balanceOf[user] /\ balanceOf' = Moved(user, Bridge, amount)
      /\ UNCHANGED pegInRequests
  BY DEF RequestPegOut, pegIns
<1>2. /\ n \in PegOutId /\ n \in Nat
      /\ pegOutRequests \in [PegOutId -> PegOut]
      /\ \A i \in 1 .. n : i - 1 \in PegOutId /\ i - 1 # n
  <2>1. n \in Nat /\ MaxPegOuts \in Nat /\ \A i \in 1 .. n : i \in Nat /\ i - 1 \in PegOutId /\ i - 1 < n
    BY Positions
  <2>2. pegOutRequests \in [PegOutId -> PegOut]
    BY DEF TypeOK
  <2>. HIDE DEF n
  <2>3. n \in PegOutId
    BY <1>1, <2>1 DEF PegOutId, n
  <2>. QED
    BY <2>1, <2>2, <2>3
<1>3. /\ pegOutRequests'[n] = entry
      /\ \A i \in 1 .. n : pegOutRequests'[i - 1] = pegOutRequests[i - 1]
  BY <1>1, <1>2
<1>4. user \in Account /\ user \in Holder /\ Bridge \in Holder /\ user # Bridge /\ amount \in Nat
  BY BridgeAssumption DEF BridgeAssumption, Holder
<1>5. LedgerRequests' = Append(LedgerRequests, asked)
  <2>1. /\ LedgerRequests \in Seq(Request) /\ Len(LedgerRequests) = n
        /\ asked \in Request
    BY <1>4, RequestsType DEF Request, RequestsTyped
  <2>2. LedgerRequests' \in Seq(Request) /\ Len(LedgerRequests') = n + 1
    <3>1. RequestsTyped'
      BY RequestsType, PTL
    <3>. QED
      BY <1>1, <3>1 DEF RequestsTyped
  <2>3. \A i \in 1 .. n + 1 : LedgerRequests'[i] = Append(LedgerRequests, asked)[i]
    <3>1. \A i \in 1 .. n : LedgerRequests'[i] = LedgerRequests[i]
      BY <1>1, <1>2, <1>3 DEF LedgerRequests
    <3>2. LedgerRequests'[n + 1] = asked
      BY <1>1, <1>2, <1>3 DEF LedgerRequests
    <3>. QED
      BY <1>2, <2>1, <3>1, <3>2
  <2>4. Append(LedgerRequests, asked) \in Seq(Request)
        /\ Len(Append(LedgerRequests, asked)) = n + 1
    BY <2>1
  <2>. HIDE DEF asked, n
  <2>. QED
    BY <2>2, <2>3, <2>4, SeqEqual
<1>6. RedeemedRequests' = RedeemedRequests
  BY <1>1, <1>2, <1>3 DEF RedeemedRequests
<1>7. ReleasedDeposits' = ReleasedDeposits
  BY <1>1 DEF ReleasedDeposits
<1>8. amount \in 0 .. balanceOf[user] /\ Ledger!Pay(user, Bridge, amount)
  BY <1>1, <1>4, PaymentInLedger
<1>9. Ledger!Lock(user, amount)
  BY <1>5, <1>6, <1>7, <1>8 DEF Ledger!Lock
<1>. QED
  BY <1>4, <1>8, <1>9 DEF Step, Ledger!LedgerNext

(* A confirmation of a peg-out redeems its request, once, or is a stutter; so is the    *)
(* execution of an id that was never requested.                                         *)
LEMMA PegOutImplements ==
  ASSUME TypeOK, NEW caller \in Account, NEW id \in PegOutId, ConfirmPegOut(caller, id)
  PROVE  Step
<1>. DEFINE old == pegOutRequests[id]
            req == ConfirmedPegOut(old)
<1>1. /\ pegOutRequests' = [pegOutRequests EXCEPT ![id] = req]
      /\ ~old.executed
      /\ UNCHANGED <<balanceOf, pegInRequests, nextPegOutId>>
  BY DEF ConfirmPegOut, pegIns, token
<1>2. /\ pegOutRequests \in [PegOutId -> PegOut] /\ old \in PegOut
      /\ req.requester = old.requester /\ req.amount = old.amount
      /\ req.executed \in BOOLEAN
  <2>1. old \in PegOut
    BY DEF TypeOK
  <2>2. req.requester = old.requester /\ req.amount = old.amount
    BY <2>1 DEF ConfirmedPegOut, PegOut
  <2>3. req \in PegOut
    BY <2>1, ConfirmedPegOutType
  <2>. QED
    BY <2>1, <2>2, <2>3 DEF TypeOK, PegOut
<1>. HIDE DEF req
<1>3. /\ pegOutRequests'[id] = req
      /\ \A e \in PegOutId \ {id} : pegOutRequests'[e] = pegOutRequests[e]
  BY <1>1, <1>2
<1>4. /\ id \in Nat /\ nextPegOutId \in Nat
      /\ \A i \in 1 .. nextPegOutId : i - 1 \in PegOutId
  BY Positions DEF PegOutId
<1>5. LedgerRequests' = LedgerRequests
  <2>1. \A i \in 1 .. nextPegOutId :
          /\ pegOutRequests'[i - 1].requester = pegOutRequests[i - 1].requester
          /\ pegOutRequests'[i - 1].amount = pegOutRequests[i - 1].amount
    BY <1>2, <1>3, <1>4
  <2>. QED
    BY <1>1, <2>1 DEF LedgerRequests
<1>6. ReleasedDeposits' = ReleasedDeposits
  BY <1>1 DEF ReleasedDeposits
<1>7. CASE id < nextPegOutId /\ req.executed
  <2>1. id + 1 \in 1 .. nextPegOutId /\ id + 1 \notin RedeemedRequests
    BY <1>1, <1>4, <1>7 DEF RedeemedRequests
  <2>2. RedeemedRequests' = RedeemedRequests \cup {id + 1}
    BY <1>1, <1>3, <1>4, <1>7 DEF RedeemedRequests
  <2>3. DOMAIN LedgerRequests = 1 .. nextPegOutId
    BY RequestsType DEF RequestsTyped
  <2>4. Ledger!Redeem(id + 1)
    BY <1>1, <1>5, <1>6, <2>1, <2>2, <2>3 DEF Ledger!Redeem
  <2>. QED
    BY <2>1, <2>3, <2>4 DEF Step, Ledger!LedgerNext
<1>8. CASE ~(id < nextPegOutId /\ req.executed)
  <2>1. RedeemedRequests' = RedeemedRequests
    BY <1>1, <1>2, <1>3, <1>4, <1>8 DEF RedeemedRequests
  <2>. QED
    BY <1>1, <1>5, <1>6, <2>1 DEF Step, Ledger!ledgerVars
<1>. QED
  BY <1>7, <1>8

(* Users' transfers are transfers of the ledger.                                        *)
LEMMA TransferImplements ==
  ASSUME TypeOK, NEW user \in User, NEW to \in User \cup {Bridge}, NEW amount \in Amount,
         TokenTransfer(user, to, amount)
  PROVE  Step
<1>1. user \in Holder /\ to \in Holder /\ user # Bridge /\ amount \in Nat
  BY BridgeAssumption DEF BridgeAssumption, Holder
<1>2. amount \in 0 .. balanceOf[user] /\ Ledger!Pay(user, to, amount)
  BY <1>1, PaymentInLedger DEF TokenTransfer
<1>3. UNCHANGED <<ReleasedDeposits, LedgerRequests, RedeemedRequests>>
  BY DEF TokenTransfer, pegIns, pegOuts, ReleasedDeposits, LedgerRequests, RedeemedRequests
<1>4. Ledger!Transfer(user, to, amount)
  BY <1>1, <1>2, <1>3 DEF Ledger!Transfer
<1>. QED
  BY <1>1, <1>2, <1>4 DEF Step, Ledger!LedgerNext

(* Administration, approvals and the clock are no business of the ledger.               *)
LEMMA OtherStepsStutter ==
  ASSUME NEW caller \in Account,
         \/ Tick
         \/ \E amount \in Amount : TokenApprove(caller, amount)
         \/ \E threshold \in 0 .. MaxCount : SetThreshold(caller, threshold)
         \/ \E newLimits \in Limits : SetLimits(caller, newLimits)
         \/ \E role, account :
              \/ GrantRole(caller, role, account)
              \/ RevokeRole(caller, role, account)
              \/ AddRelayer(caller, account)
              \/ RemoveRelayer(caller, account)
         \/ Pause(caller)
         \/ Unpause(caller)
  PROVE  Step
<1>1. UNCHANGED <<balanceOf, pegInRequests, pegOutRequests, nextPegOutId>>
  BY DEF Tick, TokenApprove, SetThreshold, SetLimits, GrantRole, RevokeRole, AddRelayer,
         RemoveRelayer, Pause, Unpause, pegIns, pegOuts, token
<1>. QED
  BY <1>1, Stutter DEF Step

-----------------------------------------------------------------------------
(* The theorem *)

(* The contract starts where the ledger starts.                                         *)
LEMMA InitImplements == Init => Ledger!LedgerInit
<1>. SUFFICES ASSUME Init PROVE Ledger!LedgerInit
  OBVIOUS
<1>1. nextPegOutId = 0 /\ balanceOf = InitialBalance
  BY DEF Init
<1>2. ReleasedDeposits = {}
  BY DEF Init, ReleasedDeposits, NoPegIn
<1>3. RedeemedRequests = {}
  BY <1>1 DEF RedeemedRequests
<1>4. LedgerRequests = <<>>
  <2>1. TypeOK
    BY TypeInit
  <2>2. LedgerRequests \in Seq(Request) /\ Len(LedgerRequests) = 0
    BY <1>1, <2>1, RequestsType DEF RequestsTyped
  <2>. QED
    BY <2>2, EmptySeq
<1>. QED
  BY <1>1, <1>2, <1>3, <1>4 DEF Ledger!LedgerInit

(* Every step of the contract is a step of the ledger or a stutter.                     *)
LEMMA StepImplements ==
  ASSUME TypeOK, TypeOK', [Next]_vars
  PROVE  Step
<1>1. CASE UNCHANGED vars
  BY <1>1, Stutter DEF Step, vars, pegIns, pegOuts, token
<1>2. CASE Next
  <2>1. ASSUME NEW caller \in User, NEW amount \in Amount,
               \/ RequestPegOut(caller, amount)
               \/ \E to \in User \cup {Bridge} : TokenTransfer(caller, to, amount)
        PROVE  Step
    BY <2>1, RequestImplements, TransferImplements
  <2>2. ASSUME NEW caller \in Account,
               \/ \E d \in Deposit, claim \in Claim :
                    ConfirmPegIn(caller, d, claim[1], claim[2])
               \/ \E id \in PegOutId : ConfirmPegOut(caller, id)
        PROVE  Step
    BY <2>2, PegInImplements, PegOutImplements
  <2>3. CASE Tick
    <3>1. Admin \in Account
      BY BridgeAssumption DEF BridgeAssumption
    <3>. QED
      BY <2>3, <3>1, OtherStepsStutter
  <2>. QED
    BY <1>2, <2>1, <2>2, <2>3, OtherStepsStutter DEF Next
<1>. QED
  BY <1>1, <1>2

(* The contract implements the ledger its users rely on: each deposit is released once, *)
(* each request redeemed once, and tokens move in no other way.                         *)
THEOREM Implementation == Spec => ImplementsLedger
<1>1. TypeOK /\ TypeOK' /\ [Next]_vars => [Ledger!LedgerNext]_Ledger!ledgerVars
  BY StepImplements DEF Step
<1>. QED
  BY <1>1, InitImplements, TypeCorrect, PTL DEF Spec, ImplementsLedger, Ledger!LedgerSpec

-----------------------------------------------------------------------------
(* The tokens add up *)

LEMMA SetsFinite == IsFiniteSet(Holder) /\ IsFiniteSet(Deposit) /\ IsFiniteSet(PegOutId)
<1>1. IsFiniteSet(Account \cup {Bridge})
  BY FiniteAssumption, FS_AddElement
<1>2. IsFiniteSet(Holder)
  <2>1. IsFiniteSet((Account \cup {Bridge}) \cup {Zero})
    BY <1>1, FS_AddElement
  <2>2. Holder = (Account \cup {Bridge}) \cup {Zero}
    BY DEF Holder
  <2>. QED
    BY <2>1, <2>2
<1>3. MaxPegOuts \in Nat
  BY BridgeAssumption DEF BridgeAssumption
<1>. QED
  BY <1>2, <1>3, FiniteAssumption, FS_Interval DEF PegOutId

(* A payment moves tokens between two holders, or from one to itself: none is lost.     *)
LEMMA MovedSum ==
  ASSUME balanceOf \in [Holder -> Nat], NEW from \in Holder, NEW to \in Holder,
         NEW value \in Nat, value <= balanceOf[from]
  PROVE  /\ Moved(from, to, value) \in [Holder -> Nat]
         /\ SumFunction(Moved(from, to, value)) = SumFunction(balanceOf)
         /\ \A h \in Holder : Moved(from, to, value)[h]
               = balanceOf[h] - (IF h = from THEN value ELSE 0) + (IF h = to THEN value ELSE 0)
<1>. DEFINE taken == [balanceOf EXCEPT ![from] = balanceOf[from] - value]
            moved == Moved(from, to, value)
<1>1. taken \in [Holder -> Nat] /\ taken[from] = balanceOf[from] - value
      /\ \A h \in Holder : h # from => taken[h] = balanceOf[h]
  OBVIOUS
<1>2. moved = [taken EXCEPT ![to] = taken[to] + value]
  BY DEF Moved
<1>. HIDE DEF taken, moved
<1>3. moved \in [Holder -> Nat] /\ moved[to] = taken[to] + value
      /\ \A h \in Holder : h # to => moved[h] = taken[h]
  BY <1>1, <1>2
<1>4. SumFunction(taken) = SumFunction(balanceOf) + taken[from] - balanceOf[from]
  BY <1>1, SetsFinite, SumFunctionChange
<1>5. SumFunction(moved) = SumFunction(taken) + moved[to] - taken[to]
  <2>1. /\ IsFiniteSet(Holder) /\ taken \in [Holder -> Nat] /\ moved \in [Holder -> Nat]
        /\ \A h \in Holder : h # to => moved[h] = taken[h]
    BY <1>1, <1>3, SetsFinite
  <2>. QED
    BY <2>1, SumFunctionChange
<1>6. SumFunction(balanceOf) \in Nat /\ balanceOf[from] \in Nat /\ taken[to] \in Nat
  BY <1>1, SetsFinite, SumFunctionNat
<1>7. SumFunction(moved) = SumFunction(balanceOf)
  BY <1>1, <1>3, <1>4, <1>5, <1>6
<1>8. \A h \in Holder : moved[h]
        = balanceOf[h] - (IF h = from THEN value ELSE 0) + (IF h = to THEN value ELSE 0)
  BY <1>1, <1>3
<1>. QED
  BY <1>3, <1>7, <1>8 DEF moved

(* What requests lock and deposits release are natural numbers of tokens.               *)
AmountsTyped ==
  /\ Locked \in [PegOutId -> Nat] /\ Released \in [Deposit -> Nat]
  /\ SumFunction(Locked) \in Nat /\ SumFunction(Released) \in Nat

LEMMA AmountsType == TypeOK => AmountsTyped
<1>. SUFFICES ASSUME TypeOK PROVE AmountsTyped
  OBVIOUS
<1>1. Locked \in [PegOutId -> Nat]
  BY DEF TypeOK, PegOut, Locked
<1>2. Released \in [Deposit -> Nat]
  BY DEF TypeOK, PegIn, Released
<1>. QED
  BY <1>1, <1>2, SetsFinite, SumFunctionNat DEF AmountsTyped

(* Steps that leave balances and the amounts locked and released alone.                 *)
LEMMA AccountsUntouched ==
  ASSUME TokensAddUp, UNCHANGED <<balanceOf, Locked, Released>>
  PROVE  TokensAddUp'
BY DEF TokensAddUp

(* A deposit that is released takes its amount from the reserve and adds it to what was *)
(* released: it was not released before.                                                *)
LEMMA PegInAddsUp ==
  ASSUME TypeOK, TypeOK', TokensAddUp, NEW caller \in Account, NEW d \in Deposit,
         NEW claim \in Claim, ConfirmPegIn(caller, d, claim[1], claim[2])
  PROVE  TokensAddUp'
<1>. DEFINE req == ConfirmedPegIn(pegInRequests[d], claim[1], claim[2])
<1>1. req \in PegIn /\ req.executed = Quorum(req.confirmations)
  <2>1. pegInRequests[d] \in PegIn /\ claim[1] \in Account \cup {Zero} /\ claim[2] \in Nat
    BY BridgeAssumption DEF TypeOK, BridgeAssumption
  <2>2. req \in PegIn
    BY <2>1, ConfirmedPegInType
  <2>3. req.executed = Quorum(req.confirmations)
    BY DEF ConfirmedPegIn
  <2>. QED
    BY <2>2, <2>3
<1>2. /\ pegInRequests' = [pegInRequests EXCEPT ![d] = req]
      /\ ~pegInRequests[d].executed
      /\ UNCHANGED <<pegOutRequests, nextPegOutId>>
      /\ \/ ~Quorum(req.confirmations) /\ UNCHANGED balanceOf
         \/ /\ Quorum(req.confirmations)
            /\ req.amount <= balanceOf[Bridge]
            /\ balanceOf' = Moved(Bridge, req.recipient, req.amount)
  BY DEF ConfirmPegIn, pegOuts
<1>. HIDE DEF req
<1>3. pegInRequests \in [Deposit -> PegIn] /\ balanceOf \in [Holder -> Nat]
  BY DEF TypeOK
<1>4. Locked' = Locked
  BY <1>2 DEF Locked, Requested
<1>5. /\ Released[d] = 0
      /\ Released'[d] = IF Quorum(req.confirmations) THEN req.amount ELSE 0
      /\ \A x \in Deposit : x # d => Released'[x] = Released[x]
  BY <1>1, <1>2, <1>3 DEF Released, ReleasedDeposits
<1>6. /\ Released \in [Deposit -> Nat] /\ Released' \in [Deposit -> Nat]
      /\ SumFunction(Released) \in Nat /\ SumFunction(Locked) \in Nat
  <2>1. AmountsTyped /\ AmountsTyped'
    BY AmountsType, PTL
  <2>. QED
    BY <2>1 DEF AmountsTyped
<1>7. SumFunction(Released') = SumFunction(Released) + Released'[d] - Released[d]
  BY <1>5, <1>6, SetsFinite, SumFunctionChange
<1>8. balanceOf[Bridge] \in Nat /\ InitialBalance[Bridge] \in Nat
  BY <1>3, BridgeAssumption DEF BridgeAssumption, Holder
<1>9. CASE ~Quorum(req.confirmations)
  BY <1>2, <1>4, <1>5, <1>6, <1>7, <1>9 DEF TokensAddUp
<1>10. CASE Quorum(req.confirmations)
  <2>1. /\ req.recipient \in Holder /\ req.amount \in Nat /\ Bridge \in Holder
        /\ req.recipient # Bridge
    BY <1>1, BridgeAssumption DEF PegIn, Holder, BridgeAssumption
  <2>2. /\ balanceOf' = Moved(Bridge, req.recipient, req.amount)
        /\ req.amount <= balanceOf[Bridge]
    BY <1>2, <1>10
  <2>3. /\ SumFunction(balanceOf') = SumFunction(balanceOf)
        /\ balanceOf'[Bridge] = balanceOf[Bridge] - req.amount
    BY <1>3, <1>8, <2>1, <2>2, MovedSum
  <2>. QED
    BY <1>4, <1>5, <1>6, <1>7, <1>8, <1>10, <2>1, <2>3 DEF TokensAddUp
<1>. QED
  BY <1>9, <1>10

(* A request puts its amount into the reserve and adds it to what is locked.            *)
LEMMA RequestAddsUp ==
  ASSUME TypeOK, TypeOK', TokensAddUp, NEW user \in User, NEW amount \in Amount,
         RequestPegOut(user, amount)
  PROVE  TokensAddUp'
<1>0. PICK n \in PegOutId : n = nextPegOutId /\ n \in Nat
  <2>1. nextPegOutId \in Nat /\ MaxPegOuts \in Nat /\ nextPegOutId < MaxPegOuts
    BY Positions DEF RequestPegOut
  <2>2. nextPegOutId \in PegOutId
    BY <2>1 DEF PegOutId
  <2>. QED
    BY <2>1, <2>2
<1>. DEFINE entry == [requester |-> user, amount |-> amount, confirmations |-> 0,
                      requestedAt |-> now, executed |-> FALSE]
<1>1. /\ nextPegOutId < MaxPegOuts
      /\ nextPegOutId' = n + 1
      /\ pegOutRequests' = [pegOutRequests EXCEPT ![n] = entry]
      /\ amount <= balanceOf[user] /\ balanceOf' = Moved(user, Bridge, amount)
      /\ UNCHANGED pegInRequests
  BY <1>0 DEF RequestPegOut, pegIns
<1>2. pegOutRequests \in [PegOutId -> PegOut] /\ balanceOf \in [Holder -> Nat]
  BY DEF TypeOK
<1>3. /\ pegOutRequests'[n].amount = amount
      /\ \A id \in PegOutId : id # n => pegOutRequests'[id] = pegOutRequests[id]
  BY <1>1, <1>2
<1>4. user \in Holder /\ Bridge \in Holder /\ user # Bridge /\ amount \in Nat
      /\ InitialBalance[Bridge] \in Nat
  BY BridgeAssumption DEF BridgeAssumption, Holder
<1>5. Released' = Released
  BY <1>1 DEF Released, ReleasedDeposits
<1>6. /\ Locked[n] = 0 /\ Locked'[n] = amount
      /\ \A id \in PegOutId : id # n => Locked'[id] = Locked[id]
  <2>1. Locked[n] = 0 /\ Locked'[n] = amount
    BY <1>0, <1>1, <1>3 DEF Locked, Requested
  <2>2. \A id \in PegOutId : id # n => (id \in Requested' <=> id \in Requested)
    BY <1>0, <1>1 DEF Requested, PegOutId
  <2>. QED
    BY <1>3, <2>1, <2>2 DEF Locked
<1>7. /\ Locked \in [PegOutId -> Nat] /\ Locked' \in [PegOutId -> Nat]
      /\ SumFunction(Released) \in Nat /\ SumFunction(Locked) \in Nat
  <2>1. AmountsTyped /\ AmountsTyped'
    BY AmountsType, PTL
  <2>. QED
    BY <2>1 DEF AmountsTyped
<1>8. SumFunction(Locked') = SumFunction(Locked) + Locked'[n] - Locked[n]
  BY <1>6, <1>7, SetsFinite, SumFunctionChange
<1>9. /\ SumFunction(balanceOf') = SumFunction(balanceOf)
      /\ balanceOf'[Bridge] = balanceOf[Bridge] + amount /\ balanceOf[Bridge] \in Nat
  BY <1>1, <1>2, <1>4, MovedSum
<1>. QED
  BY <1>4, <1>5, <1>6, <1>7, <1>8, <1>9 DEF TokensAddUp

(* A confirmation of a peg-out leaves every amount alone.                               *)
LEMMA PegOutAddsUp ==
  ASSUME TypeOK, TokensAddUp, NEW caller \in Account, NEW id \in PegOutId,
         ConfirmPegOut(caller, id)
  PROVE  TokensAddUp'
<1>. DEFINE req == ConfirmedPegOut(pegOutRequests[id])
<1>1. /\ pegOutRequests' = [pegOutRequests EXCEPT ![id] = req]
      /\ UNCHANGED <<balanceOf, pegInRequests, nextPegOutId>>
  BY DEF ConfirmPegOut, pegIns, token
<1>2. pegOutRequests \in [PegOutId -> PegOut] /\ req.amount = pegOutRequests[id].amount
  BY DEF TypeOK, ConfirmedPegOut, PegOut
<1>. HIDE DEF req
<1>3. \A e \in PegOutId : pegOutRequests'[e].amount = pegOutRequests[e].amount
  BY <1>1, <1>2
<1>4. Locked' = Locked /\ Released' = Released
  BY <1>1, <1>3 DEF Locked, Requested, Released, ReleasedDeposits
<1>. QED
  BY <1>1, <1>4, AccountsUntouched

(* A transfer between users moves tokens; one to the bridge adds to the reserve.        *)
LEMMA TransferAddsUp ==
  ASSUME TypeOK, TokensAddUp, NEW user \in User, NEW to \in User \cup {Bridge},
         NEW amount \in Amount, TokenTransfer(user, to, amount)
  PROVE  TokensAddUp'
<1>1. /\ user \in Holder /\ to \in Holder /\ Bridge \in Holder /\ user # Bridge
      /\ amount \in Nat /\ InitialBalance[Bridge] \in Nat
  BY BridgeAssumption DEF BridgeAssumption, Holder
<1>2. amount <= balanceOf[user] /\ balanceOf' = Moved(user, to, amount)
      /\ balanceOf \in [Holder -> Nat]
  BY DEF TokenTransfer, TypeOK
<1>3. Locked' = Locked /\ Released' = Released
  BY DEF TokenTransfer, pegIns, pegOuts, Locked, Requested, Released, ReleasedDeposits
<1>4. /\ SumFunction(balanceOf') = SumFunction(balanceOf)
      /\ balanceOf'[Bridge] >= balanceOf[Bridge] /\ balanceOf[Bridge] \in Nat
      /\ balanceOf'[Bridge] \in Nat
  BY <1>1, <1>2, MovedSum
<1>5. SumFunction(Locked) \in Nat /\ SumFunction(Released) \in Nat
  BY AmountsType DEF AmountsTyped
<1>. QED
  BY <1>1, <1>3, <1>4, <1>5 DEF TokensAddUp

(* At first nothing is locked and nothing released.                                     *)
LEMMA InitAddsUp == Init => TokensAddUp
<1>. SUFFICES ASSUME Init PROVE TokensAddUp
  OBVIOUS
<1>1. TypeOK
  BY TypeInit
<1>2. Locked \in [PegOutId -> Nat] /\ Released \in [Deposit -> Nat]
  BY <1>1, AmountsType DEF AmountsTyped
<1>3. /\ \A id \in PegOutId : Locked[id] = 0
      /\ \A d \in Deposit : Released[d] = 0
  BY DEF Init, Locked, Released, ReleasedDeposits, NoPegIn, NoPegOut
<1>4. SumFunction(Locked) = 0 /\ SumFunction(Released) = 0
  BY <1>2, <1>3, SetsFinite, SumFunctionZero
<1>5. balanceOf = InitialBalance /\ balanceOf[Bridge] \in Nat
  BY BridgeAssumption DEF Init, BridgeAssumption, Holder
<1>. QED
  BY <1>4, <1>5 DEF TokensAddUp

(* Every step keeps the accounts balanced.                                              *)
LEMMA StepAddsUp ==
  ASSUME TypeOK, TypeOK', TokensAddUp, [Next]_vars
  PROVE  TokensAddUp'
<1>. DEFINE Idle == UNCHANGED <<balanceOf, pegInRequests, pegOutRequests, nextPegOutId>>
<1>1. ASSUME Idle PROVE TokensAddUp'
  BY <1>1, AccountsUntouched DEF Locked, Requested, Released, ReleasedDeposits
<1>2. CASE UNCHANGED vars
  BY <1>1, <1>2 DEF vars, pegIns, pegOuts, token
<1>3. CASE Next
  <2>1. ASSUME NEW caller \in User, NEW amount \in Amount,
               \/ RequestPegOut(caller, amount)
               \/ \E to \in User \cup {Bridge} : TokenTransfer(caller, to, amount)
        PROVE  TokensAddUp'
    BY <2>1, RequestAddsUp, TransferAddsUp
  <2>2. ASSUME NEW caller \in Account,
               \/ \E d \in Deposit, claim \in Claim :
                    ConfirmPegIn(caller, d, claim[1], claim[2])
               \/ \E id \in PegOutId : ConfirmPegOut(caller, id)
        PROVE  TokensAddUp'
    BY <2>2, PegInAddsUp, PegOutAddsUp
  <2>3. CASE Tick
    BY <1>1, <2>3 DEF Tick, pegIns, pegOuts, token
  <2>4. ASSUME NEW caller \in Account,
               \/ \E amount \in Amount : TokenApprove(caller, amount)
               \/ \E threshold \in 0 .. MaxCount : SetThreshold(caller, threshold)
               \/ \E newLimits \in Limits : SetLimits(caller, newLimits)
               \/ \E role, account :
                    \/ GrantRole(caller, role, account)
                    \/ RevokeRole(caller, role, account)
                    \/ AddRelayer(caller, account)
                    \/ RemoveRelayer(caller, account)
               \/ Pause(caller)
               \/ Unpause(caller)
        PROVE  Idle
    BY <2>4 DEF TokenApprove, SetThreshold, SetLimits, GrantRole, RevokeRole, AddRelayer,
                RemoveRelayer, Pause, Unpause, pegIns, pegOuts, token
  <2>. HIDE DEF Idle
  <2>. QED
    BY <1>1, <1>3, <2>1, <2>2, <2>3, <2>4 DEF Next
<1>. QED
  BY <1>2, <1>3

(* The reserve covers every request that is locked but for what deposits released, and  *)
(* no step makes or loses a token, however often a holder pays itself.                  *)
THEOREM AddUp == Spec => []TokensAddUp
<1>1. TypeOK /\ TypeOK' /\ TokensAddUp /\ [Next]_vars => TokensAddUp'
  BY StepAddsUp
<1>. QED
  BY <1>1, InitAddsUp, TypeCorrect, PTL DEF Spec
=============================================================================
