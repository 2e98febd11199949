--------------------------- MODULE BridgeContract ---------------------------
(***************************************************************************)
(* contracts/src/BridgeContract.sol: the M-of-N relayer bridge, with the   *)
(* wrapped token it holds (contracts/src/test/MockWbtc.sol).  A            *)
(* transaction is one step; whatever the EVM would revert is no step, so   *)
(* every revert, require and checked subtraction is a guard, also when it  *)
(* happens in a call that comes last (the token transfer, the daily limit).*)
(*                                                                         *)
(* Time is counted in ticks: a day is DayLength ticks, PEG_OUT_TIMELOCK is *)
(* Timelock ticks.  Operators commented "Slip:" are altered forms of the   *)
(* operator that follows and take no part in the specification.            *)
(***************************************************************************)
EXTENDS Integers, FiniteSets

CONSTANTS
  Account,          \* external accounts
  Bridge,           \* the contract's own address
  Zero,             \* address(0)
  Admin,            \* the constructor's admin
  InitialRelayers,  \* the addresses the constructor grants RELAYER_ROLE
  InitialCount,     \* initialRelayers.length: larger when the list repeats an address
  InitialThreshold, \* the constructor's threshold
  InitialBalance,   \* token balances at deployment
  InitialLimits,    \* <<perTxLimit, dailyLimit>> at deployment
  Deposit,          \* btcTxHash values
  Claim,            \* pairs <<recipient, amount>> relayers attest for a deposit
  User,             \* bound: the accounts that approve, transfer and lock tokens
  Amount,           \* the amounts they do it with
  Limits,           \* pairs setLimits is called with
  Grantable,        \* bound: the pairs <<role, account>> granted and revoked
  Timelock, DayLength,
  StartTime, MaxTime,  \* bound: the clock runs from StartTime to MaxTime
  MaxPegOuts,       \* bound: number of peg-out requests
  MaxCount          \* bound: addRelayer is not called above this relayerCount

Role == {"DEFAULT_ADMIN", "GUARDIAN", "RELAYER"}
Holder == Account \cup {Bridge, Zero}
PegOutId == 0 .. MaxPegOuts - 1
Day == 0 .. MaxTime \div DayLength

ASSUME BridgeAssumption ==
  /\ Bridge \notin Account /\ Zero \notin Account /\ Bridge # Zero
  /\ Admin \in Account
  /\ InitialRelayers \subseteq Account
  /\ InitialCount \in Nat /\ InitialThreshold \in 1 .. InitialCount
  /\ InitialBalance \in [Holder -> Nat]
  /\ InitialLimits \in Nat \X Nat /\ Limits \subseteq Nat \X Nat
  /\ Claim \subseteq (Account \cup {Zero}) \X Nat
  /\ User \subseteq Account /\ Amount \subseteq Nat
  /\ Grantable \subseteq Role \X Account
  /\ Timelock \in Nat /\ DayLength \in Nat \ {0}
  /\ StartTime \in Nat /\ MaxTime \in Nat
  /\ Timelock <= StartTime /\ StartTime <= MaxTime
  /\ MaxPegOuts \in Nat /\ MaxCount \in Nat

\* Addresses and transaction hashes have a fixed width.
ASSUME FiniteAssumption == IsFiniteSet(Account) /\ IsFiniteSet(Deposit)

VARIABLES
  roles,                  \* AccessControl: the accounts that hold each role
  paused,                 \* Pausable
  requiredConfirmations,  \* M
  relayerCount,           \* N, as the contract counts it
  limits,                 \* <<perTxLimit, dailyLimit>>
  withdrawnToday, lastResetDay,
  pegInRequests, pegInConfirmedBy,
  pegOutRequests, pegOutConfirmedBy, nextPegOutId,
  balanceOf,              \* the token's balances
  allowance,              \* what each account lets the bridge draw
  now,                    \* block.timestamp
  attested,               \* history: what each relayer said of each deposit
  redeemedOn              \* history: amount of peg-outs executed on each day

config == <<roles, paused, requiredConfirmations, relayerCount, limits>>
daily == <<withdrawnToday, lastResetDay, redeemedOn>>
pegIns == <<pegInRequests, pegInConfirmedBy, attested>>
pegOuts == <<pegOutRequests, pegOutConfirmedBy, nextPegOutId>>
token == <<balanceOf, allowance>>
vars == <<config, daily, pegIns, pegOuts, token, now>>

NoPegIn == [recipient |-> Zero, amount |-> 0, confirmations |-> 0, executed |-> FALSE]
NoPegOut == [requester |-> Zero, amount |-> 0, confirmations |-> 0,
             requestedAt |-> 0, executed |-> FALSE]

Init ==
  /\ roles = [r \in Role |-> IF r = "RELAYER" THEN InitialRelayers ELSE {Admin}]
  /\ paused = FALSE
  /\ requiredConfirmations = InitialThreshold
  /\ relayerCount = InitialCount
  /\ limits = InitialLimits
  /\ withdrawnToday = 0 /\ lastResetDay = 0
  /\ pegInRequests = [d \in Deposit |-> NoPegIn]
  /\ pegInConfirmedBy = [d \in Deposit |-> {}]
  /\ pegOutRequests = [id \in PegOutId |-> NoPegOut]
  /\ pegOutConfirmedBy = [id \in PegOutId |-> {}]
  /\ nextPegOutId = 0
  /\ balanceOf = InitialBalance
  /\ allowance = [a \in Account |-> 0]
  /\ now = StartTime
  /\ attested = [d \in Deposit |-> {}]
  /\ redeemedOn = [d \in Day |-> 0]

-----------------------------------------------------------------------------
(* The wrapped token *)

\* Slip: the sender keeps its tokens.
Credited(from, to, value) == [balanceOf EXCEPT ![to] = @ + value]

\* A holder may pay itself: what is added is added to what is left.
Moved(from, to, value) ==
  LET taken == [balanceOf EXCEPT ![from] = @ - value]
  IN  [taken EXCEPT ![to] = @ + value]

TokenApprove(owner, value) ==
  /\ allowance' = [allowance EXCEPT ![owner] = value]
  /\ UNCHANGED <<config, daily, pegIns, pegOuts, balanceOf, now>>

TokenTransfer(from, to, value) ==
  /\ value <= balanceOf[from]
  /\ balanceOf' = Moved(from, to, value)
  /\ UNCHANGED <<config, daily, pegIns, pegOuts, allowance, now>>

-----------------------------------------------------------------------------
(* Peg-in: a native deposit releases wrapped tokens *)

\* Slip: a relayer may confirm again.
AnyConfirmation(relayer, confirmedBy) == TRUE

NotYetConfirmed(relayer, confirmedBy) == relayer \notin confirmedBy

\* Slip: off by one.
QuorumOneShort(confirmations) == confirmations + 1 >= requiredConfirmations

Quorum(confirmations) == confirmations >= requiredConfirmations

\* Slip: executed is never set.
PegInLeftOpen(req, recipient, amount) ==
  [recipient |-> recipient, amount |-> amount,
   confirmations |-> req.confirmations + 1, executed |-> FALSE]

\* The request a confirmation leaves behind.  While the recipient is address(0) the
\* confirmation's own recipient and amount are taken; afterwards they are ignored.
ConfirmedPegIn(req, recipient, amount) ==
  LET n == req.confirmations + 1
      first == req.recipient = Zero
  IN [recipient     |-> IF first THEN recipient ELSE req.recipient,
      amount        |-> IF first THEN amount ELSE req.amount,
      confirmations |-> n,
      executed      |-> Quorum(n)]

ConfirmPegIn(relayer, d, recipient, amount) ==
  LET req == ConfirmedPegIn(pegInRequests[d], recipient, amount)
  IN
  /\ relayer \in roles["RELAYER"]
  /\ ~paused
  /\ ~pegInRequests[d].executed
  /\ NotYetConfirmed(relayer, pegInConfirmedBy[d])
  /\ pegInRequests' = [pegInRequests EXCEPT ![d] = req]
  /\ pegInConfirmedBy' = [pegInConfirmedBy EXCEPT ![d] = @ \cup {relayer}]
  /\ attested' = [attested EXCEPT
       ![d] = @ \cup {[relayer |-> relayer, recipient |-> recipient, amount |-> amount]}]
  /\ \/ /\ ~Quorum(req.confirmations)
        /\ UNCHANGED balanceOf
     \/ /\ Quorum(req.confirmations)  \* _executePegIn
        /\ req.amount <= balanceOf[Bridge]
        /\ balanceOf' = Moved(Bridge, req.recipient, req.amount)
  /\ UNCHANGED <<config, daily, pegOuts, allowance, now>>

-----------------------------------------------------------------------------
(* Peg-out: wrapped tokens are locked, then redeemed for native coins off-chain *)

RequestPegOut(user, amount) ==
  /\ nextPegOutId < MaxPegOuts
  /\ ~paused
  /\ amount <= limits[1]
  /\ amount <= allowance[user]
  /\ amount <= balanceOf[user]
  /\ allowance' = [allowance EXCEPT ![user] = @ - amount]
  /\ balanceOf' = Moved(user, Bridge, amount)
  /\ pegOutRequests' = [pegOutRequests EXCEPT ![nextPegOutId] =
       [requester |-> user, amount |-> amount, confirmations |-> 0,
        requestedAt |-> now, executed |-> FALSE]]
  /\ nextPegOutId' = nextPegOutId + 1
  /\ UNCHANGED <<config, daily, pegIns, pegOutConfirmedBy, now>>

today == now \div DayLength

\* _enforceDailyLimit: the stored total counts only on the day it belongs to.
WithdrawnSoFar == IF today # lastResetDay THEN 0 ELSE withdrawnToday

\* Slip: the amount itself is not counted.
LimitNotYetExceeded(amount) == WithdrawnSoFar <= limits[2]

FitsDailyLimit(amount) == WithdrawnSoFar + amount <= limits[2]

\* Slip: lastResetDay is not advanced.
ExecutePegOutSameDay(id) ==
  LET amount == pegOutRequests[id].amount
  IN
  /\ FitsDailyLimit(amount)
  /\ withdrawnToday' = WithdrawnSoFar + amount
  /\ redeemedOn' = [redeemedOn EXCEPT ![today] = @ + amount]
  /\ UNCHANGED lastResetDay

ExecutePegOut(id) ==
  LET amount == pegOutRequests[id].amount
  IN
  /\ FitsDailyLimit(amount)
  /\ lastResetDay' = today
  /\ withdrawnToday' = WithdrawnSoFar + amount
  /\ redeemedOn' = [redeemedOn EXCEPT ![today] = @ + amount]

ConfirmedPegOut(req) ==
  LET n == req.confirmations + 1
  IN  [req EXCEPT !.confirmations = n, !.executed = Quorum(n)]

\* The id need not have been requested: the mapping's zero entry passes every check.
ConfirmPegOut(relayer, id) ==
  LET req == ConfirmedPegOut(pegOutRequests[id])
  IN
  /\ relayer \in roles["RELAYER"]
  /\ ~paused
  /\ ~pegOutRequests[id].executed
  /\ NotYetConfirmed(relayer, pegOutConfirmedBy[id])
  /\ now >= pegOutRequests[id].requestedAt + Timelock
  /\ pegOutConfirmedBy' = [pegOutConfirmedBy EXCEPT ![id] = @ \cup {relayer}]
  /\ pegOutRequests' = [pegOutRequests EXCEPT ![id] = req]
  /\ IF req.executed THEN ExecutePegOut(id) ELSE UNCHANGED daily
  /\ UNCHANGED <<config, pegIns, nextPegOutId, token, now>>

-----------------------------------------------------------------------------
(* Relayer set, threshold, limits and pause *)

\* _grantRole of a holder changes nothing, but the count still goes up.
AddRelayer(caller, relayer) ==
  /\ caller \in roles["DEFAULT_ADMIN"]
  /\ relayerCount < MaxCount
  /\ roles' = [roles EXCEPT !["RELAYER"] = @ \cup {relayer}]
  /\ relayerCount' = relayerCount + 1
  /\ UNCHANGED <<paused, requiredConfirmations, limits, daily, pegIns, pegOuts, token, now>>

ThresholdAllowed(threshold, count) == threshold # 0 /\ threshold <= count

\* Slip: the threshold is not compared with the count.
RemoveRelayerUnchecked(caller, relayer) ==
  /\ caller \in roles["DEFAULT_ADMIN"]
  /\ roles' = [roles EXCEPT !["RELAYER"] = @ \ {relayer}]
  /\ relayerCount' = relayerCount - 1
  /\ UNCHANGED <<paused, requiredConfirmations, limits, daily, pegIns, pegOuts, token, now>>

\* Likewise for an account that is no relayer.
RemoveRelayer(caller, relayer) ==
  /\ caller \in roles["DEFAULT_ADMIN"]
  /\ relayerCount >= 1
  /\ requiredConfirmations <= relayerCount - 1
  /\ roles' = [roles EXCEPT !["RELAYER"] = @ \ {relayer}]
  /\ relayerCount' = relayerCount - 1
  /\ UNCHANGED <<paused, requiredConfirmations, limits, daily, pegIns, pegOuts, token, now>>

SetThreshold(caller, threshold) ==
  /\ caller \in roles["DEFAULT_ADMIN"]
  /\ ThresholdAllowed(threshold, relayerCount)
  /\ requiredConfirmations' = threshold
  /\ UNCHANGED <<roles, paused, relayerCount, limits, daily, pegIns, pegOuts, token, now>>

SetLimits(caller, newLimits) ==
  /\ caller \in roles["DEFAULT_ADMIN"]
  /\ limits' = newLimits
  /\ UNCHANGED <<roles, paused, requiredConfirmations, relayerCount,
                 daily, pegIns, pegOuts, token, now>>

Pause(caller) ==
  /\ caller \in roles["GUARDIAN"]
  /\ ~paused
  /\ paused' = TRUE
  /\ UNCHANGED <<roles, requiredConfirmations, relayerCount, limits,
                 daily, pegIns, pegOuts, token, now>>

Unpause(caller) ==
  /\ caller \in roles["DEFAULT_ADMIN"]
  /\ paused
  /\ paused' = FALSE
  /\ UNCHANGED <<roles, requiredConfirmations, relayerCount, limits,
                 daily, pegIns, pegOuts, token, now>>

\* OpenZeppelin's public grantRole, revokeRole and renounceRole: they know nothing of
\* relayerCount.
GrantRole(caller, role, account) ==
  /\ caller \in roles["DEFAULT_ADMIN"]
  /\ roles' = [roles EXCEPT ![role] = @ \cup {account}]
  /\ UNCHANGED <<paused, requiredConfirmations, relayerCount, limits,
                 daily, pegIns, pegOuts, token, now>>

RevokeRole(caller, role, account) ==
  /\ caller \in roles["DEFAULT_ADMIN"] \cup {account}
  /\ roles' = [roles EXCEPT ![role] = @ \ {account}]
  /\ UNCHANGED <<paused, requiredConfirmations, relayerCount, limits,
                 daily, pegIns, pegOuts, token, now>>

Tick ==
  /\ now < MaxTime
  /\ now' = now + 1
  /\ UNCHANGED <<config, daily, pegIns, pegOuts, token>>

-----------------------------------------------------------------------------

Next ==
  \/ Tick
  \/ \E caller \in Account :
       \/ \E d \in Deposit, claim \in Claim : ConfirmPegIn(caller, d, claim[1], claim[2])
       \/ \E amount \in Amount : caller \in User /\
            \/ TokenApprove(caller, amount)
            \/ RequestPegOut(caller, amount)
            \/ \E to \in User \cup {Bridge} : TokenTransfer(caller, to, amount)
       \/ \E id \in PegOutId : ConfirmPegOut(caller, id)
       \/ \E threshold \in 0 .. MaxCount : SetThreshold(caller, threshold)
       \/ \E newLimits \in Limits : SetLimits(caller, newLimits)
       \/ \E grant \in Grantable :
            \/ GrantRole(caller, grant[1], grant[2])
            \/ RevokeRole(caller, grant[1], grant[2])
            \/ grant[1] = "RELAYER" /\ AddRelayer(caller, grant[2])
            \/ grant[1] = "RELAYER" /\ RemoveRelayer(caller, grant[2])
       \/ Pause(caller)
       \/ Unpause(caller)

Spec == Init /\ [][Next]_vars

-----------------------------------------------------------------------------
(* Properties *)

PegIn == [recipient: Account \cup {Zero}, amount: Nat, confirmations: Nat,
          executed: BOOLEAN]
PegOut == [requester: Account \cup {Zero}, amount: Nat, confirmations: Nat,
           requestedAt: Nat, executed: BOOLEAN]
Attestation == [relayer: Account, recipient: Account \cup {Zero}, amount: Nat]

TypeOK ==
  /\ roles \in [Role -> SUBSET Account]
  /\ paused \in BOOLEAN
  /\ requiredConfirmations \in Nat /\ relayerCount \in Nat
  /\ limits \in Nat \X Nat
  /\ withdrawnToday \in Nat /\ lastResetDay \in Day
  /\ pegInRequests \in [Deposit -> PegIn]
  /\ pegInConfirmedBy \in [Deposit -> SUBSET Account]
  /\ pegOutRequests \in [PegOutId -> PegOut]
  /\ pegOutConfirmedBy \in [PegOutId -> SUBSET Account]
  /\ nextPegOutId \in 0 .. MaxPegOuts
  /\ balanceOf \in [Holder -> Nat]
  /\ allowance \in [Account -> Nat]
  /\ now \in 0 .. MaxTime
  /\ attested \in [Deposit -> SUBSET Attestation]
  /\ redeemedOn \in [Day -> Nat]

Requested == {id \in PegOutId : id < nextPegOutId}

(* However relayers come and go and the threshold moves, M stays between 1 and the      *)
(* contract's N: addRelayer, removeRelayer and setThreshold keep InvalidThreshold out.  *)
ThresholdWithinCount == requiredConfirmations \in 1 .. relayerCount

(* The confirmation counters are counts of distinct accounts: exactly for deposits; for *)
(* peg-outs never more than have confirmed, since a request overwrites an early count.  *)
ConfirmationsAreDistinct ==
  /\ \A d \in Deposit :
       pegInRequests[d].confirmations = Cardinality(pegInConfirmedBy[d])
  /\ \A id \in PegOutId :
       pegOutRequests[id].confirmations <= Cardinality(pegOutConfirmedBy[id])

(* Nothing is released or redeemed on fewer distinct relayers than the threshold in     *)
(* force at that moment, however often the relayer set and the threshold changed.       *)
QuorumAtExecution ==
  [][/\ \A d \in Deposit :
          pegInRequests'[d].executed /\ ~pegInRequests[d].executed =>
            Cardinality(pegInConfirmedBy'[d]) >= requiredConfirmations
     /\ \A id \in PegOutId :
          pegOutRequests'[id].executed /\ ~pegOutRequests[id].executed =>
            Cardinality(pegOutConfirmedBy'[id]) >= requiredConfirmations]_vars

(* withdrawnToday is a lazily reset cache: what _enforceDailyLimit takes as withdrawn   *)
(* today is what was executed today.                                                    *)
WithdrawnIsDayTotal == WithdrawnSoFar = redeemedOn[today]

(* An execution leaves the day's redeemed amount within the daily limit now in force.   *)
RedeemedWithinLimit ==
  [][redeemedOn' # redeemedOn => redeemedOn'[today] <= limits[2]]_vars

(* confirmPegIn's comment: the token is released "once `requiredConfirmations` distinct *)
(* relayers agree", so as many of them attested the recipient and amount it releases.   *)
AgreedRelease ==
  [][\A d \in Deposit :
       pegInRequests'[d].executed /\ ~pegInRequests[d].executed =>
         LET agreeing == {a \in attested'[d] :
                            /\ a.recipient = pegInRequests'[d].recipient
                            /\ a.amount = pegInRequests'[d].amount}
         IN  Cardinality(agreeing) >= requiredConfirmations]_vars

(* confirmPegOut's comment: an execution "requires M-of-N confirmations AND the         *)
(* timelock to have elapsed" since the redemption was requested.                        *)
ExecutedAfterTimelock ==
  [][\A id \in PegOutId :
       pegOutRequests'[id].executed /\ ~pegOutRequests[id].executed =>
         id \in Requested /\ now - pegOutRequests[id].requestedAt >= Timelock]_vars
=============================================================================
