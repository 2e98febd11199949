----------------------------- MODULE AgentMarket -----------------------------
(***************************************************************************)
(* Marketplace of contracts/src/ERC7857IntelligentNFT.sol, composed with   *)
(* the agent NFT it sells and the revenue tracker of the agents sold.  The *)
(* three contracts know of each other only by calls: the marketplace calls *)
(* the NFT, and nothing tells the tracker of a sale.  Operators commented  *)
(* "Slip:" are altered forms of the operator that follows and take no part *)
(* in the specification.                                                   *)
(***************************************************************************)
EXTENDS AgentNFT, FiniteSets, Functions

CONSTANTS
  FeeRecipient,   \* the account the protocol fee goes to
  InitialFee,     \* protocolFeeBps at deployment: 250 in the contract
  Fees,           \* fractions setProtocolFee is called with
  Price,          \* prices agents are listed at
  Payment,        \* values buy is called with
  InitialPurse,   \* ether of the accounts
  LineageBps,     \* fractions setLineage is called with
  Revenue,        \* amounts recordRevenue is called with
  Strays,         \* addresses syncOwner is called with, besides the owner the NFT names
  Forked,         \* bound: the agents setLineage is called for
  MaxEarned       \* bound: ether recorded for each agent

VARIABLES
  totalEarned, withdrawable, lineage, agentOwnerCache, held, withdrawn, purse,
  listings,         \* seller, price and active flag of each token
  protocolFeeBps,
  marketHeld,       \* the marketplace's ether
  bought            \* history: tokens whose owner got them on the marketplace

Tracker == INSTANCE RevenueTracker WITH
  Agent <- Token, Holder <- Account, Treasury <- Admin, Nobody <- NoOne

ASSUME FeeAssumption == FeeRecipient \in Account /\ InitialFee \in 0 .. 1000

ASSUME MarketAssumption ==
  /\ Fees \subseteq Nat
  /\ Price \subseteq Nat /\ Payment \subseteq Nat
  /\ InitialPurse \in [Account -> Nat]

ASSUME LineageAssumption ==
  /\ LineageBps \subseteq Nat /\ Revenue \subseteq Nat
  /\ Strays \subseteq Account \cup {NoOne}
  /\ Forked \subseteq Token /\ MaxEarned \in Nat

\* Addresses are 160 bits wide.
ASSUME AccountAssumption == IsFiniteSet(Account)

marketVars == <<listings, protocolFeeBps, marketHeld>>
trackerVars == <<totalEarned, withdrawable, lineage, agentOwnerCache, held, withdrawn>>
vars == <<nftVars, trackerVars, marketVars, purse, bought>>

Init ==
  /\ NFTInit
  /\ Tracker!TrackerInit
  /\ purse = InitialPurse
  /\ listings = [t \in Token |-> [seller |-> NoOne, price |-> 0, active |-> FALSE]]
  /\ protocolFeeBps = InitialFee
  /\ marketHeld = 0
  /\ bought = {}

MayMove(t) == t \in approved \/ owner[t] \in operatorFor

List(caller, t, price) ==
  /\ owner[t] = caller
  /\ MayMove(t)
  /\ listings' = [listings EXCEPT ![t] = [seller |-> caller, price |-> price, active |-> TRUE]]
  /\ UNCHANGED <<nftVars, trackerVars, protocolFeeBps, marketHeld, purse, bought>>

\* By whoever listed the token last, owner or not; also when nothing is active.
CancelListing(caller, t) ==
  /\ listings[t].seller = caller
  /\ listings' = [listings EXCEPT ![t].active = FALSE]
  /\ UNCHANGED <<nftVars, trackerVars, protocolFeeBps, marketHeld, purse, bought>>

\* Slip: the refund is left out of the payments.
PaidOutNoRefund(buyer, value, t) ==
  LET price == listings[t].price
      royaltyAmount == (price * royalty[t][2]) \div 10000
      fee == (price * protocolFeeBps) \div 10000
      due(amount, to, a) == IF a = to THEN amount ELSE 0
  IN  [a \in Account |-> due(royaltyAmount, royalty[t][1], a) + due(fee, FeeRecipient, a)
                          + due(price - fee - royaltyAmount, listings[t].seller, a)]

\* What buy pays each account: royalty, protocol fee, proceeds and refund.
PaidOut(buyer, value, t) ==
  LET price == listings[t].price
      royaltyAmount == (price * royalty[t][2]) \div 10000
      fee == (price * protocolFeeBps) \div 10000
      due(amount, to, a) == IF a = to THEN amount ELSE 0
  IN  [a \in Account |-> due(royaltyAmount, royalty[t][1], a) + due(fee, FeeRecipient, a)
                          + due(price - fee - royaltyAmount, listings[t].seller, a)
                          + due(value - price, buyer, a)]

\* The checked subtraction reverts a sale whose fee and royalty exceed its price.
Covered(t) ==
  LET price == listings[t].price
  IN  (price * royalty[t][2]) \div 10000 + (price * protocolFeeBps) \div 10000 <= price

Buy(buyer, value, t) ==
  LET paid == PaidOut(buyer, value, t)
  IN
  /\ listings[t].active
  /\ value >= listings[t].price /\ value <= purse[buyer]
  /\ Covered(t)
  /\ MayMove(t)
  /\ Update(listings[t].seller, buyer, t)
  /\ listings' = [listings EXCEPT ![t].active = FALSE]
  /\ purse' = [a \in Account |-> purse[a] + paid[a] - (IF a = buyer THEN value ELSE 0)]
  /\ marketHeld' = marketHeld + value - SumFunction(paid)
  /\ bought' = bought \cup {t}
  /\ UNCHANGED <<trackerVars, protocolFeeBps>>

\* Slip: no upper bound.
SetProtocolFeeUnbounded(caller, bps) ==
  /\ caller = Admin
  /\ protocolFeeBps' = bps
  /\ UNCHANGED <<nftVars, trackerVars, listings, marketHeld, purse, bought>>

SetProtocolFee(caller, bps) ==
  /\ caller = Admin
  /\ bps <= 1000
  /\ protocolFeeBps' = bps
  /\ UNCHANGED <<nftVars, trackerVars, listings, marketHeld, purse, bought>>

OwnersMove(caller) ==
  /\ NFTNext(caller)
  /\ bought' = {t \in bought : owner'[t] = owner[t]}
  /\ UNCHANGED <<trackerVars, marketVars, purse>>

\* The tracker takes whatever owner the treasury names, as it takes parents and amounts.
Earnings(caller) ==
  /\ \E t \in Token :
       \/ \E holder \in Strays \cup {owner[t]} :
            t \in Traded /\ Tracker!SyncOwner(caller, t, holder)
       \/ \E parent \in Token, bps \in LineageBps :
            t \in Forked /\ Tracker!SetLineage(caller, t, parent, bps)
       \/ \E amount \in Revenue :
            totalEarned[t] + amount <= MaxEarned /\ Tracker!RecordRevenue(caller, t, amount)
       \/ Tracker!Withdraw(caller, t)
  /\ UNCHANGED <<nftVars, marketVars, bought>>

Next ==
  \E caller \in Account :
    \/ OwnersMove(caller)
    \/ Earnings(caller)
    \/ \E t \in Traded :
         \/ \E price \in Price : List(caller, t, price)
         \/ CancelListing(caller, t)
         \/ \E value \in Payment : Buy(caller, value, t)
    \/ \E bps \in Fees : SetProtocolFee(caller, bps)

Spec == Init /\ [][Next]_vars

-----------------------------------------------------------------------------
(* Properties *)

TypeOK ==
  /\ NFTTypeOK
  /\ Tracker!TrackerTypeOK
  /\ purse \in [Account -> Nat]
  /\ listings \in [Token -> [seller: Account \cup {NoOne}, price: Nat, active: BOOLEAN]]
  /\ protocolFeeBps \in 0 .. 1000
  /\ marketHeld \in Nat
  /\ bought \in SUBSET Token

(* The tracker can always pay every agent out: rounding, lineage (an agent may be its   *)
(* own parent) and withdrawals included, its ether is what is withdrawable, and that is *)
(* what was earned less what was withdrawn.                                             *)
TrackerSolvent ==
  /\ held = SumFunction(withdrawable)
  /\ SumFunction(totalEarned) = held + SumFunction(withdrawn)

(* A sale splits the payment without remainder, whatever fee, royalty and overpayment:  *)
(* the marketplace, which has no withdrawal, keeps nothing and no ether comes or goes.  *)
NothingStuckInMarket ==
  /\ marketHeld = 0
  /\ SumFunction(purse) + held = SumFunction(InitialPurse)

(* A listing outlives transfers of its token, but it never sells the token of someone   *)
(* else: whoever loses a token on the marketplace is the one who listed it.             *)
SaleByLister ==
  [][\A t \in Token :
       listings[t].active /\ ~listings'[t].active /\ owner'[t] # owner[t] =>
         owner[t] = listings[t].seller]_vars

(* While the NFT contract is paused no agent changes hands, by transfer, proof, mint or *)
(* sale, although the marketplace has no pause of its own.                              *)
PauseFreezesOwnership == [][nftPaused => UNCHANGED owner]_vars

(* README: "subscriber revenues transfer instantly on-chain upon purchase": what is     *)
(* withdrawn for an agent bought on the marketplace is paid to its buyer.               *)
RevenueFollowsPurchase ==
  [][\A t \in bought :
       withdrawable'[t] < withdrawable[t] => purse'[owner[t]] > purse[owner[t]]]_vars
=============================================================================
