--------------------------- MODULE RevenueTracker ---------------------------
(***************************************************************************)
(* RevenueTracker of contracts/src/ERC7857IntelligentNFT.sol: earnings per *)
(* agent, the lineage royalty of a fork, and withdrawal by whoever the     *)
(* contract has cached as the owner.  purse is the ether of the accounts   *)
(* it takes from and pays; the contract keeps no other.  Operators         *)
(* commented "Slip:" are altered forms of the operator that follows and    *)
(* take no part in the specification.                                      *)
(***************************************************************************)
EXTENDS Integers

CONSTANTS
  Agent,       \* nft ids
  Holder,      \* accounts
  Treasury,    \* the admin: DEFAULT_ADMIN and TREASURY_ROLE
  Nobody       \* address(0)

ParentShare == 0 .. 5000
LineageInfo == Agent \X ParentShare

VARIABLES
  totalEarned, withdrawable,
  lineage,          \* parent and fraction; a fraction of 0 is no lineage
  agentOwnerCache,
  held,             \* the contract's ether
  withdrawn,        \* history: ether paid out for each agent
  purse             \* the accounts' ether

TrackerInit ==
  /\ totalEarned = [a \in Agent |-> 0]
  /\ withdrawable = [a \in Agent |-> 0]
  /\ lineage = [a \in Agent |-> <<a, 0>>]
  /\ agentOwnerCache = [a \in Agent |-> Nobody]
  /\ held = 0
  /\ withdrawn = [a \in Agent |-> 0]

SyncOwner(caller, a, holder) ==
  /\ caller = Treasury
  /\ agentOwnerCache' = [agentOwnerCache EXCEPT ![a] = holder]
  /\ UNCHANGED <<totalEarned, withdrawable, lineage, held, withdrawn, purse>>

\* The parent may be the agent itself.
SetLineage(caller, a, parent, bps) ==
  /\ caller = Treasury
  /\ bps <= 5000
  /\ lineage' = [lineage EXCEPT ![a] = <<parent, bps>>]
  /\ UNCHANGED <<totalEarned, withdrawable, agentOwnerCache, held, withdrawn, purse>>

\* Slip: the agent is credited in full and the parent on top.
CreditedTwice(a, amount) ==
  LET share == (amount * lineage[a][2]) \div 10000
      toParent == [withdrawable EXCEPT ![lineage[a][1]] = @ + share]
  IN  [toParent EXCEPT ![a] = @ + amount]

\* The parent's share, rounded down, is credited first, the rest to the agent.
Credited(a, amount) ==
  LET share == (amount * lineage[a][2]) \div 10000
      toParent == [withdrawable EXCEPT ![lineage[a][1]] = @ + share]
  IN  [toParent EXCEPT ![a] = @ + amount - share]

RecordRevenue(caller, a, amount) ==
  /\ caller = Treasury
  /\ amount > 0 /\ amount <= purse[caller]
  /\ purse' = [purse EXCEPT ![caller] = @ - amount]
  /\ held' = held + amount
  /\ totalEarned' = [totalEarned EXCEPT ![a] = @ + amount]
  /\ withdrawable' = Credited(a, amount)
  /\ UNCHANGED <<lineage, agentOwnerCache, withdrawn>>

Withdraw(caller, a) ==
  LET amount == withdrawable[a]
  IN
  /\ agentOwnerCache[a] = caller
  /\ amount > 0 /\ amount <= held
  /\ withdrawable' = [withdrawable EXCEPT ![a] = 0]
  /\ held' = held - amount
  /\ purse' = [purse EXCEPT ![caller] = @ + amount]
  /\ withdrawn' = [withdrawn EXCEPT ![a] = @ + amount]
  /\ UNCHANGED <<totalEarned, lineage, agentOwnerCache>>

TrackerTypeOK ==
  /\ totalEarned \in [Agent -> Nat]
  /\ withdrawable \in [Agent -> Nat]
  /\ lineage \in [Agent -> LineageInfo]
  /\ agentOwnerCache \in [Agent -> Holder \cup {Nobody}]
  /\ held \in Nat
  /\ withdrawn \in [Agent -> Nat]
=============================================================================
