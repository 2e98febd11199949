---------------------------- MODULE BridgeLedger ----------------------------
(***************************************************************************)
(* The bridge contract implements PegLedger, and its tokens add up.        *)
(***************************************************************************)
EXTENDS BridgeContract, Sequences, Functions

\* The zero-amount entries an early execution leaves behind nextPegOutId are no request
\* of anyone: the ledger sees ids below it only.
LedgerRequests ==
  [i \in 1 .. nextPegOutId |-> [owner  |-> pegOutRequests[i - 1].requester,
                                amount |-> pegOutRequests[i - 1].amount]]
RedeemedRequests == {i \in 1 .. nextPegOutId : pegOutRequests[i - 1].executed}
ReleasedDeposits == {d \in Deposit : pegInRequests[d].executed}

Ledger == INSTANCE PegLedger WITH
  Reserve  <- Bridge,
  balance  <- balanceOf,
  released <- ReleasedDeposits,
  requests <- LedgerRequests,
  redeemed <- RedeemedRequests

(* The contract implements the ledger: whatever relayers, admins and users do, each     *)
(* deposit is released once, each request redeemed once, and tokens move in no other    *)
(* way.                                                                                 *)
ImplementsLedger == Ledger!LedgerSpec

\* Tokens that requests have locked, and that deposits have released.
Locked ==
  [id \in PegOutId |-> IF id \in Requested THEN pegOutRequests[id].amount ELSE 0]
Released ==
  [d \in Deposit |-> IF d \in ReleasedDeposits THEN pegInRequests[d].amount ELSE 0]

(* The reserve holds what it was given and what requests locked, less what deposits     *)
(* released (users may give it more), and no token is created or destroyed.             *)
TokensAddUp ==
  /\ balanceOf[Bridge] + SumFunction(Released) >= InitialBalance[Bridge] + SumFunction(Locked)
  /\ SumFunction(balanceOf) = SumFunction(InitialBalance)
=============================================================================
