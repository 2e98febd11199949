------------------------------ MODULE PegLedger ------------------------------
(***************************************************************************)
(* What the bridge promises the holders of the wrapped token, with no      *)
(* relayers, thresholds, clocks or roles: a native deposit releases tokens *)
(* from the reserve at most once, a holder's tokens enter the reserve only *)
(* with a request, a request is redeemed at most once, and redeeming moves *)
(* no token.                                                               *)
(***************************************************************************)
EXTENDS Integers, Sequences

CONSTANTS Holder, Reserve, Deposit, InitialBalance

VARIABLES
  balance,    \* tokens of each holder, the reserve's among them
  released,   \* deposits whose tokens have been released
  requests,   \* redemption requests in order: who locked how much
  redeemed    \* positions of the requests that have been redeemed

ledgerVars == <<balance, released, requests, redeemed>>

LedgerInit ==
  /\ balance = InitialBalance
  /\ released = {}
  /\ requests = <<>>
  /\ redeemed = {}

Pay(from, to, amount) ==
  LET taken == [balance EXCEPT ![from] = @ - amount]
  IN  amount <= balance[from] /\ balance' = [taken EXCEPT ![to] = @ + amount]

Release(d, to, amount) ==
  /\ d \notin released
  /\ Pay(Reserve, to, amount)
  /\ released' = released \cup {d}
  /\ UNCHANGED <<requests, redeemed>>

Lock(owner, amount) ==
  /\ Pay(owner, Reserve, amount)
  /\ requests' = Append(requests, [owner |-> owner, amount |-> amount])
  /\ UNCHANGED <<released, redeemed>>

Redeem(i) ==
  /\ i \in DOMAIN requests \ redeemed
  /\ redeemed' = redeemed \cup {i}
  /\ UNCHANGED <<balance, released, requests>>

\* Holders other than the reserve move tokens among themselves, or give them away.
Transfer(from, to, amount) ==
  /\ from # Reserve
  /\ Pay(from, to, amount)
  /\ UNCHANGED <<released, requests, redeemed>>

LedgerNext ==
  \/ \E from, to \in Holder : \E amount \in 0 .. balance[from] :
       \/ from = Reserve /\ \E d \in Deposit : Release(d, to, amount)
       \/ to = Reserve /\ from # Reserve /\ Lock(from, amount)
       \/ Transfer(from, to, amount)
  \/ \E i \in DOMAIN requests : Redeem(i)

LedgerSpec == LedgerInit /\ [][LedgerNext]_ledgerVars
=============================================================================
