------------------------- MODULE AgentMarketProofs -------------------------
(***************************************************************************)
(* Theorems about AgentMarket, for any accounts, tokens, prices, fees,     *)
(* royalties, lineages and earnings.  Money is followed through the lemmas *)
(* on sums: each step's change of a balance is the change of the sum.      *)
(***************************************************************************)
EXTENDS AgentMarket, SumTheorems

Listing == [seller: Account \cup {NoOne}, price: Nat, active: BOOLEAN]

\* A listing that is active was made by an account, so that the proceeds go somewhere.
ActiveHasSeller == \A t \in Token : listings[t].active => listings[t].seller \in Account

\* What the tracker rests on: its ether and the accounts' are what the accounts began with.
TrackerInv ==
  /\ Tracker!TrackerTypeOK
  /\ purse \in [Account -> Nat]
  /\ TrackerSolvent
  /\ SumFunction(purse) + held = SumFunction(InitialPurse)

MarketInv ==
  /\ listings \in [Token -> Listing]
  /\ ActiveHasSeller
  /\ protocolFeeBps \in 0 .. 1000
  /\ marketHeld = 0
  /\ bought \in SUBSET Token

IInv == NFTTypeOK /\ TrackerInv /\ MarketInv

-----------------------------------------------------------------------------
(* Fractions and sums *)

LEMMA Pair == ASSUME NEW A, NEW B, NEW p \in A \X B PROVE p[1] \in A /\ p[2] \in B
OBVIOUS

LEMMA RoyaltyParts ==
  ASSUME NEW p \in RoyaltyInfo PROVE p[1] \in Account /\ p[2] \in Nat /\ p[2] <= 10000
<1>1. p[1] \in Account /\ p[2] \in BasisPoints
  BY Pair DEF RoyaltyInfo
<1>2. \A b \in BasisPoints : b \in Nat /\ b <= 10000
  BY DEF BasisPoints
<1>. QED
  BY <1>1, <1>2

LEMMA LineageParts ==
  ASSUME NEW p \in Tracker!LineageInfo PROVE p[1] \in Token /\ p[2] \in Nat /\ p[2] <= 5000
<1>1. p[1] \in Token /\ p[2] \in Tracker!ParentShare
  BY Pair DEF Tracker!LineageInfo
<1>2. \A b \in Tracker!ParentShare : b \in Nat /\ b <= 5000
  BY DEF Tracker!ParentShare
<1>. QED
  BY <1>1, <1>2

(* A sum of four functions, added element by element.                                   *)
LEMMA SumOfFour ==
  ASSUME NEW S, IsFiniteSet(S), NEW f1, NEW f2, NEW f3, NEW f4, NEW f,
         \A x \in S : /\ f1[x] \in Int /\ f2[x] \in Int /\ f3[x] \in Int /\ f4[x] \in Int
                     /\ f[x] = f1[x] + f2[x] + f3[x] + f4[x]
  PROVE  SumFunctionOnSet(f, S) = SumFunctionOnSet(f1, S) + SumFunctionOnSet(f2, S)
                                  + SumFunctionOnSet(f3, S) + SumFunctionOnSet(f4, S)
<1>. DEFINE f12 == [x \in S |-> f1[x] + f2[x]]
            f123 == [x \in S |-> f12[x] + f3[x]]
<1>1. \A x \in S : f1[x] \in Int /\ f2[x] \in Int /\ f12[x] = f1[x] + f2[x]
  OBVIOUS
<1>2. \A x \in S : f12[x] \in Int /\ f3[x] \in Int /\ f123[x] = f12[x] + f3[x]
  OBVIOUS
<1>3. \A x \in S : f123[x] \in Int /\ f4[x] \in Int /\ f[x] = f123[x] + f4[x]
  OBVIOUS
<1>. HIDE DEF f12, f123
<1>4. SumFunctionOnSet(f12, S) = SumFunctionOnSet(f1, S) + SumFunctionOnSet(f2, S)
  BY <1>1, SumPlus
<1>5. SumFunctionOnSet(f123, S) = SumFunctionOnSet(f12, S) + SumFunctionOnSet(f3, S)
  BY <1>2, SumPlus
<1>6. SumFunctionOnSet(f, S) = SumFunctionOnSet(f123, S) + SumFunctionOnSet(f4, S)
  BY <1>3, SumPlus
<1>. QED
  BY <1>4, <1>5, <1>6

(* One payment to one account.                                                          *)
LEMMA OnePayment ==
  ASSUME NEW S, IsFiniteSet(S), NEW a \in S, NEW v \in Nat, NEW f,
         \A x \in S : f[x] = IF x = a THEN v ELSE 0
  PROVE  SumFunctionOnSet(f, S) = v /\ \A x \in S : f[x] \in Int
<1>1. f[a] = v /\ \A x \in S : f[x] \in Int /\ (x # a => f[x] = 0)
  OBVIOUS
<1>. QED
  BY <1>1, SumSingle

(* What buy pays adds up to what the buyer sent, if fee and royalty leave the price.    *)
LEMMA PaidInFull ==
  ASSUME TypeOK, NEW buyer \in Account, NEW value \in Nat, NEW t \in Token,
         listings[t].seller \in Account, listings[t].price <= value, Covered(t)
  PROVE  /\ PaidOut(buyer, value, t) \in [Account -> Nat]
         /\ SumFunctionOnSet(PaidOut(buyer, value, t), Account) = value
<1>. DEFINE price == listings[t].price
            seller == listings[t].seller
            receiver == royalty[t][1]
            bps == royalty[t][2]
            r == (price * bps) \div 10000
            fee == (price * protocolFeeBps) \div 10000
            rest == price - fee - r
            change == value - price
            paid == PaidOut(buyer, value, t)
            due(a, v) == [x \in Account |-> IF x = a THEN v ELSE 0]
            f1 == due(receiver, r)
            f2 == due(FeeRecipient, fee)
            f3 == due(seller, rest)
            f4 == due(buyer, change)
<1>1. price \in Nat /\ protocolFeeBps \in Nat /\ protocolFeeBps <= 10000
  BY DEF TypeOK
<1>2. receiver \in Account /\ bps \in Nat /\ bps <= 10000
  <2>1. royalty \in [Token -> RoyaltyInfo]
    BY DEF TypeOK, NFTTypeOK
  <2>2. royalty[t] \in RoyaltyInfo
    BY <2>1
  <2>. QED
    BY <2>2, RoyaltyParts
<1>3. r + fee <= price /\ price <= value
  BY DEF Covered
<1>4. seller \in Account /\ FeeRecipient \in Account
  BY FeeAssumption
<1>5. paid = [a \in Account |-> (IF a = receiver THEN r ELSE 0) + (IF a = FeeRecipient THEN fee ELSE 0)
                                + (IF a = seller THEN rest ELSE 0)
                                + (IF a = buyer THEN change ELSE 0)]
  BY DEF PaidOut
<1>. HIDE DEF price, seller, receiver, bps, paid
<1>6. r \in 0 .. price /\ fee \in 0 .. price
  <2>. DEFINE p == price * bps
              q == price * protocolFeeBps
  <2>1. p \in Nat /\ p <= price * 10000
    BY <1>1, <1>2
  <2>2. q \in Nat /\ q <= price * 10000
    BY <1>1
  <2>3. r = p \div 10000 /\ fee = q \div 10000
    OBVIOUS
  <2>. HIDE DEF p, q, r, fee
  <2>. QED
    BY <1>1, <2>1, <2>2, <2>3
<1>. HIDE DEF r, fee
<1>7. r \in Nat /\ fee \in Nat /\ rest \in Nat /\ change \in Nat /\ r + fee + rest + change = value
  BY <1>1, <1>3, <1>6
<1>. HIDE DEF rest, change
<1>8. paid \in [Account -> Nat]
  BY <1>5, <1>7
<1>9. \A x \in Account : /\ f1[x] = (IF x = receiver THEN r ELSE 0)
                         /\ f2[x] = (IF x = FeeRecipient THEN fee ELSE 0)
                         /\ f3[x] = (IF x = seller THEN rest ELSE 0)
                         /\ f4[x] = (IF x = buyer THEN change ELSE 0)
  OBVIOUS
<1>. HIDE DEF f1, f2, f3, f4
<1>10. /\ SumFunctionOnSet(f1, Account) = r /\ SumFunctionOnSet(f2, Account) = fee
       /\ SumFunctionOnSet(f3, Account) = rest /\ SumFunctionOnSet(f4, Account) = change
       /\ \A x \in Account : /\ f1[x] \in Int /\ f2[x] \in Int
                             /\ f3[x] \in Int /\ f4[x] \in Int
  <2>1. SumFunctionOnSet(f1, Account) = r /\ \A x \in Account : f1[x] \in Int
    BY <1>2, <1>7, <1>9, AccountAssumption, OnePayment
  <2>2. SumFunctionOnSet(f2, Account) = fee /\ \A x \in Account : f2[x] \in Int
    BY <1>4, <1>7, <1>9, AccountAssumption, OnePayment
  <2>3. SumFunctionOnSet(f3, Account) = rest /\ \A x \in Account : f3[x] \in Int
    BY <1>4, <1>7, <1>9, AccountAssumption, OnePayment
  <2>4. SumFunctionOnSet(f4, Account) = change /\ \A x \in Account : f4[x] \in Int
    BY <1>7, <1>9, AccountAssumption, OnePayment
  <2>. QED
    BY <2>1, <2>2, <2>3, <2>4
<1>11. \A x \in Account : paid[x] = f1[x] + f2[x] + f3[x] + f4[x]
  <2>1. \A x \in Account : paid[x] = (IF x = receiver THEN r ELSE 0)
                                    + (IF x = FeeRecipient THEN fee ELSE 0)
                                    + (IF x = seller THEN rest ELSE 0)
                                    + (IF x = buyer THEN change ELSE 0)
    BY <1>5
  <2>. QED
    BY <1>9, <2>1, Zenon
<1>12. SumFunctionOnSet(paid, Account) = r + fee + rest + change
  <2>1. SumFunctionOnSet(paid, Account) = SumFunctionOnSet(f1, Account) + SumFunctionOnSet(f2, Account)
                                          + SumFunctionOnSet(f3, Account) + SumFunctionOnSet(f4, Account)
    BY <1>10, <1>11, AccountAssumption, SumOfFour
  <2>. QED
    BY <1>10, <2>1
<1>. QED
  BY <1>7, <1>8, <1>12 DEF paid

(* The accounts' ether over a sale: what the buyer sends is what the accounts get.      *)
LEMMA SaleSums ==
  ASSUME NEW S, IsFiniteSet(S), NEW f \in [S -> Nat], NEW paid \in [S -> Nat],
         NEW b \in S, NEW value \in Nat, value <= f[b], SumFunction(paid) = value,
         NEW g, DOMAIN g = S, g = [x \in DOMAIN g |-> g[x]],
         \A x \in S : g[x] = f[x] + paid[x] - (IF x = b THEN value ELSE 0)
  PROVE  g \in [S -> Nat] /\ SumFunction(g) = SumFunction(f)
<1>. DEFINE both == [x \in S |-> f[x] + paid[x]]
<1>1. both \in [S -> Nat] /\ g \in [S -> Nat]
  OBVIOUS
<1>2. g[b] = both[b] - value /\ \A x \in S : x # b => g[x] = both[x]
  OBVIOUS
<1>3. \A x \in S : f[x] \in Int /\ paid[x] \in Int /\ both[x] = f[x] + paid[x]
  OBVIOUS
<1>. HIDE DEF both
<1>4. SumFunction(both) = SumFunction(f) + SumFunction(paid)
  <2>1. SumFunctionOnSet(both, S) = SumFunctionOnSet(f, S) + SumFunctionOnSet(paid, S)
    BY <1>3, SumPlus
  <2>2. /\ SumFunction(both) = SumFunctionOnSet(both, S)
        /\ SumFunction(f) = SumFunctionOnSet(f, S)
        /\ SumFunction(paid) = SumFunctionOnSet(paid, S)
    BY <1>1, SumWhole
  <2>. QED
    BY <2>1, <2>2
<1>5. SumFunction(g) = SumFunction(both) + g[b] - both[b]
  BY <1>1, <1>2, SumFunctionChange
<1>6. SumFunction(f) \in Nat /\ both[b] \in Nat
  BY <1>1, SumFunctionNat
<1>. QED
  BY <1>1, <1>2, <1>4, <1>5, <1>6

-----------------------------------------------------------------------------
(* The NFT *)

(* The NFT's operations: a mint, a transfer while not paused, or no change of owner.    *)
LEMMA NFTStepKinds ==
  ASSUME NEW caller \in Account, NFTNext(caller)
  PROVE  \/ UNCHANGED <<owner, nextTokenId>>
         \/ \E to \in Account : Mint(caller, <<to>>)
         \/ \E to1, to2 \in Account : Mint(caller, <<to1, to2>>)
         \/ \E from, to \in Account, t \in Token : Update(from, to, t)
<1>1. ASSUME NEW t \in Token, NEW from \in Account, NEW to \in Account, NEW valid \in BOOLEAN,
             TransferFrom(caller, caller, to, t) \/ TransferWithProof(from, to, t, valid)
      PROVE  \E f, g \in Account, u \in Token : Update(f, g, u)
  BY <1>1 DEF TransferFrom, TransferWithProof
<1>2. ASSUME NEW t \in Traded, NEW given \in BOOLEAN,
             Approve(caller, t, given) \/ SetVerifier(caller, t, given)
      PROVE  UNCHANGED <<owner, nextTokenId>>
  BY <1>2 DEF Approve, SetVerifier
<1>3. ASSUME NEW t \in Traded, NEW info \in Royalty, SetTokenRoyalty(caller, t, info)
      PROVE  UNCHANGED <<owner, nextTokenId>>
  BY <1>3 DEF SetTokenRoyalty
<1>4. ASSUME NEW b \in BOOLEAN, SetApprovalForAll(caller, b) \/ SetPaused(caller, b)
      PROVE  UNCHANGED <<owner, nextTokenId>>
  BY <1>4 DEF SetApprovalForAll, SetPaused
<1>. QED
  BY <1>1, <1>2, <1>3, <1>4 DEF NFTNext

(* Minting gives the next tokens to the recipients.                                     *)
LEMMA MintTypes ==
  ASSUME NFTTypeOK, NEW caller, NEW n \in {1, 2}, NEW recipients \in [1 .. n -> Account],
         Len(recipients) = n, Mint(caller, recipients)
  PROVE  /\ owner' \in [Token -> Account \cup {NoOne}]
         /\ nextTokenId' \in 0 .. MaxTokens
<1>0. MaxTokens \in Nat
  BY NFTAssumption
<1>1. MaxTokens \in Nat /\ nextTokenId \in Nat
  BY <1>0 DEF NFTTypeOK
<1>2. nextTokenId' = nextTokenId + n /\ nextTokenId + n <= MaxTokens
  BY DEF Mint
<1>3. owner' = [t \in Token |-> IF t \in nextTokenId .. nextTokenId' - 1
                                THEN recipients[t - nextTokenId + 1] ELSE owner[t]]
  BY DEF Mint
<1>4. \A t \in Token : t \in nextTokenId .. nextTokenId' - 1 =>
        recipients[t - nextTokenId + 1] \in Account
  BY <1>1, <1>2 DEF Token
<1>5. owner' \in [Token -> Account \cup {NoOne}]
  BY <1>3, <1>4 DEF NFTTypeOK
<1>6. nextTokenId' \in Nat /\ nextTokenId' <= MaxTokens
  BY <1>1, <1>2
<1>. QED
  BY <1>1, <1>5, <1>6

(* The NFT's operations keep its variables in their types.                              *)
LEMMA NFTTypes ==
  ASSUME NFTTypeOK, NEW caller \in Account, NFTNext(caller)
  PROVE  NFTTypeOK'
<1>1. ASSUME NEW n \in {1, 2}, NEW recipients \in [1 .. n -> Account], Len(recipients) = n,
             Mint(caller, recipients)
      PROVE  NFTTypeOK'
  <2>1. owner' \in [Token -> Account \cup {NoOne}] /\ nextTokenId' \in 0 .. MaxTokens
    BY <1>1, MintTypes
  <2>2. UNCHANGED <<approved, operatorFor, verified, royalty, nftPaused>>
    BY <1>1 DEF Mint
  <2>. QED
    BY <2>1, <2>2 DEF NFTTypeOK
<1>2. ASSUME NEW to \in Account, Mint(caller, <<to>>) PROVE NFTTypeOK'
  BY <1>1, <1>2
<1>3. ASSUME NEW to1 \in Account, NEW to2 \in Account, Mint(caller, <<to1, to2>>)
      PROVE  NFTTypeOK'
  BY <1>1, <1>3
<1>4. ASSUME NEW given \in BOOLEAN, SetApprovalForAll(caller, given) PROVE NFTTypeOK'
  BY <1>4 DEF NFTTypeOK, SetApprovalForAll
<1>5. Traded \subseteq Token
  BY NFTAssumption
<1>6. ASSUME NEW t \in Token, NEW given \in BOOLEAN, Approve(caller, t, given) \/ SetVerifier(caller, t, given)
      PROVE  NFTTypeOK'
  BY <1>6 DEF NFTTypeOK, Approve, SetVerifier
<1>7. ASSUME NEW t \in Token, NEW info \in Royalty, SetTokenRoyalty(caller, t, info)
      PROVE  NFTTypeOK'
  <2>1. info \in RoyaltyInfo
    BY RoyaltyAssumption
  <2>2. royalty \in [Token -> RoyaltyInfo] /\ royalty' = [royalty EXCEPT ![t] = info]
    BY <1>7 DEF NFTTypeOK, SetTokenRoyalty
  <2>3. royalty' \in [Token -> RoyaltyInfo]
    BY <2>1, <2>2
  <2>4. UNCHANGED <<owner, nextTokenId, approved, operatorFor, verified, nftPaused>>
    BY <1>7 DEF SetTokenRoyalty
  <2>. QED
    BY <2>3, <2>4 DEF NFTTypeOK
<1>8. ASSUME NEW from \in Account, NEW to \in Account, NEW t \in Token, Update(from, to, t)
      PROVE  NFTTypeOK'
  BY <1>8 DEF NFTTypeOK, Update
<1>9. ASSUME NEW t \in Token, NEW to \in Account, TransferFrom(caller, caller, to, t)
      PROVE  NFTTypeOK'
  BY <1>8, <1>9 DEF TransferFrom
<1>10. ASSUME NEW t \in Token, NEW from \in Account, NEW to \in Account, NEW valid \in BOOLEAN,
              TransferWithProof(from, to, t, valid)
       PROVE  NFTTypeOK'
  BY <1>8, <1>10 DEF TransferWithProof
<1>11. ASSUME NEW paused \in BOOLEAN, SetPaused(caller, paused) PROVE NFTTypeOK'
  BY <1>11 DEF NFTTypeOK, SetPaused
<1>. QED
  BY <1>2, <1>3, <1>4, <1>5, <1>6, <1>7, <1>9, <1>10, <1>11 DEF NFTNext

(* What leaves the NFT alone keeps its types.                                           *)
LEMMA NFTUntouched ==
  ASSUME NFTTypeOK, UNCHANGED <<owner, nextTokenId, approved, operatorFor, verified, royalty, nftPaused>>
  PROVE  NFTTypeOK'
BY DEF NFTTypeOK

-----------------------------------------------------------------------------
(* The tracker *)

(* What leaves the tracker and the accounts' ether alone keeps what is said of them.    *)
LEMMA TrackerUntouched ==
  ASSUME TrackerInv,
         UNCHANGED <<totalEarned, withdrawable, lineage, agentOwnerCache, held, withdrawn, purse>>
  PROVE  TrackerInv'
<1>1. Tracker!TrackerTypeOK'
  BY DEF TrackerInv, Tracker!TrackerTypeOK
<1>2. purse' = purse /\ held' = held /\ totalEarned' = totalEarned
      /\ withdrawable' = withdrawable /\ withdrawn' = withdrawn
  OBVIOUS
<1>. QED
  BY <1>1, <1>2 DEF TrackerInv, TrackerSolvent

LEMMA TokensFinite == IsFiniteSet(Token)
BY NFTAssumption, FS_Interval DEF Token

(* Revenue goes to the parent and to the agent itself in full, also when they are one,  *)
(* and at nobody's expense.                                                             *)
LEMMA CreditedInFull ==
  ASSUME TrackerInv, NEW t \in Token, NEW amount \in Nat
  PROVE  LET credited == Tracker!Credited(t, amount)
         IN  /\ credited \in [Token -> Nat]
             /\ SumFunction(credited) = SumFunction(withdrawable) + amount
             /\ \A x \in Token : withdrawable[x] <= credited[x]
<1>. DEFINE parent == lineage[t][1]
            bps == lineage[t][2]
            p == amount * bps
            share == (amount * lineage[t][2]) \div 10000
            toParent == [withdrawable EXCEPT ![parent] = withdrawable[parent] + share]
            credited == [toParent EXCEPT ![t] = toParent[t] + amount - share]
<1>1. withdrawable \in [Token -> Nat] /\ lineage \in [Token -> Tracker!LineageInfo]
  BY DEF TrackerInv, Tracker!TrackerTypeOK
<1>2. parent \in Token /\ bps \in Nat /\ bps <= 5000
  <2>1. lineage[t] \in Tracker!LineageInfo
    BY <1>1
  <2>. QED
    BY <2>1, LineageParts
<1>3. share = p \div 10000
  OBVIOUS
<1>4. p \in Nat /\ p <= amount * 5000
  <2>. HIDE DEF bps
  <2>. QED
    BY <1>2
<1>5. Tracker!Credited(t, amount) = credited
  BY DEF Tracker!Credited
<1>. HIDE DEF parent, bps, p, share
<1>6. share \in Nat /\ share <= amount
  BY <1>3, <1>4
<1>7. toParent \in [Token -> Nat] /\ toParent[parent] = withdrawable[parent] + share
      /\ \A x \in Token : x # parent => toParent[x] = withdrawable[x]
  BY <1>1, <1>2, <1>6
<1>. HIDE DEF toParent
<1>8. credited \in [Token -> Nat] /\ credited[t] = toParent[t] + amount - share
      /\ \A x \in Token : x # t => credited[x] = toParent[x]
  BY <1>6, <1>7
<1>. HIDE DEF credited
<1>9. SumFunction(toParent) = SumFunction(withdrawable) + toParent[parent] - withdrawable[parent]
  BY <1>1, <1>2, <1>7, TokensFinite, SumFunctionChange
<1>10. SumFunction(credited) = SumFunction(toParent) + credited[t] - toParent[t]
  BY <1>7, <1>8, TokensFinite, SumFunctionChange
<1>11. /\ SumFunction(withdrawable) \in Nat /\ withdrawable[parent] \in Nat /\ toParent[t] \in Nat
  BY <1>1, <1>2, <1>7, TokensFinite, SumFunctionNat
<1>12. SumFunction(credited) = SumFunction(withdrawable) + amount
  BY <1>6, <1>7, <1>8, <1>9, <1>10, <1>11
<1>13. ASSUME NEW x \in Token PROVE withdrawable[x] <= credited[x]
  <2>1. withdrawable[x] \in Nat /\ toParent[x] \in Nat /\ withdrawable[x] <= toParent[x]
    BY <1>1, <1>2, <1>6, <1>7
  <2>2. toParent[x] <= credited[x]
    BY <1>6, <1>8, <2>1
  <2>. QED
    BY <1>8, <2>1, <2>2
<1>. QED
  BY <1>5, <1>8, <1>12, <1>13

LEMMA SyncOwnerKeeps ==
  ASSUME TrackerInv, NEW caller, NEW t \in Token, NEW holder \in Account \cup {NoOne},
         Tracker!SyncOwner(caller, t, holder)
  PROVE  TrackerInv'
<1>1. agentOwnerCache' \in [Token -> Account \cup {NoOne}]
  BY DEF TrackerInv, Tracker!TrackerTypeOK, Tracker!SyncOwner
<1>2. UNCHANGED <<totalEarned, withdrawable, lineage, held, withdrawn, purse>>
  BY DEF Tracker!SyncOwner
<1>. QED
  BY <1>1, <1>2 DEF TrackerInv, Tracker!TrackerTypeOK, TrackerSolvent

LEMMA SetLineageKeeps ==
  ASSUME TrackerInv, NEW caller, NEW t \in Token, NEW parent \in Token, NEW bps \in LineageBps,
         Tracker!SetLineage(caller, t, parent, bps)
  PROVE  TrackerInv'
<1>1. bps \in Nat
  BY LineageAssumption
<1>2. lineage' = [lineage EXCEPT ![t] = <<parent, bps>>] /\ bps <= 5000
  BY DEF Tracker!SetLineage
<1>3. <<parent, bps>> \in Tracker!LineageInfo
  <2>1. bps \in Tracker!ParentShare
    BY <1>1, <1>2 DEF Tracker!ParentShare
  <2>. QED
    BY <2>1 DEF Tracker!LineageInfo
<1>4. lineage' \in [Token -> Tracker!LineageInfo]
  BY <1>2, <1>3 DEF TrackerInv, Tracker!TrackerTypeOK
<1>5. UNCHANGED <<totalEarned, withdrawable, agentOwnerCache, held, withdrawn, purse>>
  BY DEF Tracker!SetLineage
<1>. QED
  BY <1>4, <1>5 DEF TrackerInv, Tracker!TrackerTypeOK, TrackerSolvent

LEMMA RecordRevenueKeeps ==
  ASSUME TrackerInv, NEW caller \in Account, NEW t \in Token, NEW amount \in Revenue,
         Tracker!RecordRevenue(caller, t, amount)
  PROVE  TrackerInv'
<1>1. amount \in Nat
  BY LineageAssumption
<1>2. /\ amount <= purse[caller]
      /\ purse' = [purse EXCEPT ![caller] = purse[caller] - amount]
      /\ held' = held + amount
      /\ totalEarned' = [totalEarned EXCEPT ![t] = totalEarned[t] + amount]
      /\ withdrawable' = Tracker!Credited(t, amount)
      /\ UNCHANGED <<lineage, agentOwnerCache, withdrawn>>
  BY DEF Tracker!RecordRevenue
<1>3. /\ purse \in [Account -> Nat] /\ totalEarned \in [Token -> Nat]
      /\ withdrawable \in [Token -> Nat] /\ withdrawn \in [Token -> Nat] /\ held \in Nat
  BY DEF TrackerInv, Tracker!TrackerTypeOK
<1>4. purse[caller] \in Nat /\ purse[caller] - amount \in Nat
  BY <1>1, <1>2, <1>3
<1>5. totalEarned[t] \in Nat /\ totalEarned[t] + amount \in Nat
  BY <1>1, <1>3
<1>6. purse' \in [Account -> Nat]
      /\ SumFunction(purse') = SumFunction(purse) + (purse[caller] - amount) - purse[caller]
  <2>1. purse' \in [Account -> Nat] /\ purse'[caller] = purse[caller] - amount
        /\ \A x \in Account : x # caller => purse'[x] = purse[x]
    BY <1>2, <1>3, <1>4
  <2>2. SumFunction(purse') = SumFunction(purse) + purse'[caller] - purse[caller]
    BY <1>3, <2>1, AccountAssumption, SumFunctionChange
  <2>. QED
    BY <2>1, <2>2
<1>7. totalEarned' \in [Token -> Nat]
      /\ SumFunction(totalEarned') = SumFunction(totalEarned) + (totalEarned[t] + amount) - totalEarned[t]
  <2>1. totalEarned' \in [Token -> Nat] /\ totalEarned'[t] = totalEarned[t] + amount
        /\ \A x \in Token : x # t => totalEarned'[x] = totalEarned[x]
    BY <1>2, <1>3, <1>5
  <2>2. SumFunction(totalEarned') = SumFunction(totalEarned) + totalEarned'[t] - totalEarned[t]
    BY <1>3, <2>1, TokensFinite, SumFunctionChange
  <2>. QED
    BY <2>1, <2>2
<1>8. withdrawable' \in [Token -> Nat]
      /\ SumFunction(withdrawable') = SumFunction(withdrawable) + amount
  BY <1>1, <1>2, CreditedInFull
<1>9. /\ SumFunction(purse) \in Nat /\ SumFunction(totalEarned) \in Nat
      /\ SumFunction(withdrawable) \in Nat /\ SumFunction(withdrawn) \in Nat
  <2>1. SumFunction(purse) \in Nat
    BY <1>3, AccountAssumption, SumFunctionNat
  <2>. QED
    BY <1>3, <2>1, TokensFinite, SumFunctionNat
<1>10. Tracker!TrackerTypeOK'
  BY <1>1, <1>2, <1>3, <1>7, <1>8 DEF TrackerInv, Tracker!TrackerTypeOK
<1>11. /\ held = SumFunction(withdrawable)
       /\ SumFunction(totalEarned) = held + SumFunction(withdrawn)
       /\ SumFunction(purse) + held = SumFunction(InitialPurse)
  BY DEF TrackerInv, TrackerSolvent
<1>12. /\ held' = SumFunction(withdrawable')
       /\ SumFunction(totalEarned') = held' + SumFunction(withdrawn)
       /\ SumFunction(purse') + held' = SumFunction(InitialPurse)
  BY <1>1, <1>2, <1>3, <1>4, <1>5, <1>6, <1>7, <1>8, <1>9, <1>11
<1>13. withdrawn' = withdrawn
  BY <1>2
<1>. QED
  BY <1>6, <1>10, <1>12, <1>13 DEF TrackerInv, TrackerSolvent

LEMMA WithdrawKeeps ==
  ASSUME TrackerInv, NEW caller \in Account, NEW t \in Token, Tracker!Withdraw(caller, t)
  PROVE  TrackerInv'
<1>. DEFINE amount == withdrawable[t]
<1>1. /\ amount <= held
      /\ withdrawable' = [withdrawable EXCEPT ![t] = 0]
      /\ held' = held - amount
      /\ purse' = [purse EXCEPT ![caller] = purse[caller] + amount]
      /\ withdrawn' = [withdrawn EXCEPT ![t] = withdrawn[t] + amount]
      /\ UNCHANGED <<totalEarned, lineage, agentOwnerCache>>
  BY DEF Tracker!Withdraw
<1>2. /\ purse \in [Account -> Nat] /\ totalEarned \in [Token -> Nat]
      /\ withdrawable \in [Token -> Nat] /\ withdrawn \in [Token -> Nat] /\ held \in Nat
  BY DEF TrackerInv, Tracker!TrackerTypeOK
<1>3. /\ amount \in Nat /\ purse[caller] \in Nat /\ purse[caller] + amount \in Nat
      /\ withdrawn[t] \in Nat /\ withdrawn[t] + amount \in Nat
  BY <1>2
<1>. HIDE DEF amount
<1>4. purse' \in [Account -> Nat]
      /\ SumFunction(purse') = SumFunction(purse) + (purse[caller] + amount) - purse[caller]
  <2>1. purse' \in [Account -> Nat] /\ purse'[caller] = purse[caller] + amount
        /\ \A x \in Account : x # caller => purse'[x] = purse[x]
    BY <1>1, <1>2, <1>3
  <2>2. SumFunction(purse') = SumFunction(purse) + purse'[caller] - purse[caller]
    BY <1>2, <2>1, AccountAssumption, SumFunctionChange
  <2>. QED
    BY <2>1, <2>2
<1>5. withdrawn' \in [Token -> Nat]
      /\ SumFunction(withdrawn') = SumFunction(withdrawn) + (withdrawn[t] + amount) - withdrawn[t]
  <2>1. withdrawn' \in [Token -> Nat] /\ withdrawn'[t] = withdrawn[t] + amount
        /\ \A x \in Token : x # t => withdrawn'[x] = withdrawn[x]
    BY <1>1, <1>2, <1>3
  <2>2. SumFunction(withdrawn') = SumFunction(withdrawn) + withdrawn'[t] - withdrawn[t]
    BY <1>2, <2>1, TokensFinite, SumFunctionChange
  <2>. QED
    BY <2>1, <2>2
<1>6. withdrawable' \in [Token -> Nat]
      /\ SumFunction(withdrawable') = SumFunction(withdrawable) + (0) - withdrawable[t]
  <2>1. withdrawable' \in [Token -> Nat] /\ withdrawable'[t] = 0
        /\ \A x \in Token : x # t => withdrawable'[x] = withdrawable[x]
    BY <1>1, <1>2
  <2>2. SumFunction(withdrawable') = SumFunction(withdrawable) + withdrawable'[t] - withdrawable[t]
    BY <1>2, <2>1, TokensFinite, SumFunctionChange
  <2>. QED
    BY <2>1, <2>2
<1>7. /\ SumFunction(purse) \in Nat /\ SumFunction(totalEarned) \in Nat
      /\ SumFunction(withdrawable) \in Nat /\ SumFunction(withdrawn) \in Nat
  BY <1>2, AccountAssumption, TokensFinite, SumFunctionNat
<1>8. held' \in Nat
  BY <1>1, <1>2, <1>3
<1>9. Tracker!TrackerTypeOK'
  BY <1>1, <1>2, <1>5, <1>6, <1>8 DEF TrackerInv, Tracker!TrackerTypeOK
<1>10. /\ held = SumFunction(withdrawable)
       /\ SumFunction(totalEarned) = held + SumFunction(withdrawn)
       /\ SumFunction(purse) + held = SumFunction(InitialPurse)
  BY DEF TrackerInv, TrackerSolvent
<1>11. /\ held' = SumFunction(withdrawable')
       /\ SumFunction(totalEarned) = held' + SumFunction(withdrawn')
       /\ SumFunction(purse') + held' = SumFunction(InitialPurse)
  <2>1. withdrawable[t] = amount
    BY DEF amount
  <2>. QED
    BY <1>1, <1>2, <1>3, <1>4, <1>5, <1>6, <1>7, <1>10, <2>1
<1>12. totalEarned' = totalEarned
  BY <1>1
<1>. QED
  BY <1>4, <1>9, <1>11, <1>12 DEF TrackerInv, TrackerSolvent

-----------------------------------------------------------------------------
(* The marketplace *)

(* The invariant says what the runs check.                                              *)
LEMMA IInvImplies == IInv => TypeOK /\ TrackerSolvent /\ NothingStuckInMarket
BY DEF IInv, TypeOK, TrackerInv, MarketInv, NothingStuckInMarket, Listing

(* A listing that is closed keeps its seller and its price.                             *)
LEMMA ClosingKeeps ==
  ASSUME listings \in [Token -> Listing], ActiveHasSeller, NEW t \in Token,
         listings' = [listings EXCEPT ![t].active = FALSE]
  PROVE  listings' \in [Token -> Listing] /\ ActiveHasSeller'
<1>. DEFINE closed == [listings[t] EXCEPT !.active = FALSE]
<1>1. listings' = [listings EXCEPT ![t] = closed]
  OBVIOUS
<1>2. closed \in Listing /\ ~closed.active
  BY DEF Listing
<1>. HIDE DEF closed
<1>3. listings' \in [Token -> Listing]
  BY <1>1, <1>2
<1>4. \A u \in Token : listings'[u] = IF u = t THEN closed ELSE listings[u]
  BY <1>1
<1>. QED
  BY <1>2, <1>3, <1>4 DEF ActiveHasSeller

(* A purchase: the payments leave nothing in the marketplace.                           *)
LEMMA BuyKeeps ==
  ASSUME IInv, NEW buyer \in Account, NEW value \in Payment, NEW t \in Token, Buy(buyer, value, t)
  PROVE  IInv'
<1>. DEFINE paid == PaidOut(buyer, value, t)
<1>0. value \in Nat
  BY MarketAssumption
<1>1. /\ listings[t].active /\ value >= listings[t].price /\ value <= purse[buyer] /\ Covered(t)
      /\ Update(listings[t].seller, buyer, t)
      /\ listings' = [listings EXCEPT ![t].active = FALSE]
      /\ purse' = [a \in Account |-> purse[a] + paid[a] - (IF a = buyer THEN value ELSE 0)]
      /\ marketHeld' = marketHeld + value - SumFunction(paid)
      /\ bought' = bought \cup {t}
      /\ UNCHANGED <<totalEarned, withdrawable, lineage, agentOwnerCache, held, withdrawn, protocolFeeBps>>
  BY DEF Buy, trackerVars
<1>2. TypeOK /\ listings \in [Token -> Listing]
  BY IInvImplies DEF IInv, MarketInv
<1>3. listings[t].seller \in Account /\ listings[t].price \in Nat
  BY <1>1, <1>2 DEF IInv, MarketInv, ActiveHasSeller, Listing
<1>4. listings[t].price <= value
  BY <1>0, <1>1, <1>3
<1>5. paid \in [Account -> Nat] /\ SumFunctionOnSet(paid, Account) = value
  BY <1>0, <1>1, <1>2, <1>3, <1>4, PaidInFull
<1>. HIDE DEF paid
<1>6. SumFunction(paid) = value
  BY <1>5, SumWhole
<1>7. purse \in [Account -> Nat]
  BY <1>2 DEF TypeOK
<1>8. purse' \in [Account -> Nat] /\ SumFunction(purse') = SumFunction(purse)
  <2>1. DOMAIN purse' = Account /\ purse' = [x \in DOMAIN purse' |-> purse'[x]]
        /\ \A x \in Account : purse'[x] = purse[x] + paid[x] - (IF x = buyer THEN value ELSE 0)
    BY <1>1, Zenon
  <2>. QED
    BY <1>0, <1>1, <1>5, <1>6, <1>7, <2>1, AccountAssumption, SaleSums
<1>9. marketHeld' = 0
  BY <1>0, <1>1, <1>6 DEF IInv, MarketInv
<1>10. NFTTypeOK'
  <2>1. /\ owner' = [owner EXCEPT ![t] = buyer] /\ approved' = approved \ {t}
        /\ UNCHANGED <<nextTokenId, operatorFor, verified, royalty, nftPaused>>
    BY <1>1 DEF Update
  <2>2. NFTTypeOK
    BY DEF IInv
  <2>3. owner' \in [Token -> Account \cup {NoOne}] /\ approved' \in SUBSET Token
    BY <2>1, <2>2 DEF NFTTypeOK
  <2>. QED
    BY <2>1, <2>2, <2>3 DEF NFTTypeOK
<1>11. listings' \in [Token -> Listing] /\ ActiveHasSeller'
  BY <1>1, <1>2, ClosingKeeps DEF IInv, MarketInv
<1>12. TrackerInv'
  <2>1. TrackerInv
    BY DEF IInv
  <2>2. UNCHANGED <<totalEarned, withdrawable, lineage, agentOwnerCache, held, withdrawn>>
    BY <1>1
  <2>3. Tracker!TrackerTypeOK'
    BY <2>1, <2>2 DEF TrackerInv, Tracker!TrackerTypeOK
  <2>. QED
    BY <1>8, <2>1, <2>2, <2>3 DEF TrackerInv, TrackerSolvent
<1>13. bought' \in SUBSET Token /\ protocolFeeBps' \in 0 .. 1000
  BY <1>1 DEF IInv, MarketInv
<1>. QED
  BY <1>9, <1>10, <1>11, <1>12, <1>13 DEF IInv, MarketInv

(* The other operations of the marketplace, and stuttering.                             *)
LEMMA ListKeeps ==
  ASSUME IInv, NEW caller \in Account, NEW t \in Token, NEW price \in Price, List(caller, t, price)
  PROVE  IInv'
<1>1. price \in Nat
  BY MarketAssumption
<1>2. UNCHANGED <<owner, nextTokenId, approved, operatorFor, verified, royalty, nftPaused>>
      /\ UNCHANGED <<totalEarned, withdrawable, lineage, agentOwnerCache, held, withdrawn>>
      /\ UNCHANGED <<protocolFeeBps, marketHeld, purse, bought>>
  BY DEF List, nftVars, trackerVars
<1>. DEFINE listing == [seller |-> caller, price |-> price, active |-> TRUE]
<1>3. listings' = [listings EXCEPT ![t] = listing] /\ listing \in Listing /\ listing.seller = caller
  BY <1>1 DEF List, Listing
<1>. HIDE DEF listing
<1>4. listings \in [Token -> Listing] /\ ActiveHasSeller
  BY DEF IInv, MarketInv
<1>5. listings' \in [Token -> Listing] /\ ActiveHasSeller'
  BY <1>3, <1>4 DEF ActiveHasSeller
<1>6. NFTTypeOK' /\ TrackerInv'
  BY <1>2, NFTUntouched, TrackerUntouched DEF IInv
<1>. QED
  BY <1>2, <1>5, <1>6 DEF IInv, MarketInv

LEMMA CancelKeeps ==
  ASSUME IInv, NEW caller \in Account, NEW t \in Token, CancelListing(caller, t)
  PROVE  IInv'
<1>1. UNCHANGED <<owner, nextTokenId, approved, operatorFor, verified, royalty, nftPaused>>
      /\ UNCHANGED <<totalEarned, withdrawable, lineage, agentOwnerCache, held, withdrawn>>
      /\ UNCHANGED <<protocolFeeBps, marketHeld, purse, bought>>
  BY DEF CancelListing, nftVars, trackerVars
<1>2. listings' \in [Token -> Listing] /\ ActiveHasSeller'
  BY ClosingKeeps DEF CancelListing, IInv, MarketInv
<1>3. NFTTypeOK' /\ TrackerInv'
  BY <1>1, NFTUntouched, TrackerUntouched DEF IInv
<1>. QED
  BY <1>1, <1>2, <1>3 DEF IInv, MarketInv

LEMMA FeeKeeps ==
  ASSUME IInv, NEW caller \in Account, NEW bps \in Fees, SetProtocolFee(caller, bps)
  PROVE  IInv'
<1>1. protocolFeeBps' \in 0 .. 1000
  BY MarketAssumption DEF SetProtocolFee
<1>2. UNCHANGED <<owner, nextTokenId, approved, operatorFor, verified, royalty, nftPaused>>
      /\ UNCHANGED <<totalEarned, withdrawable, lineage, agentOwnerCache, held, withdrawn>>
      /\ UNCHANGED <<listings, marketHeld, purse, bought>>
  BY DEF SetProtocolFee, nftVars, trackerVars
<1>3. NFTTypeOK' /\ TrackerInv'
  BY <1>2, NFTUntouched, TrackerUntouched DEF IInv
<1>. QED
  BY <1>1, <1>2, <1>3 DEF IInv, MarketInv, ActiveHasSeller

LEMMA StutterKeeps == ASSUME IInv, UNCHANGED vars PROVE IInv'
<1>1. UNCHANGED <<owner, nextTokenId, approved, operatorFor, verified, royalty, nftPaused>>
      /\ UNCHANGED <<totalEarned, withdrawable, lineage, agentOwnerCache, held, withdrawn>>
      /\ UNCHANGED <<protocolFeeBps, listings, marketHeld, purse, bought>>
  BY DEF vars, nftVars, trackerVars, marketVars
<1>2. NFTTypeOK' /\ TrackerInv'
  BY <1>1, NFTUntouched, TrackerUntouched DEF IInv
<1>. QED
  BY <1>1, <1>2 DEF IInv, MarketInv, ActiveHasSeller

(* The NFT's operations leave tracker, marketplace and ether alone.                     *)
LEMMA OwnersKeep ==
  ASSUME IInv, NEW caller \in Account, OwnersMove(caller)
  PROVE  IInv'
<1>1. NFTTypeOK'
  BY NFTTypes DEF IInv, OwnersMove
<1>2. UNCHANGED <<totalEarned, withdrawable, lineage, agentOwnerCache, held, withdrawn>>
      /\ UNCHANGED <<protocolFeeBps, listings, marketHeld, purse>>
      /\ bought' \in SUBSET Token
  BY DEF IInv, MarketInv, OwnersMove, trackerVars, marketVars
<1>3. TrackerInv'
  BY <1>2, TrackerUntouched DEF IInv
<1>. QED
  BY <1>1, <1>2, <1>3 DEF IInv, MarketInv, ActiveHasSeller

LEMMA EarningsKeep ==
  ASSUME IInv, NEW caller \in Account, Earnings(caller)
  PROVE  IInv'
<1>1. UNCHANGED <<owner, nextTokenId, approved, operatorFor, verified, royalty, nftPaused>>
      /\ UNCHANGED <<protocolFeeBps, listings, marketHeld, bought>>
  BY DEF Earnings, nftVars, marketVars
<1>2. PICK t \in Token :
        \/ \E holder \in Strays \cup {owner[t]} : Tracker!SyncOwner(caller, t, holder)
        \/ \E parent \in Token, bps \in LineageBps : Tracker!SetLineage(caller, t, parent, bps)
        \/ \E amount \in Revenue : Tracker!RecordRevenue(caller, t, amount)
        \/ Tracker!Withdraw(caller, t)
  BY Zenon DEF Earnings
<1>3. TrackerInv
  BY DEF IInv
<1>4. ASSUME NEW holder \in Strays \cup {owner[t]}, Tracker!SyncOwner(caller, t, holder)
      PROVE  TrackerInv'
  <2>1. holder \in Account \cup {NoOne}
    BY LineageAssumption DEF IInv, NFTTypeOK
  <2>. QED
    BY <1>3, <1>4, <2>1, SyncOwnerKeeps
<1>5. TrackerInv'
  BY <1>2, <1>3, <1>4, SetLineageKeeps, RecordRevenueKeeps, WithdrawKeeps
<1>6. NFTTypeOK'
  BY <1>1, NFTUntouched DEF IInv
<1>. QED
  BY <1>1, <1>5, <1>6 DEF IInv, MarketInv, ActiveHasSeller

(* Nobody has money in the tracker or the marketplace at first.                         *)
LEMMA InitHolds == Init => IInv
<1>. SUFFICES ASSUME Init PROVE IInv
  OBVIOUS
<1>1. NFTTypeOK
  <2>1. royalty \in [Token -> RoyaltyInfo]
    BY RoyaltyAssumption DEF Init, NFTInit
  <2>2. MaxTokens \in Nat
    BY NFTAssumption
  <2>3. owner \in [Token -> Account \cup {NoOne}] /\ nextTokenId \in 0 .. MaxTokens
        /\ approved \in SUBSET Token /\ operatorFor \in SUBSET Account
        /\ verified \in SUBSET Token /\ nftPaused \in BOOLEAN
    <3>1. owner = [t \in Token |-> NoOne] /\ nextTokenId = 0
          /\ approved = {} /\ operatorFor = {} /\ verified = {} /\ nftPaused = FALSE
      BY DEF Init, NFTInit
    <3>2. owner \in [Token -> Account \cup {NoOne}]
      BY <3>1
    <3>3. nextTokenId \in 0 .. MaxTokens
      BY <2>2, <3>1
    <3>. QED
      BY <3>1, <3>2, <3>3
  <2>. QED
    BY <2>1, <2>3 DEF NFTTypeOK
<1>2. MarketInv
  BY FeeAssumption DEF Init, MarketInv, ActiveHasSeller, Listing
<1>3. Tracker!TrackerTypeOK
  <2>1. lineage \in [Token -> Tracker!LineageInfo]
    <3>1. lineage = [t \in Token |-> <<t, 0>>]
      BY DEF Init, Tracker!TrackerInit
    <3>2. 0 \in Tracker!ParentShare
      BY DEF Tracker!ParentShare
    <3>3. \A t \in Token : <<t, 0>> \in Tracker!LineageInfo
      BY <3>2 DEF Tracker!LineageInfo
    <3>. QED
      BY <3>1, <3>3
  <2>. QED
    BY <2>1 DEF Init, Tracker!TrackerInit, Tracker!TrackerTypeOK
<1>4. \A t \in Token : totalEarned[t] = 0 /\ withdrawable[t] = 0 /\ withdrawn[t] = 0
  BY DEF Init, Tracker!TrackerInit
<1>5. SumFunction(totalEarned) = 0 /\ SumFunction(withdrawable) = 0 /\ SumFunction(withdrawn) = 0
  BY <1>3, <1>4, TokensFinite, SumFunctionZero DEF Tracker!TrackerTypeOK
<1>6. purse = InitialPurse /\ purse \in [Account -> Nat] /\ held = 0
  BY MarketAssumption DEF Init, Tracker!TrackerInit
<1>7. SumFunction(purse) \in Nat
  BY <1>6, AccountAssumption, SumFunctionNat
<1>. QED
  BY <1>1, <1>2, <1>3, <1>5, <1>6, <1>7 DEF IInv, TrackerInv, TrackerSolvent

(* The invariant is inductive.                                                          *)
LEMMA Invariance == Spec => []IInv
<1>1. IInv /\ [Next]_vars => IInv'
  <2>. SUFFICES ASSUME IInv, Next PROVE IInv'
    BY StutterKeeps
  <2>1. PICK caller \in Account :
          \/ OwnersMove(caller)
          \/ Earnings(caller)
          \/ \E t \in Traded :
               \/ \E price \in Price : List(caller, t, price)
               \/ CancelListing(caller, t)
               \/ \E value \in Payment : Buy(caller, value, t)
          \/ \E bps \in Fees : SetProtocolFee(caller, bps)
    BY Zenon DEF Next
  <2>2. Traded \subseteq Token
    BY NFTAssumption
  <2>3. CASE OwnersMove(caller)
    BY <2>3, OwnersKeep
  <2>4. CASE Earnings(caller)
    BY <2>4, EarningsKeep
  <2>5. ASSUME NEW t \in Traded, NEW price \in Price, List(caller, t, price) PROVE IInv'
    BY <2>2, <2>5, ListKeeps
  <2>6. ASSUME NEW t \in Traded, CancelListing(caller, t) PROVE IInv'
    BY <2>2, <2>6, CancelKeeps
  <2>7. ASSUME NEW t \in Traded, NEW value \in Payment, Buy(caller, value, t) PROVE IInv'
    BY <2>2, <2>7, BuyKeeps
  <2>8. ASSUME NEW bps \in Fees, SetProtocolFee(caller, bps) PROVE IInv'
    BY <2>8, FeeKeeps
  <2>. QED
    BY <2>1, <2>3, <2>4, <2>5, <2>6, <2>7, <2>8
<1>. QED
  BY InitHolds, <1>1, PTL DEF Spec

(* What each kind of step does to owners and listings: the NFT's own operations leave   *)
(* the listings alone, the tracker's leave both alone.                                  *)
LEMMA StepKinds ==
  ASSUME [Next]_vars
  PROVE  \/ UNCHANGED <<owner, nextTokenId, listings>>
         \/ \E caller \in Account : NFTNext(caller) /\ UNCHANGED listings
         \/ \E caller \in Account, t \in Token, price \in Price : List(caller, t, price)
         \/ \E caller \in Account, t \in Token : CancelListing(caller, t)
         \/ \E buyer \in Account, t \in Token, value \in Payment : Buy(buyer, value, t)
<1>1. CASE UNCHANGED vars
  BY <1>1 DEF vars, nftVars, marketVars
<1>2. ASSUME NEW caller \in Account, OwnersMove(caller)
      PROVE  NFTNext(caller) /\ UNCHANGED listings
  BY <1>2 DEF OwnersMove, marketVars
<1>3. ASSUME NEW caller \in Account, Earnings(caller)
      PROVE  UNCHANGED <<owner, nextTokenId, listings>>
  BY <1>3 DEF Earnings, nftVars, marketVars
<1>4. ASSUME NEW caller \in Account, NEW bps \in Fees, SetProtocolFee(caller, bps)
      PROVE  UNCHANGED <<owner, nextTokenId, listings>>
  BY <1>4 DEF SetProtocolFee, nftVars
<1>5. Traded \subseteq Token
  BY NFTAssumption
<1>6. CASE Next
  <2>1. PICK caller \in Account :
          \/ OwnersMove(caller)
          \/ Earnings(caller)
          \/ \E t \in Traded :
               \/ \E price \in Price : List(caller, t, price)
               \/ CancelListing(caller, t)
               \/ \E value \in Payment : Buy(caller, value, t)
          \/ \E bps \in Fees : SetProtocolFee(caller, bps)
    BY <1>6, Zenon DEF Next
  <2>2. CASE OwnersMove(caller)
    BY <1>2, <2>2
  <2>3. CASE Earnings(caller)
    BY <1>3, <2>3
  <2>4. CASE \E bps \in Fees : SetProtocolFee(caller, bps)
    BY <1>4, <2>4
  <2>5. ASSUME NEW t \in Traded, NEW price \in Price, List(caller, t, price)
        PROVE  \E c \in Account, u \in Token, q \in Price : List(c, u, q)
    BY <1>5, <2>5
  <2>6. ASSUME NEW t \in Traded, CancelListing(caller, t)
        PROVE  \E c \in Account, u \in Token : CancelListing(c, u)
    BY <1>5, <2>6
  <2>7. ASSUME NEW t \in Traded, NEW value \in Payment, Buy(caller, value, t)
        PROVE  \E c \in Account, u \in Token, v \in Payment : Buy(c, v, u)
    BY <1>5, <2>7
  <2>. QED
    BY <2>1, <2>2, <2>3, <2>4, <2>5, <2>6, <2>7
<1>. QED
  BY <1>1, <1>6

-----------------------------------------------------------------------------
(* Theorems *)

(* The variables of the three contracts and the accounts' ether keep their types.       *)
THEOREM TypeCorrect == Spec => []TypeOK
BY Invariance, IInvImplies, PTL

(* The tracker can always pay every agent out, whatever fractions, lineages (an agent   *)
(* may be its own parent) and amounts: rounding neither makes nor loses ether.          *)
THEOREM TrackerPaysOut == Spec => []TrackerSolvent
BY Invariance, IInvImplies, PTL

(* A sale pays out what the buyer sent to the wei, whichever of seller, buyer, fee and  *)
(* royalty recipient coincide, and the accounts' ether and the tracker's add up.        *)
THEOREM NothingStuck == Spec => []NothingStuckInMarket
BY Invariance, IInvImplies, PTL

(* A listing never sells the token of someone else: what a purchase takes belonged to   *)
(* whoever listed it, however often the token moved in between.                         *)
THEOREM ListersSell == Spec => SaleByLister
<1>. DEFINE SoldBy(t) == listings[t].active /\ ~listings'[t].active /\ owner'[t] # owner[t] =>
                           owner[t] = listings[t].seller
<1>1. ASSUME IInv, [Next]_vars, NEW t \in Token PROVE SoldBy(t)
  <2>1. ASSUME NEW buyer \in Account, NEW u \in Token, NEW value \in Payment, Buy(buyer, value, u)
        PROVE  SoldBy(t)
    <3>1. /\ owner[u] = listings[u].seller
          /\ owner' = [owner EXCEPT ![u] = buyer]
      BY <2>1 DEF Buy, Update
    <3>. QED
      BY <1>1, <3>1 DEF IInv, NFTTypeOK
  <2>2. ASSUME NEW caller \in Account, NEW u \in Token, CancelListing(caller, u) PROVE SoldBy(t)
    BY <2>2 DEF CancelListing, nftVars
  <2>3. ASSUME NEW caller \in Account, NEW u \in Token, NEW price \in Price, List(caller, u, price)
        PROVE  SoldBy(t)
    BY <2>3 DEF List, nftVars
  <2>. QED
    BY <1>1, <2>1, <2>2, <2>3, StepKinds
<1>2. IInv /\ [Next]_vars => [\A t \in Token : SoldBy(t)]_vars
  BY <1>1
<1>. QED
  BY <1>2, Invariance, PTL DEF Spec, SaleByLister

(* While the NFT is paused no agent changes hands, by whichever of its paths or through *)
(* the marketplace.                                                                     *)
THEOREM PauseHolds == Spec => PauseFreezesOwnership
<1>1. ASSUME [Next]_vars, nftPaused PROVE UNCHANGED owner
  <2>1. ASSUME NEW caller \in Account, NFTNext(caller) PROVE UNCHANGED owner
    BY <1>1, <2>1, NFTStepKinds DEF Mint, Update
  <2>2. ~\E buyer \in Account, t \in Token, value \in Payment : Buy(buyer, value, t)
    BY <1>1 DEF Buy, Update
  <2>. QED
    BY <1>1, <2>1, <2>2, StepKinds DEF List, CancelListing, nftVars
<1>2. [Next]_vars => [nftPaused => UNCHANGED owner]_vars
  BY <1>1
<1>. QED
  BY <1>2, PTL DEF Spec, PauseFreezesOwnership

-----------------------------------------------------------------------------
(* What does hold of the claim the runs refute *)

PayoutStep ==
  \A t \in Token : withdrawable'[t] < withdrawable[t] =>
    /\ agentOwnerCache[t] \in Account
    /\ withdrawable'[t] = 0
    /\ withdrawn'[t] = withdrawn[t] + withdrawable[t]
    /\ purse' = [purse EXCEPT ![agentOwnerCache[t]] = @ + withdrawable[t]]
    /\ agentOwnerCache[t] = owner[t] => purse'[owner[t]] > purse[owner[t]]

(* How much of RevenueFollowsPurchase does hold: revenue leaves an agent only whole, to *)
(* the account cached as its owner and to nobody else, so to the buyer of an agent once *)
(* the treasury has synced the sale.                                                    *)
PaidToCachedOwner == [][PayoutStep]_vars

(* Outside the tracker nothing changes what is withdrawable.                            *)
LEMMA OnlyEarningsPay ==
  ASSUME [Next]_vars
  PROVE  (\E caller \in Account : Earnings(caller)) \/ UNCHANGED withdrawable
<1>1. CASE UNCHANGED vars
  BY <1>1 DEF vars, trackerVars
<1>2. ASSUME NEW caller \in Account, OwnersMove(caller) PROVE UNCHANGED withdrawable
  BY <1>2 DEF OwnersMove, trackerVars
<1>3. ASSUME NEW caller \in Account, NEW t, NEW price, List(caller, t, price)
      PROVE  UNCHANGED withdrawable
  BY <1>3 DEF List, trackerVars
<1>4. ASSUME NEW caller \in Account, NEW t, CancelListing(caller, t) PROVE UNCHANGED withdrawable
  BY <1>4 DEF CancelListing, trackerVars
<1>5. ASSUME NEW buyer \in Account, NEW t, NEW value, Buy(buyer, value, t)
      PROVE  UNCHANGED withdrawable
  BY <1>5 DEF Buy, trackerVars
<1>6. ASSUME NEW caller \in Account, NEW bps, SetProtocolFee(caller, bps)
      PROVE  UNCHANGED withdrawable
  BY <1>6 DEF SetProtocolFee, trackerVars
<1>. QED
  BY <1>1, <1>2, <1>3, <1>4, <1>5, <1>6, Zenon DEF Next

(* The tracker pays whoever it has cached as the owner, the whole of the agent's share. *)
LEMMA WithdrawPays ==
  ASSUME TrackerInv, NEW caller \in Account, NEW u \in Token, Tracker!Withdraw(caller, u)
  PROVE  PayoutStep
<1>. DEFINE amount == withdrawable[u]
<1>1. /\ agentOwnerCache[u] = caller /\ amount > 0
      /\ withdrawable' = [withdrawable EXCEPT ![u] = 0]
      /\ purse' = [purse EXCEPT ![caller] = purse[caller] + amount]
      /\ withdrawn' = [withdrawn EXCEPT ![u] = withdrawn[u] + amount]
  BY DEF Tracker!Withdraw
<1>2. /\ purse \in [Account -> Nat] /\ withdrawable \in [Token -> Nat] /\ withdrawn \in [Token -> Nat]
  BY DEF TrackerInv, Tracker!TrackerTypeOK
<1>3. \A t \in Token : withdrawable'[t] < withdrawable[t] => t = u
  BY <1>1, <1>2
<1>4. purse'[caller] = purse[caller] + amount /\ purse[caller] \in Nat /\ amount \in Nat
  BY <1>1, <1>2
<1>5. purse'[caller] > purse[caller]
  BY <1>1, <1>4
<1>6. withdrawable'[u] = 0 /\ withdrawn'[u] = withdrawn[u] + amount
  BY <1>1, <1>2
<1>. QED
  BY <1>1, <1>3, <1>5, <1>6 DEF PayoutStep

(* The part of the README's promise that holds, for any number of agents, sales, forks  *)
(* and earnings: a withdrawal pays the cached owner all that the agent has.             *)
THEOREM CachedOwnersPaid == Spec => PaidToCachedOwner
<1>1. ASSUME IInv, [Next]_vars PROVE PayoutStep
  <2>1. withdrawable \in [Token -> Nat] /\ TrackerInv
    BY <1>1 DEF IInv, TrackerInv, Tracker!TrackerTypeOK
  <2>2. ASSUME \A t \in Token : withdrawable[t] <= withdrawable'[t], withdrawable' \in [Token -> Nat]
        PROVE  PayoutStep
    <3>1. \A t \in Token : withdrawable[t] \in Nat /\ withdrawable'[t] \in Nat
      BY <2>1, <2>2
    <3>. QED
      BY <2>2, <3>1 DEF PayoutStep
  <2>3. CASE UNCHANGED withdrawable
    BY <2>1, <2>2, <2>3
  <2>4. ASSUME NEW caller \in Account, Earnings(caller) PROVE PayoutStep
    <3>1. PICK t \in Token :
            \/ \E holder \in Strays \cup {owner[t]} : Tracker!SyncOwner(caller, t, holder)
            \/ \E parent \in Token, bps \in LineageBps : Tracker!SetLineage(caller, t, parent, bps)
            \/ \E amount \in Revenue : Tracker!RecordRevenue(caller, t, amount)
            \/ Tracker!Withdraw(caller, t)
      BY <2>4, Zenon DEF Earnings
    <3>2. ASSUME NEW holder, Tracker!SyncOwner(caller, t, holder)  PROVE PayoutStep
      BY <2>3, <3>2 DEF Tracker!SyncOwner
    <3>3. ASSUME NEW parent \in Token, NEW bps \in LineageBps, Tracker!SetLineage(caller, t, parent, bps)
          PROVE  PayoutStep
      BY <2>3, <3>3 DEF Tracker!SetLineage
    <3>4. ASSUME NEW amount \in Revenue, Tracker!RecordRevenue(caller, t, amount) PROVE PayoutStep
      <4>1. amount \in Nat /\ withdrawable' = Tracker!Credited(t, amount)
        BY <3>4, LineageAssumption DEF Tracker!RecordRevenue
      <4>. QED
        BY <2>1, <2>2, <4>1, CreditedInFull
    <3>5. CASE Tracker!Withdraw(caller, t)
      BY <2>1, <3>5, WithdrawPays
    <3>. QED
      BY <3>1, <3>2, <3>3, <3>4, <3>5
  <2>. QED
    BY <1>1, <2>3, <2>4, OnlyEarningsPay
<1>2. IInv /\ [Next]_vars => [PayoutStep]_vars
  BY <1>1
<1>. QED
  BY <1>2, Invariance, PTL DEF Spec, PaidToCachedOwner
=============================================================================
