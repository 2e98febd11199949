------------------------------ MODULE AgentNFT ------------------------------
(***************************************************************************)
(* ERC7857IntelligentNFT of contracts/src/ERC7857IntelligentNFT.sol: who   *)
(* owns each agent, who may move it, and its verifier and royalty.  A      *)
(* transaction is one step and a revert is no step.  The roles stay with   *)
(* the deployer, and the only operator that is ever approved is the        *)
(* marketplace.  Operators commented "Slip:" are altered forms of the      *)
(* operator that follows and take no part in the specification.            *)
(***************************************************************************)
EXTENDS Integers, Sequences

CONSTANTS
  Account,         \* externally owned accounts
  Admin,           \* the deployer: DEFAULT_ADMIN, MINTER, PAUSER
  NoOne,           \* address(0)
  MaxTokens,       \* bound: number of agents ever minted
  Traded,          \* bound: the tokens approved, listed, verified and synced
  Operated,        \* bound: the accounts that approve the marketplace for all
  Royalty,         \* pairs <<receiver, bps>> of setTokenRoyalty
  DefaultRoyalty   \* the pair given to the constructor

Token == 0 .. MaxTokens - 1

\* A receiver and a fraction, up to the whole price.
BasisPoints == 0 .. 10000
RoyaltyInfo == Account \X BasisPoints

ASSUME NFTAssumption ==
  /\ Admin \in Account /\ NoOne \notin Account
  /\ MaxTokens \in Nat
  /\ Traded \subseteq Token /\ Operated \subseteq Account

ASSUME RoyaltyAssumption ==
  /\ Royalty \subseteq RoyaltyInfo
  /\ DefaultRoyalty \in RoyaltyInfo

VARIABLES
  owner,         \* ownerOf, NoOne before the mint
  nextTokenId,
  approved,      \* tokens whose getApproved is the marketplace
  operatorFor,   \* accounts that approved the marketplace for all their tokens
  verified,      \* tokens that have a verifier
  royalty,       \* royaltyInfo's receiver and fraction, per token
  nftPaused

nftVars == <<owner, nextTokenId, approved, operatorFor, verified, royalty, nftPaused>>

NFTInit ==
  /\ owner = [t \in Token |-> NoOne]
  /\ nextTokenId = 0
  /\ approved = {} /\ operatorFor = {} /\ verified = {}
  /\ royalty = [t \in Token |-> DefaultRoyalty]
  /\ nftPaused = FALSE

\* mintAgent for one recipient, batchMintAgents for several: all of them or none.
Mint(caller, recipients) ==
  /\ caller = Admin
  /\ ~nftPaused
  /\ nextTokenId' = nextTokenId + Len(recipients)
  /\ nextTokenId' <= MaxTokens
  /\ owner' = [t \in Token |-> IF t \in nextTokenId .. nextTokenId' - 1
                               THEN recipients[t - nextTokenId + 1] ELSE owner[t]]
  /\ UNCHANGED <<approved, operatorFor, verified, royalty, nftPaused>>

Approve(caller, t, given) ==
  /\ caller = owner[t]
  /\ approved' = IF given THEN approved \cup {t} ELSE approved \ {t}
  /\ UNCHANGED <<owner, nextTokenId, operatorFor, verified, royalty, nftPaused>>

SetApprovalForAll(caller, given) ==
  /\ operatorFor' = IF given THEN operatorFor \cup {caller} ELSE operatorFor \ {caller}
  /\ UNCHANGED <<owner, nextTokenId, approved, verified, royalty, nftPaused>>

\* Slip: the override without whenNotPaused, and without the check of the sender.
UpdateUnchecked(from, to, t) ==
  /\ owner' = [owner EXCEPT ![t] = to]
  /\ approved' = approved \ {t}
  /\ UNCHANGED <<nextTokenId, operatorFor, verified, royalty, nftPaused>>

\* _update below every transfer; the token's approval is cleared.
Update(from, to, t) ==
  /\ ~nftPaused
  /\ owner[t] = from
  /\ owner' = [owner EXCEPT ![t] = to]
  /\ approved' = approved \ {t}
  /\ UNCHANGED <<nextTokenId, operatorFor, verified, royalty, nftPaused>>

\* transferFrom and safeTransferFrom, by the owner.  The verifier is not asked.
TransferFrom(caller, from, to, t) ==
  /\ caller = from
  /\ Update(from, to, t)

\* transferWithProof looks at the verifier's answer and not at msg.sender.
TransferWithProof(from, to, t, valid) ==
  /\ owner[t] = from
  /\ t \in verified => valid
  /\ Update(from, to, t)

SetVerifier(caller, t, set) ==
  /\ caller = owner[t]
  /\ verified' = IF set THEN verified \cup {t} ELSE verified \ {t}
  /\ UNCHANGED <<owner, nextTokenId, approved, operatorFor, royalty, nftPaused>>

SetTokenRoyalty(caller, t, info) ==
  /\ caller = Admin
  /\ royalty' = [royalty EXCEPT ![t] = info]
  /\ UNCHANGED <<owner, nextTokenId, approved, operatorFor, verified, nftPaused>>

SetPaused(caller, paused) ==
  /\ caller = Admin
  /\ nftPaused # paused
  /\ nftPaused' = paused
  /\ UNCHANGED <<owner, nextTokenId, approved, operatorFor, verified, royalty>>

NFTNext(caller) ==
  \/ \E to \in Account : Mint(caller, <<to>>)
  \/ \E to1, to2 \in Account : Mint(caller, <<to1, to2>>)
  \/ \E given \in BOOLEAN : caller \in Operated /\ SetApprovalForAll(caller, given)
  \/ \E t \in Traded :
       \/ \E given \in BOOLEAN : Approve(caller, t, given) \/ SetVerifier(caller, t, given)
       \/ \E info \in Royalty : SetTokenRoyalty(caller, t, info)
  \/ \E t \in Token, to \in Account :
       \/ TransferFrom(caller, caller, to, t)
       \/ \E from \in Account, valid \in BOOLEAN : TransferWithProof(from, to, t, valid)
  \/ \E paused \in BOOLEAN : SetPaused(caller, paused)

NFTTypeOK ==
  /\ owner \in [Token -> Account \cup {NoOne}]
  /\ nextTokenId \in 0 .. MaxTokens
  /\ approved \in SUBSET Token
  /\ operatorFor \in SUBSET Account
  /\ verified \in SUBSET Token
  /\ royalty \in [Token -> RoyaltyInfo]
  /\ nftPaused \in BOOLEAN
=============================================================================
