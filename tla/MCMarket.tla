------------------------------ MODULE MCMarket ------------------------------
(***************************************************************************)
(* A small instance of the market: the deployer and one more account, two  *)
(* agents, one price, payments with and without a refund.                  *)
(***************************************************************************)
EXTENDS AgentMarket

CONSTANTS admin, alice

\* The royalty of a token goes to alice: 5% by default, or enough, with the larger fee,
\* to exceed the price.
MCDefaultRoyalty == <<alice, 500>>
MCRoyalty == {<<alice, 10000>>}
MCPurse == [a \in Account |-> IF a = admin THEN 3 ELSE 21]
=============================================================================
