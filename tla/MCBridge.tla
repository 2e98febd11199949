------------------------------ MODULE MCBridge ------------------------------
(***************************************************************************)
(* A small instance of the bridge: two relayers of which both must agree,  *)
(* an account that can be made a third one, one user.                      *)
(***************************************************************************)
EXTENDS BridgeLedger

CONSTANTS admin, r1, r2, u1, bridge, zero

MCBalance == [h \in Holder |-> IF h = Bridge THEN 1 ELSE IF h = u1 THEN 2 ELSE 0]
MCClaims == {<<u1, 2>>}
MCTwoClaims == {<<u1, 1>>, <<u1, 2>>}
MCInitialLimits == <<1, 1>>
MCLimits == {<<1, 1>>, <<1, 2>>}
MCGrantable == {<<"RELAYER", r1>>}
=============================================================================
