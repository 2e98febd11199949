--------------------------- MODULE MCPolicyEngine ---------------------------
(***************************************************************************)
(* A small instance of PolicyEngine: one agent, one target, an admin and   *)
(* an executor, two actions and three days.                                *)
(***************************************************************************)
EXTENDS PolicyEngine

Policy(perTx, daily, threshold) ==
  [perTxLimit |-> perTx, dailyLimit |-> daily,
   humanApprovalThreshold |-> threshold, exists |-> TRUE]

\* Two policies: all values need approval and the day holds two actions; only the
\* larger value does, and the day holds one large or two small ones.
MCPolicies == {Policy(2, 3, 0), Policy(2, 2, 1)}
=============================================================================
