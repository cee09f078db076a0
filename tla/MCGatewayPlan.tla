---------------------------- MODULE MCGatewayPlan ----------------------------
(* Instances of GatewayPlan for TLC. *)
EXTENDS GatewayPlan

CONSTANTS d1, d2, d3

\* A two-stage pipeline; d3 only hosts a backup, and d2 backs up d1, so the
\* failures of d1 and d2 together are infeasible while each alone is not.
TwoStages == <<d1, d2>>
ChainedBackups == [d \in Device |->
  CASE d = d1 -> d2 [] d = d2 -> d3 [] OTHER -> NoDevice]

\* Two workers that back each other up.
MutualBackups == [d \in Device |-> IF d = d1 THEN d2 ELSE d1]
=============================================================================
