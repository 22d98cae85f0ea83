-------------------------- MODULE MCPotentialScan --------------------------
(***************************************************************************)
(* Small books for PotentialScan: profits on both sides of the floor, and  *)
(* books shorter and longer than the depth.                                *)
(***************************************************************************)
EXTENDS PotentialScan

MCProfits == {-1, 3, 4, 5, 6}
MCThresholds == {2, 4, 5, 6, NaN}
=============================================================================
