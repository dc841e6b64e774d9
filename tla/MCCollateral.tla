---------------------------- MODULE MCCollateral ----------------------------
(* Finite instances of Collateral.  Miners and the trustee are accounts of *)
(* the same set, so the trustee may also be a depositor.                   *)
EXTENDS Collateral, TLC

CONSTANTS k1, k2, a1, a2

=============================================================================
