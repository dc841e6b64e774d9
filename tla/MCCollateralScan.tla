-------------------------- MODULE MCCollateralScan -------------------------
(* Instances of CollateralScan for TLC. *)
EXTENDS CollateralScan, TLC

CONSTANTS k1, k2, a1

=============================================================================
