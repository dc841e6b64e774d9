--------------------------- MODULE MCPriceOracle ----------------------------
(* Instances of PriceOracle for TLC. *)
EXTENDS PriceOracle, TLC

CONSTANT c1

=============================================================================
