----------------------------- MODULE MCRentals -----------------------------
(* Instances of Rentals for TLC. *)
EXTENDS Rentals, TLC

CONSTANTS w1, w2

=============================================================================
