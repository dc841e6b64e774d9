----------------------------- MODULE MCPayments -----------------------------
(* Instances of Payments for TLC. *)
EXTENDS Payments, TLC

CONSTANTS u1, u2, h1, h2, d1, d2, m1, m2

Symmetry == Permutations({h1, h2}) \cup Permutations({d1, d2}) \cup Permutations({m1, m2})

=============================================================================
