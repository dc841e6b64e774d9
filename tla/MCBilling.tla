----------------------------- MODULE MCBilling -----------------------------
(* Instances of Billing for TLC. *)
EXTENDS BillingLedger, TLC

CONSTANTS w1, w2, u1, u2

DepositAndDebit == {2, -1}
SignedCosts == {1, -1}
CostsOfEitherSign == {-1, 1, 2}

Symmetry == Permutations({w1, w2}) \cup Permutations({u1, u2})

=============================================================================
