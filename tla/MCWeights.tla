----------------------------- MODULE MCWeights -----------------------------
(* Instances of Weights for TLC. *)
EXTENDS Weights, TLC

CONSTANTS m1, m2, m3, A, B

\* Percentages in hundredths of a percent, with the pairs of shares that miss one
\* hundred percent by the code's tolerance, 0.01.
SomeBurns == {0, 1, 5000, 10000}
SomeShares == {0, 1, 3333, 4999, 5000, 5001, 6667, 10000, 10001}

=============================================================================
