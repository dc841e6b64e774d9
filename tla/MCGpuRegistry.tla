--------------------------- MODULE MCGpuRegistry ---------------------------
(* Instances of GpuRegistry for TLC. *)
EXTENDS GpuRegistry, TLC

CONSTANTS t1, t2, m1, m2, e1, a1, g1

\* Two miners that claim one executor id at one address.
MCClaims ==
  {[miner |-> m1, exec |-> e1, addr |-> a1],
   [miner |-> m2, exec |-> e1, addr |-> a1]}

=============================================================================
