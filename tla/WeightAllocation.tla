-------------------------- MODULE WeightAllocation --------------------------
(***************************************************************************)
(* The validator's weight allocation (bittensor_core/weight_allocation.rs) *)
(* as operators: how the total weight of a submission, u16::MAX, is split  *)
(* between the burn uid and the miners of every GPU category.              *)
(*                                                                         *)
(* Percentages and scores are naturals: a percentage is given in parts of  *)
(* Full, a score in any unit.  A conversion from f64 to an integer is a    *)
(* division that rounds down; u64 as u16 keeps the low bits.  A            *)
(* distribution is a function from uids to weights: a uid that has no      *)
(* entry in the code's vector has weight 0.                                *)
(***************************************************************************)
EXTENDS Integers, FiniteSets, Functions

CONSTANTS
  Miners,        \* uids of miners
  BurnUid,       \* burn_uid, which may be a miner's
  Categories,    \* the keys of gpu_allocations
  Full,          \* one hundred percent
  Tolerance,     \* what the shares may add up to beside one hundred percent
  Burns,         \* bound: burn percentages
  Shares,        \* bound: shares of a category
  MaxScore,      \* bound: scores
  MaxMinMiners   \* bound: min_miners_per_category

ASSUME AllocationAssumption ==
  /\ IsFiniteSet(Miners) /\ Miners # {} /\ IsFiniteSet(Categories)
  /\ Full \in Nat \ {0} /\ Tolerance \in Nat /\ Burns \subseteq 0 .. Full /\ Shares \subseteq Nat
  /\ MaxScore \in Nat /\ MaxMinMiners \in Nat

U16Max == 65535
Uids == Miners \cup {BurnUid}
NotListed == -1

\* EmissionConfig::validate: the shares add up to one hundred percent, within the
\* tolerance on either side.
Configs ==
  {cfg \in [burn: Burns, share: [Categories -> Shares], min: 0 .. MaxMinMiners] :
     SumFunction(cfg.share) \in (Full - Tolerance) .. (Full + Tolerance)}

\* The shares are not above one hundred percent.
Within(cfg) == SumFunction(cfg.share) <= Full

\* miners_by_category: the score of every miner listed in a category.
Listings == [Categories -> [Miners -> {NotListed} \cup 0 .. MaxScore]]

Capped(w) == IF w > U16Max THEN U16Max ELSE w

\* calculate_burn_allocation
BurnWeight(cfg) == (U16Max * cfg.burn) \div Full

\* calculate_all_category_pools
Pool(cfg, c) == ((U16Max - BurnWeight(cfg)) * cfg.share[c]) \div Full

Listed(l, c) == {m \in Miners : l[c][m] # NotListed}

\* filter_miners_by_score, which does not look at scores.
Served(cfg, l, c) == Listed(l, c) # {} /\ Cardinality(Listed(l, c)) >= cfg.min

TotalScore(l, c) == SumFunctionOnSet(l[c], Listed(l, c))

\* The miners that the sort by falling score may leave at the end.
MayBeLast(l, c) == {m \in Listed(l, c) : \A x \in Listed(l, c) : l[c][x] >= l[c][m]}

\* One choice of the last miner of every category.
Lasts(l) ==
  {end \in [Categories -> Miners] :
     \A c \in Categories :
       IF Listed(l, c) = {} THEN end[c] = CHOOSE m \in Miners : TRUE
       ELSE end[c] \in MayBeLast(l, c)}

\* distribute_equally: a pool above u16::MAX wraps here.
EqualPart(cfg, l, c) == (Pool(cfg, c) \div Cardinality(Listed(l, c))) % (U16Max + 1)

Part_Mutant(cfg, l, c, m) == Capped(Pool(cfg, c) \div TotalScore(l, c))

\* distribute_category_weight: a part in proportion, rounded down.
Part(cfg, l, c, m) == Capped((Pool(cfg, c) * l[c][m]) \div TotalScore(l, c))

\* What is left of the pool for the last miner m, a difference of u64.
LeftOver(cfg, l, c, m) ==
  Pool(cfg, c)
    - SumFunctionOnSet([x \in Listed(l, c) |-> Part(cfg, l, c, x)], Listed(l, c) \ {m})

LastPart(cfg, l, c, m) == Capped(LeftOver(cfg, l, c, m))

CategoryWeight(cfg, l, end, c, m) ==
  IF l[c][m] = NotListed \/ ~Served(cfg, l, c) THEN 0
  ELSE IF TotalScore(l, c) = 0 THEN EqualPart(cfg, l, c)
  ELSE IF m = end[c] THEN LastPart(cfg, l, c, m)
  ELSE Part(cfg, l, c, m)

EmptyCategoryBurn_Mutant(cfg, l) ==
  SumFunction([c \in Categories |-> IF Listed(l, c) = {} THEN Pool(cfg, c) ELSE 0])

\* Pools of categories that are not served are burnt.
EmptyCategoryBurn(cfg, l) ==
  SumFunction([c \in Categories |-> IF Served(cfg, l, c) THEN 0 ELSE Pool(cfg, c)])

\* calculate_weight_distribution: the entries of one uid are added up.
MinerWeight(cfg, l, end, m) ==
  SumFunction([c \in Categories |-> CategoryWeight(cfg, l, end, c, m)])

Distribution(cfg, l, end) ==
  [u \in Uids |->
     Capped((IF u = BurnUid THEN Capped(BurnWeight(cfg) + EmptyCategoryBurn(cfg, l)) ELSE 0)
            + (IF u \in Miners THEN MinerWeight(cfg, l, end, u) ELSE 0))]

-----------------------------------------------------------------------------
(* What a round that lists the miners ms computes, over all configurations *)
(* and scores within the bounds.                                           *)

ListingsOf(ms) == {l \in Listings : UNION {Listed(l, c) : c \in Categories} = ms}

\* Units that rounding may lose or leave to the last of a category.
Slack(l) == SumFunction([c \in Categories |-> 1 + Cardinality(Listed(l, c))])

\* Units that belong to no category when the shares are below one hundred percent.
Unassigned(cfg) == (U16Max * (Full - SumFunction(cfg.share)) + Full - 1) \div Full

IsExact(cfg, l, end) ==
  /\ Within(cfg) =>
       SumFunction(Distribution(cfg, l, end))
         \in (U16Max - Slack(l) - Unassigned(cfg)) .. U16Max
  /\ \A c \in Categories :
       TotalScore(l, c) > 0 /\ Listed(l, c) # {} => LeftOver(cfg, l, c, end[c]) >= 0

IsFair(cfg, l, end) ==
  Within(cfg) =>
    \A x, y \in Miners \ {BurnUid} :
      (\A c \in Categories : l[c][x] >= l[c][y])
      => MinerWeight(cfg, l, end, x) + Slack(l) >= MinerWeight(cfg, l, end, y)

AllExact(ms) ==
  \A cfg \in Configs, l \in ListingsOf(ms) : \A end \in Lasts(l) : IsExact(cfg, l, end)

AllFair(ms) ==
  \A cfg \in Configs, l \in ListingsOf(ms) : \A end \in Lasts(l) : IsFair(cfg, l, end)

\* Constants, which TLC evaluates once (not at every state, as it does a set filter).
Exact == UNION {IF AllExact(ms) THEN {ms} ELSE {} : ms \in SUBSET Miners}
Fair == UNION {IF AllFair(ms) THEN {ms} ELSE {} : ms \in SUBSET Miners}

=============================================================================
