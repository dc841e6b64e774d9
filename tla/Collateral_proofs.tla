------------------------- MODULE Collateral_proofs -------------------------
(***************************************************************************)
(* The books of the collateral contract, proved for every set of           *)
(* executors, accounts, amounts and timeouts and every bound, and the      *)
(* validator's table of collaterals, kept by a scan of the contract's      *)
(* events that may be cut short after any of them.                         *)
(***************************************************************************)
EXTENDS CollateralScan, SumTheorems

\* Ids not handed out yet hold no reclaim, so opening one overwrites none.
FreshIds == \A id \in ReclaimIds : id >= nextReclaimId => reclaims[id] = NoReclaim

\* The inductive invariant.  TypeOK alone is not inductive: that the pending
\* total stays a natural number needs PendingMatchesReclaims, which needs FreshIds.
IInv ==
  /\ TypeOK
  /\ FreshIds
  /\ PendingMatchesReclaims
  /\ Solvent
  /\ UnslashedIsCovered

\* The ids of reclaims are finitely many, so their sums are defined.
LEMMA IdsFinite == IsFiniteSet(ReclaimIds)
  BY CollateralAssumption, FS_Interval DEF ReclaimIds

\* A slot the contract treats as open holds a whole reclaim record.
LEMMA OpenIsReclaim ==
  ASSUME TypeOK, NEW id \in ReclaimIds, IsOpen(id)
  PROVE  reclaims[id] \in Reclaim
  BY DEF TypeOK, IsOpen, NoReclaim

\* The amounts summed for an executor's open reclaims are natural numbers.
LEMMA OpenAmountsNat ==
  ASSUME TypeOK, NEW k \in Keys
  PROVE  \A id \in ReclaimIds : OpenAmounts(k)[id] \in Nat
  BY OpenIsReclaim DEF OpenAmounts, Reclaim

\* The pending total covers each open reclaim: the checked subtraction holds.
LEMMA PendingCoversOpen ==
  ASSUME TypeOK, PendingMatchesReclaims, NEW id \in ReclaimIds, IsOpen(id)
  PROVE  reclaims[id].amount <= collateralUnderPendingReclaims[reclaims[id].key]
<1> DEFINE k == reclaims[id].key
<1>1. k \in Keys
  BY OpenIsReclaim DEF Reclaim
<1>2. OpenAmounts(k)[id] = reclaims[id].amount
  BY DEF OpenAmounts
<1>3. OpenAmounts(k)[id] <= SumFunctionOnSet(OpenAmounts(k), ReclaimIds)
  BY <1>1, OpenAmountsNat, IdsFinite, SumBound
<1> QED BY <1>1, <1>2, <1>3 DEF PendingMatchesReclaims

\* The constructor's state satisfies the inductive invariant.
LEMMA InitInv == Init => IInv
<1> SUFFICES ASSUME Init PROVE IInv
  OBVIOUS
<1> USE DEF Init
<1>1. TypeOK
  BY CollateralAssumption DEF TypeOK
<1>2. FreshIds
  BY DEF FreshIds
<1>3. PendingMatchesReclaims
  <2> SUFFICES ASSUME NEW k \in Keys
               PROVE  SumFunctionOnSet(OpenAmounts(k), ReclaimIds) = 0
    BY DEF PendingMatchesReclaims
  <2>1. \A id \in ReclaimIds : OpenAmounts(k)[id] = 0
    BY DEF OpenAmounts, IsOpen, NoReclaim
  <2> QED BY <2>1, IdsFinite, SumZero
<1>4. Solvent
  BY CollateralAssumption, SumZero DEF Solvent
<1>5. UnslashedIsCovered
  BY DEF UnslashedIsCovered
<1> QED BY <1>1, <1>2, <1>3, <1>4, <1>5 DEF IInv

-----------------------------------------------------------------------------
(* What the steps do to the two sums.                                      *)

\* Writing one reclaim slot changes the sum of one executor, by the difference.
LEMMA WriteReclaim ==
  ASSUME TypeOK, TypeOK', PendingMatchesReclaims, NEW id \in ReclaimIds, NEW k \in Keys,
         \A i \in ReclaimIds \ {id} : reclaims'[i] = reclaims[i]
  PROVE  SumFunctionOnSet(OpenAmounts(k)', ReclaimIds)
           = collateralUnderPendingReclaims[k] + (OpenAmounts(k)'[id] - OpenAmounts(k)[id])
<1>1. \A i \in ReclaimIds : OpenAmounts(k)[i] \in Int
  BY OpenAmountsNat
<1>2. \A i \in ReclaimIds : OpenAmounts(k)'[i] \in Int
  <2> SUFFICES ASSUME NEW i \in ReclaimIds PROVE OpenAmounts(k)'[i] \in Int
    OBVIOUS
  <2>1. reclaims'[i] \in Reclaim \cup {NoReclaim}
    BY DEF TypeOK
  <2> QED BY <2>1 DEF OpenAmounts, IsOpen, Reclaim, NoReclaim
<1>3. \A i \in ReclaimIds \ {id} : OpenAmounts(k)[i] = OpenAmounts(k)'[i]
  BY DEF OpenAmounts, IsOpen
<1>4. SumFunctionOnSet(OpenAmounts(k)', ReclaimIds)
        = SumFunctionOnSet(OpenAmounts(k), ReclaimIds) + (OpenAmounts(k)'[id] - OpenAmounts(k)[id])
  <2> DEFINE f == OpenAmounts(k)
             g == OpenAmounts(k)'
  <2> HIDE DEF f, g
  <2>1. \A i \in ReclaimIds : f[i] \in Int /\ g[i] \in Int BY <1>1, <1>2 DEF f, g
  <2>2. \A i \in ReclaimIds \ {id} : f[i] = g[i] BY <1>3 DEF f, g
  <2>3. SumFunctionOnSet(g, ReclaimIds) = SumFunctionOnSet(f, ReclaimIds) + (g[id] - f[id])
    BY <2>1, <2>2, IdsFinite, SumUpdate
  <2> QED BY <2>3 DEF f, g
<1> QED BY <1>4 DEF PendingMatchesReclaims

\* Writing one collateral changes the total locked by the difference.
LEMMA WriteCollateral ==
  ASSUME TypeOK, TypeOK', Solvent, NEW k \in Keys,
         \A j \in Keys \ {k} : collaterals'[j] = collaterals[j]
  PROVE  SumFunctionOnSet(collaterals', Keys) = balance + (collaterals'[k] - collaterals[k])
<1>1. \A j \in Keys : collaterals[j] \in Int /\ collaterals'[j] \in Int
  BY DEF TypeOK
<1>2. SumFunctionOnSet(collaterals', Keys)
        = SumFunctionOnSet(collaterals, Keys) + (collaterals'[k] - collaterals[k])
  BY <1>1, CollateralAssumption, SumUpdate
<1> QED BY <1>2 DEF Solvent

-----------------------------------------------------------------------------
(* One lemma per kind of step.                                             *)

\* deposit keeps the books: collateral and balance grow by the same value.
LEMMA DepositStep ==
  ASSUME IInv, NEW a \in Accounts, NEW k \in Keys, NEW v \in Amounts, Deposit(a, k, v)
  PROVE  IInv'
<1> USE DEF IInv, Deposit, config
<1>1. TypeOK'
  BY CollateralAssumption DEF TypeOK
<1>2. FreshIds'
  BY DEF FreshIds
<1>3. PendingMatchesReclaims'
  <2>1. \A j \in Keys : OpenAmounts(j)' = OpenAmounts(j)
    BY DEF OpenAmounts, IsOpen
  <2> QED BY <2>1 DEF PendingMatchesReclaims
<1>4. Solvent'
  <2>1. collaterals'[k] - collaterals[k] = v
    BY CollateralAssumption DEF TypeOK
  <2>2. \A j \in Keys \ {k} : collaterals'[j] = collaterals[j]
    BY DEF TypeOK
  <2> QED BY <1>1, <2>1, <2>2, WriteCollateral DEF Solvent
<1>5. UnslashedIsCovered'
  BY CollateralAssumption DEF UnslashedIsCovered, TypeOK
<1> QED BY <1>1, <1>2, <1>3, <1>4, <1>5

\* reclaimCollateral keeps the books: what it promises was not promised before.
LEMMA ReclaimStep ==
  ASSUME IInv, NEW a \in Accounts, NEW k \in Keys, ReclaimCollateral(a, k)
  PROVE  IInv'
<1> USE DEF IInv, ReclaimCollateral, config
<1> DEFINE id == nextReclaimId
           r == [key |-> k, miner |-> a, amount |-> Available(k), denyTimeout |-> now + decisionTimeout]
<1>1. id \in ReclaimIds /\ Available(k) \in Nat \ {0} /\ r \in Reclaim
  BY CollateralAssumption DEF TypeOK, ReclaimIds, Available, Reclaim
<1>2. TypeOK'
  <2>1. reclaims' \in [ReclaimIds -> Reclaim \cup {NoReclaim}]
    BY <1>1 DEF TypeOK
  <2>2. collateralUnderPendingReclaims' \in [Keys -> Nat]
    BY <1>1 DEF TypeOK
  <2>3. nextReclaimId' \in 0 .. MaxReclaims
    BY CollateralAssumption DEF TypeOK
  <2> QED BY <2>1, <2>2, <2>3 DEF TypeOK
<1>3. reclaims'[id] = r /\ \A i \in ReclaimIds \ {id} : reclaims'[i] = reclaims[i]
  BY <1>1 DEF TypeOK
<1>4. FreshIds'
  <2> SUFFICES ASSUME NEW i \in ReclaimIds, i >= nextReclaimId + 1 PROVE reclaims'[i] = NoReclaim
    BY DEF FreshIds
  <2>1. i # id /\ i >= nextReclaimId
    BY DEF TypeOK, ReclaimIds
  <2> QED BY <1>3, <2>1 DEF FreshIds
<1>5. PendingMatchesReclaims'
  <2> SUFFICES ASSUME NEW j \in Keys
               PROVE  collateralUnderPendingReclaims'[j] = SumFunctionOnSet(OpenAmounts(j)', ReclaimIds)
    BY DEF PendingMatchesReclaims
  <2>1. reclaims[id] = NoReclaim
    BY <1>1 DEF FreshIds, TypeOK
  <2>2. OpenAmounts(j)[id] = 0
    BY <1>1, <2>1 DEF OpenAmounts, IsOpen, NoReclaim
  <2>3. OpenAmounts(j)'[id] = IF k = j THEN Available(k) ELSE 0
    BY <1>1, <1>3 DEF OpenAmounts, IsOpen
  <2>4. SumFunctionOnSet(OpenAmounts(j)', ReclaimIds)
          = collateralUnderPendingReclaims[j] + (OpenAmounts(j)'[id] - OpenAmounts(j)[id])
    BY <1>1, <1>2, <1>3, WriteReclaim
  <2>5. collateralUnderPendingReclaims'[j]
          = collateralUnderPendingReclaims[j] + (IF k = j THEN Available(k) ELSE 0)
    BY <1>1 DEF TypeOK
  <2> QED BY <1>1, <2>2, <2>3, <2>4, <2>5
<1>6. Solvent'
  BY DEF Solvent
<1>7. UnslashedIsCovered'
  <2> SUFFICES ASSUME NEW j \in Keys \ slashed
               PROVE  collateralUnderPendingReclaims'[j] <= collaterals[j]
    BY DEF UnslashedIsCovered
  <2>1. CASE j = k BY <2>1 DEF Available, TypeOK
  <2>2. CASE j # k BY <2>2 DEF UnslashedIsCovered, TypeOK
  <2> QED BY <2>1, <2>2
<1> QED BY <1>2, <1>4, <1>5, <1>6, <1>7

\* What finalizing and denying share: the reclaim goes, its amount is no longer
\* promised.
LEMMA CloseReclaim ==
  ASSUME IInv, NEW id \in ReclaimIds, IsOpen(id),
         reclaims' = [reclaims EXCEPT ![id] = NoReclaim],
         collateralUnderPendingReclaims' = PendingWithout(reclaims[id]),
         nextReclaimId' = nextReclaimId
  PROVE  /\ reclaims' \in [ReclaimIds -> Reclaim \cup {NoReclaim}]
         /\ collateralUnderPendingReclaims' \in [Keys -> Nat]
         /\ FreshIds'
         /\ TypeOK' => PendingMatchesReclaims'
<1> USE DEF IInv
<1> DEFINE r == reclaims[id]
<1>1. r \in Reclaim
  BY OpenIsReclaim
<1>2. r.amount <= collateralUnderPendingReclaims[r.key]
  BY PendingCoversOpen
<1>3. collateralUnderPendingReclaims' \in [Keys -> Nat]
  BY <1>1, <1>2 DEF TypeOK, PendingWithout, Reclaim
<1>4. reclaims' \in [ReclaimIds -> Reclaim \cup {NoReclaim}]
  BY DEF TypeOK
<1>5. FreshIds'
  BY DEF FreshIds, TypeOK
<1>6. ASSUME TypeOK' PROVE PendingMatchesReclaims'
  <2> SUFFICES ASSUME NEW j \in Keys
               PROVE  collateralUnderPendingReclaims'[j] = SumFunctionOnSet(OpenAmounts(j)', ReclaimIds)
    BY DEF PendingMatchesReclaims
  <2>1. OpenAmounts(j)[id] = IF r.key = j THEN r.amount ELSE 0
    BY DEF OpenAmounts
  <2>2. OpenAmounts(j)'[id] = 0
    BY DEF OpenAmounts, IsOpen, NoReclaim, TypeOK
  <2>3. \A i \in ReclaimIds \ {id} : reclaims'[i] = reclaims[i]
    BY DEF TypeOK
  <2>4. SumFunctionOnSet(OpenAmounts(j)', ReclaimIds)
          = collateralUnderPendingReclaims[j] + (OpenAmounts(j)'[id] - OpenAmounts(j)[id])
    BY <1>6, <2>3, WriteReclaim
  <2>5. collateralUnderPendingReclaims'[j]
          = collateralUnderPendingReclaims[j] - (IF r.key = j THEN r.amount ELSE 0)
    BY <1>1 DEF PendingWithout, TypeOK, Reclaim
  <2>6. r.amount \in Nat /\ collateralUnderPendingReclaims[j] \in Nat
    BY <1>1 DEF Reclaim, TypeOK
  <2> QED BY <2>1, <2>2, <2>4, <2>5, <2>6
<1> QED BY <1>3, <1>4, <1>5, <1>6

\* finalizeReclaim keeps the books: it pays the recorded amount and no other.
LEMMA FinalizeStep ==
  ASSUME IInv, NEW id \in ReclaimIds, FinalizeReclaim(id)
  PROVE  IInv'
<1> USE DEF IInv, FinalizeReclaim, config
<1> DEFINE r == reclaims[id]
<1>1. r \in Reclaim
  BY OpenIsReclaim
<1>2. /\ reclaims' \in [ReclaimIds -> Reclaim \cup {NoReclaim}]
      /\ collateralUnderPendingReclaims' \in [Keys -> Nat]
      /\ FreshIds'
      /\ TypeOK' => PendingMatchesReclaims'
  BY CloseReclaim
<1>3. TypeOK'
  <2>1. collaterals' \in [Keys -> Nat]
    BY <1>1 DEF TypeOK, CollateralsAfterPaying, Covered, Reclaim
  <2>2. balance' \in Nat
    BY <1>1 DEF TypeOK, Reclaim
  <2>3. executorToMiner' \in [Keys -> Accounts \cup {NoOne}]
    BY DEF TypeOK
  <2> QED BY <1>2, <2>1, <2>2, <2>3 DEF TypeOK
<1>4. Solvent'
  <2>1. collaterals'[r.key] - collaterals[r.key] = 0 - r.amount
    BY <1>1 DEF TypeOK, CollateralsAfterPaying, Reclaim
  <2>2. \A j \in Keys \ {r.key} : collaterals'[j] = collaterals[j]
    BY DEF TypeOK, CollateralsAfterPaying
  <2>3. SumFunctionOnSet(collaterals', Keys) = balance + (collaterals'[r.key] - collaterals[r.key])
    BY <1>1, <1>3, <2>2, WriteCollateral DEF Reclaim
  <2> QED BY <1>1, <2>1, <2>3 DEF Solvent, Reclaim, TypeOK
<1>5. UnslashedIsCovered'
  BY <1>1 DEF UnslashedIsCovered, TypeOK, CollateralsAfterPaying, PendingWithout, Reclaim
<1> QED BY <1>2, <1>3, <1>4, <1>5

\* denyReclaimRequest keeps the books: the amount is free again, nothing is paid.
LEMMA DenyStep ==
  ASSUME IInv, NEW a \in Accounts, NEW id \in ReclaimIds, DenyReclaimRequest(a, id)
  PROVE  IInv'
<1> USE DEF IInv, DenyReclaimRequest, config
<1> DEFINE r == reclaims[id]
<1>1. r \in Reclaim
  BY OpenIsReclaim
<1>2. /\ reclaims' \in [ReclaimIds -> Reclaim \cup {NoReclaim}]
      /\ collateralUnderPendingReclaims' \in [Keys -> Nat]
      /\ FreshIds'
      /\ TypeOK' => PendingMatchesReclaims'
  BY CloseReclaim
<1>3. TypeOK'
  BY <1>2 DEF TypeOK
<1>4. Solvent'
  BY DEF Solvent
<1>5. UnslashedIsCovered'
  BY <1>1 DEF UnslashedIsCovered, TypeOK, PendingWithout, Reclaim
<1> QED BY <1>2, <1>3, <1>4, <1>5

\* slashCollateral keeps the books: all of the executor's collateral is burned.
LEMMA SlashStep ==
  ASSUME IInv, NEW a \in Accounts, NEW k \in Keys, SlashCollateral(a, k)
  PROVE  IInv'
<1> USE DEF IInv, SlashCollateral, config
<1>1. TypeOK'
  BY DEF TypeOK
<1>2. FreshIds'
  BY DEF FreshIds
<1>3. PendingMatchesReclaims'
  <2>1. \A j \in Keys : OpenAmounts(j)' = OpenAmounts(j)
    BY DEF OpenAmounts, IsOpen
  <2> QED BY <2>1 DEF PendingMatchesReclaims
<1>4. Solvent'
  <2>1. collaterals'[k] - collaterals[k] = 0 - collaterals[k]
    BY DEF TypeOK
  <2>2. \A j \in Keys \ {k} : collaterals'[j] = collaterals[j]
    BY DEF TypeOK
  <2>3. SumFunctionOnSet(collaterals', Keys) = balance + (collaterals'[k] - collaterals[k])
    BY <1>1, <2>2, WriteCollateral
  <2> QED BY <2>1, <2>3 DEF Solvent, TypeOK
<1>5. UnslashedIsCovered'
  BY DEF UnslashedIsCovered, TypeOK
<1> QED BY <1>1, <1>2, <1>3, <1>4, <1>5

\* The admin's calls, the clock and stuttering leave the books alone.
LEMMA OtherStep ==
  ASSUME IInv,
         UpdateTrustee \/ UpdateDecisionTimeout \/ UpdateMinCollateralIncrease
           \/ Tick \/ UNCHANGED vars
  PROVE  IInv'
<1> USE DEF IInv, UpdateTrustee, UpdateDecisionTimeout, UpdateMinCollateralIncrease, Tick, vars,
            config
<1>1. TypeOK'
  BY DEF TypeOK
<1>2. UNCHANGED <<collaterals, collateralUnderPendingReclaims, reclaims, nextReclaimId, balance, slashed>>
  OBVIOUS
<1>3. PendingMatchesReclaims'
  <2>1. \A j \in Keys : OpenAmounts(j)' = OpenAmounts(j)
    BY <1>2 DEF OpenAmounts, IsOpen
  <2> QED BY <1>2, <2>1 DEF PendingMatchesReclaims
<1>4. FreshIds' /\ Solvent' /\ UnslashedIsCovered'
  BY <1>2 DEF FreshIds, Solvent, UnslashedIsCovered
<1> QED BY <1>1, <1>3, <1>4

\* Every call of the contract preserves the inductive invariant.
LEMMA NextInv == IInv /\ [Next]_vars => IInv'
<1> SUFFICES ASSUME IInv, [Next]_vars PROVE IInv'
  OBVIOUS
<1>1. CASE \E a \in Accounts, k \in Keys, v \in Amounts : Deposit(a, k, v)
  BY <1>1, DepositStep
<1>2. CASE \E a \in Accounts, k \in Keys : ReclaimCollateral(a, k)
  BY <1>2, ReclaimStep
<1>3. CASE \E id \in ReclaimIds : FinalizeReclaim(id)
  BY <1>3, FinalizeStep
<1>4. CASE \E a \in Accounts, id \in ReclaimIds : DenyReclaimRequest(a, id)
  BY <1>4, DenyStep
<1>5. CASE \E a \in Accounts, k \in Keys : SlashCollateral(a, k)
  BY <1>5, SlashStep
<1>6. CASE UpdateTrustee \/ UpdateDecisionTimeout \/ UpdateMinCollateralIncrease
             \/ Tick \/ UNCHANGED vars
  BY <1>6, OtherStep
<1> QED BY <1>1, <1>2, <1>3, <1>4, <1>5, <1>6 DEF Next

-----------------------------------------------------------------------------
(* The theorems.                                                           *)

\* IInv holds in every reachable state.
LEMMA Invariance == Spec => []IInv
<1> QED BY InitInv, NextInv, PTL DEF Spec

\* The storage keeps its types; no checked subtraction of the contract reverts
\* for want of pending collateral, so no total ever goes below zero.
THEOREM TypeCorrect == Spec => []TypeOK
<1>1. IInv => TypeOK
  BY DEF IInv
<1> QED BY <1>1, Invariance, PTL

\* The pending total of every executor is the sum of its open reclaims.
THEOREM PendingIsExact == Spec => []PendingMatchesReclaims
<1>1. IInv => PendingMatchesReclaims
  BY DEF IInv
<1> QED BY <1>1, Invariance, PTL

\* The contract's balance is the sum of the collaterals it has booked.
THEOREM AlwaysSolvent == Spec => []Solvent
<1>1. IInv => Solvent
  BY DEF IInv
<1> QED BY <1>1, Invariance, PTL

\* What is locked for an executor that was never slashed covers all its open
\* reclaims.
THEOREM AlwaysCovered == Spec => []UnslashedIsCovered
<1>1. IInv => UnslashedIsCovered
  BY DEF IInv
<1> QED BY <1>1, Invariance, PTL

\* A reclaim is denied without moving value up to its own deadline, and paid in
\* full from its own executor's collateral after it; nothing else ends it.
THEOREM DeadlineDecides == Spec => EndsByItsDeadline
<1> DEFINE Ends(id) ==
      LET r == reclaims[id]
      IN IsOpen(id) /\ reclaims'[id] # r =>
           /\ reclaims'[id] = NoReclaim
           /\ now <= r.denyTimeout => balance' = balance /\ collaterals' = collaterals
           /\ now > r.denyTimeout =>
                /\ balance' = balance - r.amount
                /\ collaterals' = [collaterals EXCEPT ![r.key] = @ - r.amount]
<1>1. ASSUME IInv, [Next]_vars, NEW id \in ReclaimIds PROVE Ends(id)
  <2> SUFFICES ASSUME IsOpen(id), reclaims'[id] # reclaims[id]
               PROVE  /\ reclaims'[id] = NoReclaim
                      /\ now <= reclaims[id].denyTimeout =>
                           balance' = balance /\ collaterals' = collaterals
                      /\ now > reclaims[id].denyTimeout =>
                           /\ balance' = balance - reclaims[id].amount
                           /\ collaterals' = [collaterals EXCEPT
                                 ![reclaims[id].key] = @ - reclaims[id].amount]
    OBVIOUS
  <2>1. reclaims[id] \in Reclaim /\ now \in Nat /\ reclaims \in [ReclaimIds -> Reclaim \cup {NoReclaim}]
    BY <1>1, OpenIsReclaim DEF IInv, TypeOK
  <2>2. CASE \E a \in Accounts, k \in Keys, v \in Amounts : Deposit(a, k, v)
    BY <2>2 DEF Deposit
  <2>3. CASE \E a \in Accounts, k \in Keys : ReclaimCollateral(a, k)
    <3>1. id # nextReclaimId
      BY <1>1 DEF IInv, FreshIds, IsOpen, NoReclaim, TypeOK
    <3> QED BY <2>1, <2>3, <3>1 DEF ReclaimCollateral
  <2>4. CASE \E i \in ReclaimIds : FinalizeReclaim(i)
    <3>1. PICK i \in ReclaimIds : FinalizeReclaim(i)
      BY <2>4
    <3>2. i = id
      BY <2>1, <3>1 DEF FinalizeReclaim
    <3> QED BY <2>1, <3>1, <3>2 DEF FinalizeReclaim, DenyWindowOver, CollateralsAfterPaying, Reclaim
  <2>5. CASE \E a \in Accounts, i \in ReclaimIds : DenyReclaimRequest(a, i)
    <3>1. PICK a \in Accounts, i \in ReclaimIds : DenyReclaimRequest(a, i)
      BY <2>5
    <3>2. i = id
      BY <2>1, <3>1 DEF DenyReclaimRequest
    <3> QED BY <2>1, <3>1, <3>2 DEF DenyReclaimRequest, Reclaim
  <2>6. CASE \E a \in Accounts, k \in Keys : SlashCollateral(a, k)
    BY <2>6 DEF SlashCollateral
  <2>7. CASE UpdateTrustee \/ UpdateDecisionTimeout \/ UpdateMinCollateralIncrease
               \/ Tick \/ UNCHANGED vars
    BY <2>7 DEF UpdateTrustee, UpdateDecisionTimeout, UpdateMinCollateralIncrease, Tick, vars
  <2> QED BY <1>1, <2>2, <2>3, <2>4, <2>5, <2>6, <2>7 DEF Next
<1>2. IInv /\ [Next]_vars => [\A id \in ReclaimIds : Ends(id)]_vars
  BY <1>1
<1> QED BY <1>2, Invariance, PTL DEF Spec, EndsByItsDeadline
-----------------------------------------------------------------------------
(* The validator's scan of the contract's events.                          *)

Event == [kind: {"Deposit", "Reclaimed", "Slashed"}, key: Keys, amount: Nat]

\* What event e did to the contract's collaterals, x before it and y after it.
Does(x, e, y) ==
  /\ \A k \in Keys \ {e.key} : y[k] = x[k]
  /\ e.kind = "Deposit" => y[e.key] = x[e.key] + e.amount
  /\ e.kind = "Reclaimed" => x[e.key] >= e.amount /\ y[e.key] = x[e.key] - e.amount
  /\ e.kind = "Slashed" => y[e.key] = 0

ScanTypeOK ==
  /\ now \in Blocks
  /\ logs \in [Blocks -> Seq(Event)]
  /\ booked \in [Blocks -> [Keys -> Nat]]
  /\ table \in [Keys -> Nat \cup {NoRow}]
  /\ last \in Nat
  /\ scan \in [block: Nat, done: Nat, to: Nat]
  /\ doubtful \subseteq Keys

\* h[b][i] are the collaterals after the first i events of block b: with the logs L,
\* the books B, the collaterals C and the time t, the events of a block lead from
\* the end of the block before it to its own end.
Follows(h, L, B, C, t) ==
  /\ h \in [Blocks -> [Nat -> [Keys -> Nat]]]
  /\ h[t][Len(L[t])] = C
  /\ t = 0 => B[0] = C
  /\ \A b \in Blocks : b > t => L[b] = <<>>
  /\ \A b \in Blocks : b < t => h[b][Len(L[b])] = B[b]
  /\ \A b \in Blocks : 0 < b /\ b <= t => h[b][0] = B[b - 1]
  /\ \A b \in Blocks : b <= t =>
       \A i \in 0 .. Len(L[b]) - 1 : Does(h[b][i], L[b][i + 1], h[b][i + 1])

\* A scan s is in a block that is complete, after the one that was stored last, l.
InPlace(L, t, l, s) ==
  /\ l < t \/ l = 0
  /\ s # NoScan => /\ l < s.block /\ s.block <= s.to + 1 /\ s.to + 2 <= t
                   /\ s.block <= s.to => s.done <= Len(L[s.block])

\* Keys whose events of the current block have been handled: the ones that are in
\* doubt when the scan is cut short.
Touched(L, s) == IF s.block > s.to THEN {} ELSE {L[s.block][i].key : i \in 1 .. s.done}

Amount(row) == IF row = NoRow THEN 0 ELSE row

\* The blocks between the stored number and the scan's are without events; the rows
\* of the keys not touched still are what they were at the stored number; and the
\* table T is the contract's state after the event that was handled last.
Caught(h, L, B, l, s, T, D) ==
  /\ \A c \in Blocks : l <= c /\ c < s.block => B[c] = B[l]
  /\ \A k \in Keys \ (D \cup Touched(L, s)) : Amount(T[k]) = B[l][k]
  /\ s # NoScan /\ s.block <= s.to =>
       \A k \in Keys \ D : Amount(T[k]) = h[s.block][s.done][k]

ScanInv(h) ==
  /\ ScanTypeOK
  /\ Follows(h, logs, booked, collaterals, now)
  /\ InPlace(logs, now, last, scan)
  /\ Caught(h, logs, booked, last, scan, table, doubtful)

LEMMA BlocksNat == /\ Blocks \subseteq Nat /\ 0 \in Blocks
                   /\ \A b \in Blocks : b - 1 \in Nat => b - 1 \in Blocks
                   /\ \A b \in Blocks : \A c \in Nat : c <= b => c \in Blocks
  BY CollateralAssumption DEF Blocks

\* The first state.
LEMMA ScanInit == ASSUME SystemInit PROVE \E h : ScanInv(h)
<1> DEFINE h == [b \in Blocks |-> [i \in Nat |-> collaterals]]
<1> USE DEF SystemInit, Init
<1>1. ScanTypeOK
  BY CollateralAssumption DEF ScanTypeOK, Blocks, NoScan, NoRow
<1>2. 0 \in Blocks /\ now = 0 /\ last = 0 /\ scan = NoScan /\ doubtful = {}
  BY BlocksNat
<1>3. h \in [Blocks -> [Nat -> [Keys -> Nat]]]
  OBVIOUS
<1>4. \A b \in Blocks : logs[b] = <<>> /\ Len(logs[b]) = 0 /\ booked[b] = collaterals
  OBVIOUS
<1>5. Follows(h, logs, booked, collaterals, now)
  BY <1>2, <1>3, <1>4, BlocksNat DEF Follows
<1>6. InPlace(logs, now, last, scan)
  BY <1>2 DEF InPlace
<1>7. Caught(h, logs, booked, last, scan, table, doubtful)
  BY <1>2, <1>4 DEF Caught, Amount, NoScan, Touched
<1> QED BY <1>1, <1>5, <1>6, <1>7 DEF ScanInv

SameBut(g, h, t) == \A b \in Blocks \ {t} : g[b] = h[b]

Adds(L, t, e, M) == M = [L EXCEPT ![t] = Append(@, e)]

Books(B, t, C, X) == X = [B EXCEPT ![t] = C]

\* One more event in the block that is being made.
LEMMA FollowEvent ==
  ASSUME NEW h, NEW L \in [Blocks -> Seq(Event)], NEW B, NEW C, NEW t \in Blocks, t > 0,
         Follows(h, L, B, C, t), NEW e \in Event, NEW X \in [Keys -> Nat], Does(C, e, X),
         NEW M, Adds(L, t, e, M)
  PROVE  \E g : Follows(g, M, B, X, t) /\ SameBut(g, h, t)
<1> PICK n : n = Len(L[t])
  OBVIOUS
<1>1. /\ n \in Nat /\ t \in Nat
      /\ M \in [Blocks -> Seq(Event)] /\ Len(M[t]) = n + 1 /\ M[t][n + 1] = e
      /\ \A i \in 1 .. n : M[t][i] = L[t][i]
      /\ \A b \in Blocks \ {t} : M[b] = L[b]
  BY BlocksNat DEF Adds
<1> PICK f : f = [h[t] EXCEPT ![n + 1] = X]
  OBVIOUS
<1> PICK g : g = [h EXCEPT ![t] = f]
  OBVIOUS
<1>2. h \in [Blocks -> [Nat -> [Keys -> Nat]]] /\ h[t][n] = C
  BY DEF Follows
<1>3. /\ f \in [Nat -> [Keys -> Nat]] /\ f[n + 1] = X
      /\ \A i \in 0 .. n : f[i] = h[t][i]
  <2> PICK a : a = h[t]
    OBVIOUS
  <2>0. a \in [Nat -> [Keys -> Nat]]
    BY <1>2
  <2>1. f = [a EXCEPT ![n + 1] = X] /\ n + 1 \in Nat
    BY <1>1
  <2>2. f \in [Nat -> [Keys -> Nat]] /\ f[n + 1] = X
    BY <2>0, <2>1
  <2>3. \A i \in 0 .. n : f[i] = a[i]
    BY <1>1, <2>0, <2>1
  <2> QED BY <2>2, <2>3
<1>4. /\ g \in [Blocks -> [Nat -> [Keys -> Nat]]] /\ g[t] = f
      /\ \A b \in Blocks \ {t} : g[b] = h[b]
  BY <1>2, <1>3
<1>5. \A b \in Blocks : b < t => g[b][Len(M[b])] = B[b]
  BY <1>1, <1>4, BlocksNat DEF Follows
<1>6. \A b \in Blocks : 0 < b /\ b <= t => g[b][0] = B[b - 1]
  <2> SUFFICES ASSUME NEW b \in Blocks, 0 < b, b <= t PROVE g[b][0] = B[b - 1]
    OBVIOUS
  <2>1. h[b][0] = B[b - 1]
    BY DEF Follows
  <2>2. f[0] = h[t][0]
    BY <1>1, <1>3
  <2> QED BY <1>4, <2>1, <2>2
<1>7. ASSUME NEW b \in Blocks, b > t PROVE M[b] = <<>>
  <2>1. L[b] = <<>>
    BY <1>7 DEF Follows
  <2>2. b # t
    BY <1>1, <1>7
  <2> QED BY <1>1, <2>1, <2>2
<1>8. ASSUME NEW b \in Blocks, b <= t, NEW i \in 0 .. Len(M[b]) - 1
      PROVE  Does(g[b][i], M[b][i + 1], g[b][i + 1])
  <2>0. \A j \in 0 .. Len(L[b]) - 1 : Does(h[b][j], L[b][j + 1], h[b][j + 1])
    BY <1>8 DEF Follows
  <2>1. CASE b # t
    <3>1. g[b] = h[b] /\ M[b] = L[b]
      BY <1>1, <1>4, <2>1
    <3> QED BY <2>0, <3>1
  <2>2. CASE b = t /\ i < n
    <3>1. i \in 0 .. n /\ i + 1 \in 0 .. n /\ i + 1 \in 1 .. n /\ i \in 0 .. n - 1
      BY <1>1, <2>2
    <3>2. Does(h[t][i], L[t][i + 1], h[t][i + 1])
      BY <2>0, <2>2, <3>1
    <3>3. g[b][i] = h[t][i] /\ g[b][i + 1] = h[t][i + 1] /\ M[b][i + 1] = L[t][i + 1]
      BY <1>1, <1>3, <1>4, <2>2, <3>1
    <3> QED BY <3>2, <3>3
  <2>3. CASE b = t /\ i = n
    <3>1. g[b][i] = C /\ g[b][i + 1] = X /\ M[b][i + 1] = e
      <4>1. n \in 0 .. n
        BY <1>1
      <4> QED BY <1>1, <1>2, <1>3, <1>4, <2>3, <4>1
    <3> QED BY <3>1
  <2>4. b = t => i <= n
    BY <1>1, <1>8
  <2> QED BY <1>1, <2>1, <2>2, <2>3, <2>4
<1>9. g[t][Len(M[t])] = X
  BY <1>1, <1>3, <1>4
<1>10. Follows(g, M, B, X, t)
  BY <1>1, <1>4, <1>5, <1>6, <1>7, <1>8, <1>9 DEF Follows
<1> QED BY <1>4, <1>10 DEF SameBut

\* The next block starts.
LEMMA FollowBlock ==
  ASSUME NEW h, NEW L \in [Blocks -> Seq(Event)], NEW B \in [Blocks -> [Keys -> Nat]],
         NEW C \in [Keys -> Nat], NEW t \in Blocks, t + 1 \in Blocks,
         Follows(h, L, B, C, t), NEW X, Books(B, t, C, X)
  PROVE  \E g : Follows(g, L, X, C, t + 1) /\ SameBut(g, h, t + 1)
<1> PICK f : f = [i \in Nat |-> C]
  OBVIOUS
<1> PICK g : g = [h EXCEPT ![t + 1] = f]
  OBVIOUS
<1>1. /\ t \in Nat /\ X[t] = C /\ (\A b \in Blocks \ {t} : X[b] = B[b])
      /\ h \in [Blocks -> [Nat -> [Keys -> Nat]]] /\ h[t][Len(L[t])] = C
  BY BlocksNat DEF Follows, Books
<1>2. /\ g \in [Blocks -> [Nat -> [Keys -> Nat]]] /\ g[t + 1] = f
      /\ (\A b \in Blocks \ {t + 1} : g[b] = h[b]) /\ (\A i \in Nat : f[i] = C)
  BY <1>1
<1>3. L[t + 1] = <<>> /\ Len(L[t + 1]) = 0
  BY <1>1 DEF Follows
<1>4. ASSUME NEW b \in Blocks, b < t + 1 PROVE g[b][Len(L[b])] = X[b]
  <2>1. g[b] = h[b] /\ b \in Nat
    BY <1>1, <1>2, <1>4, BlocksNat
  <2>2. CASE b = t
    BY <1>1, <2>1, <2>2
  <2>3. CASE b # t
    BY <1>1, <1>4, <2>1, <2>3 DEF Follows
  <2> QED BY <2>2, <2>3
<1>5. ASSUME NEW b \in Blocks, 0 < b, b <= t + 1 PROVE g[b][0] = X[b - 1]
  <2>1. CASE b = t + 1
    BY <1>1, <1>2, <2>1
  <2>2. CASE b # t + 1
    <3>1. b - 1 \in Blocks \ {t} /\ b <= t
      <4>1. b \in Nat /\ t \in Nat
        BY <1>1, BlocksNat
      <4>2. b - 1 \in Nat /\ b - 1 # t /\ b <= t
        BY <1>5, <2>2, <4>1
      <4> QED BY <4>2, BlocksNat
    <3> QED BY <1>1, <1>2, <1>5, <2>2, <3>1 DEF Follows
  <2> QED BY <2>1, <2>2
<1>6. \A b \in Blocks : b > t + 1 => L[b] = <<>>
  BY <1>1, BlocksNat DEF Follows
<1>7. ASSUME NEW b \in Blocks, b <= t + 1, NEW i \in 0 .. Len(L[b]) - 1
      PROVE  Does(g[b][i], L[b][i + 1], g[b][i + 1])
  <2>1. b # t + 1 /\ b <= t
    BY <1>1, <1>3, <1>7, BlocksNat
  <2>2. Does(h[b][i], L[b][i + 1], h[b][i + 1])
    BY <1>7, <2>1 DEF Follows
  <2> QED BY <1>2, <2>1, <2>2
<1>8. g[t + 1][Len(L[t + 1])] = C
  BY <1>2, <1>3
<1>9. Follows(g, L, X, C, t + 1)
  <2>1. t + 1 # 0
    BY <1>1
  <2> QED BY <1>2, <1>4, <1>5, <1>6, <1>7, <1>8, <2>1, Zenon DEF Follows
<1> QED BY <1>2, <1>9 DEF SameBut

Scan == [block: Nat, done: Nat, to: Nat]

\* Before the scan is through its blocks, its block is one that is complete.
LEMMA ScanBlock ==
  ASSUME NEW L, NEW t \in Blocks, NEW l \in Nat, NEW s \in Scan, InPlace(L, t, l, s), s # NoScan
  PROVE  /\ s.block \in Nat /\ s.done \in Nat /\ s.to \in Nat /\ t \in Nat
         /\ l < s.block /\ s.block <= s.to + 1 /\ s.to + 2 <= t /\ 0 < s.block
         /\ s.block < t /\ s.to < t /\ s.to \in Blocks /\ s.block \in Blocks /\ s.block - 1 \in Blocks
         /\ s.block <= s.to => s.done <= Len(L[s.block])
<1>1. /\ s.block \in Nat /\ s.done \in Nat /\ s.to \in Nat /\ t \in Nat
  BY BlocksNat DEF Scan
<1>2. /\ l < s.block /\ s.block <= s.to + 1 /\ s.to + 2 <= t
      /\ s.block <= s.to => s.done <= Len(L[s.block])
  BY DEF InPlace
<1>3. 0 < s.block /\ s.block < t /\ s.to < t /\ s.block - 1 \in Nat
  BY <1>1, <1>2
<1> QED BY <1>1, <1>2, <1>3, BlocksNat

LEMMA LastBlock ==
  ASSUME NEW L, NEW t \in Blocks, NEW l \in Nat, NEW s, InPlace(L, t, l, s)
  PROVE  l \in Blocks /\ (l < t \/ t = 0)
<1>1. t \in Nat /\ (l < t \/ l = 0)
  BY BlocksNat DEF InPlace
<1>2. l <= t
  BY <1>1
<1> QED BY <1>1, <1>2, BlocksNat

\* A transaction of block t changes nothing that a scan has read.
LEMMA PlaceKept ==
  ASSUME NEW L, NEW M, NEW t \in Blocks, NEW l \in Nat, NEW s \in Scan, InPlace(L, t, l, s),
         \A b \in Blocks \ {t} : M[b] = L[b]
  PROVE  InPlace(M, t, l, s) /\ Touched(M, s) = Touched(L, s)
<1>1. CASE s = NoScan
  <2>1. s.block = 0 /\ s.to = 0 /\ 1 .. s.done = {}
    BY <1>1 DEF NoScan
  <2>2. Touched(M, s) = {} /\ Touched(L, s) = {}
    BY <2>1 DEF Touched
  <2> QED BY <1>1, <2>2 DEF InPlace
<1>2. CASE s # NoScan
  <2>1. M[s.block] = L[s.block]
    <3>1. s.block \in Blocks /\ s.block < t /\ s.block \in Nat /\ t \in Nat
      BY <1>2, ScanBlock
    <3> QED BY <3>1
  <2> QED BY <2>1 DEF InPlace, Touched
<1> QED BY <1>1, <1>2

\* A transaction that emits an event adds it to the block that is being made, which
\* no scan reads yet.
LEMMA EmitScan ==
  ASSUME NEW h, NEW e \in Event
  PROVE  /\ ScanInv(h) /\ now > 0 /\ now' = now
         /\ logs' = [logs EXCEPT ![now] = Append(@, e)]
         /\ Does(collaterals, e, collaterals') /\ collaterals' \in [Keys -> Nat]
         /\ UNCHANGED <<booked, scanner>>
         => \E g : ScanInv(g)'
<1>0. SUFFICES ASSUME ScanInv(h), now > 0, now' = now,
                      logs' = [logs EXCEPT ![now] = Append(@, e)],
                      Does(collaterals, e, collaterals'), collaterals' \in [Keys -> Nat],
                      UNCHANGED <<booked, scanner>>
               PROVE  \E g : ScanInv(g)'
  OBVIOUS
<1>1. /\ now \in Blocks /\ logs \in [Blocks -> Seq(Event)] /\ last \in Nat /\ scan \in Scan
      /\ Follows(h, logs, booked, collaterals, now) /\ InPlace(logs, now, last, scan)
      /\ Caught(h, logs, booked, last, scan, table, doubtful) /\ ScanTypeOK
  BY <1>0 DEF ScanInv, ScanTypeOK, Scan
<1>2. table' = table /\ last' = last /\ scan' = scan /\ doubtful' = doubtful /\ booked' = booked
  BY <1>0 DEF scanner
<1> PICK M, X : M = logs' /\ X = collaterals'
  OBVIOUS
<1>3. Adds(logs, now, e, M) /\ now > 0 /\ X \in [Keys -> Nat] /\ Does(collaterals, e, X)
  BY <1>0 DEF Adds
<1>4. M \in [Blocks -> Seq(Event)] /\ \A b \in Blocks \ {now} : M[b] = logs[b]
  BY <1>1, <1>3 DEF Adds
<1>5. PICK g : Follows(g, M, booked, X, now) /\ SameBut(g, h, now)
  BY <1>1, <1>3, FollowEvent
<1>6. ScanTypeOK'
  BY <1>0, <1>1, <1>2, <1>4 DEF ScanTypeOK
<1>7. InPlace(M, now, last, scan) /\ Touched(M, scan) = Touched(logs, scan)
  BY <1>1, <1>4, PlaceKept
<1>8. scan # NoScan => g[scan.block] = h[scan.block]
  <2> SUFFICES ASSUME scan # NoScan PROVE g[scan.block] = h[scan.block]
    OBVIOUS
  <2>1. scan.block \in Blocks /\ scan.block < now /\ scan.block \in Nat /\ now \in Nat
    BY <1>1, ScanBlock
  <2> QED BY <1>5, <2>1 DEF SameBut
<1>9. Caught(g, M, booked, last, scan, table, doubtful)
  BY <1>1, <1>7, <1>8, Zenon DEF Caught
<1> QED BY <1>0, <1>2, <1>5, <1>6, <1>7, <1>9 DEF ScanInv

\* A transaction that emits none of the three events moves no collateral.
LEMMA QuietScan ==
  ASSUME NEW h, ScanInv(h), now' = now, logs' = logs, collaterals' = collaterals,
         UNCHANGED <<booked, scanner>>
  PROVE  ScanInv(h)'
  BY DEF scanner, ScanInv, ScanTypeOK

\* The block that was being made is complete, and the next one starts from its end.
LEMMA NewBlockScan ==
  ASSUME NEW h
  PROVE  ScanInv(h) /\ IInv /\ NewBlock => \E g : ScanInv(g)'
<1>0. SUFFICES ASSUME ScanInv(h), IInv, NewBlock PROVE \E g : ScanInv(g)'
  OBVIOUS
<1>1. /\ now' = now + 1 /\ now <= MaxTime /\ collaterals' = collaterals /\ logs' = logs
      /\ booked' = [booked EXCEPT ![now] = collaterals]
      /\ table' = table /\ last' = last /\ scan' = scan /\ doubtful' = doubtful
  BY <1>0 DEF NewBlock, Tick, scanner
<1>2. /\ now \in Blocks /\ logs \in [Blocks -> Seq(Event)] /\ last \in Nat /\ scan \in Scan
      /\ booked \in [Blocks -> [Keys -> Nat]]
      /\ Follows(h, logs, booked, collaterals, now) /\ InPlace(logs, now, last, scan)
      /\ Caught(h, logs, booked, last, scan, table, doubtful) /\ ScanTypeOK
  BY <1>0 DEF ScanInv, ScanTypeOK, Scan
<1>3. now \in Nat /\ now + 1 \in Blocks /\ collaterals \in [Keys -> Nat]
  BY <1>0, <1>1, <1>2, CollateralAssumption DEF Blocks, IInv, TypeOK
<1> PICK X : X = booked'
  OBVIOUS
<1>9. PICK g : Follows(g, logs, X, collaterals, now + 1) /\ SameBut(g, h, now + 1)
  <2>1. Books(booked, now, collaterals, X)
    BY <1>1 DEF Books
  <2> QED BY <1>2, <1>3, <2>1, FollowBlock
<1>4. ScanTypeOK'
  BY <1>1, <1>2, <1>3 DEF ScanTypeOK
<1>5. InPlace(logs, now + 1, last, scan)
  <2>1. last < now + 1 \/ last = 0
    BY <1>2, <1>3 DEF InPlace
  <2>2. scan # NoScan => scan.to + 2 <= now + 1
    <3> SUFFICES ASSUME scan # NoScan PROVE scan.to + 2 <= now + 1
      OBVIOUS
    <3>1. scan.to \in Nat /\ scan.to + 2 <= now
      BY <1>2, ScanBlock
    <3> QED BY <1>3, <3>1
  <2> QED BY <1>2, <2>1, <2>2 DEF InPlace
<1>6. \A c \in Blocks : c < now \/ now = 0 => booked'[c] = booked[c]
  <2>1. now = 0 => booked[0] = collaterals
    BY <1>2 DEF Follows
  <2> QED BY <1>1, <1>2, <1>3, <2>1
<1>7. booked'[last] = booked[last]
  <2>1. last \in Blocks /\ (last < now \/ now = 0)
    BY <1>2, LastBlock
  <2> QED BY <1>6, <2>1
<1>8. Caught(g, logs, booked', last, scan, table, doubtful)
  <2>1. CASE scan = NoScan
    <3>1. \A c \in Blocks : ~(c < scan.block)
      BY <2>1, BlocksNat DEF NoScan
    <3> QED BY <1>2, <1>7, <2>1, <3>1, Zenon DEF Caught
  <2>2. CASE scan # NoScan
    <3>1. /\ scan.block \in Blocks /\ scan.block < now /\ scan.block \in Nat
      BY <1>2, <2>2, ScanBlock
    <3>2. g[scan.block] = h[scan.block]
      BY <1>3, <1>9, <3>1 DEF SameBut
    <3>3. \A c \in Blocks : c < scan.block => booked'[c] = booked[c]
      <4>1. \A c \in Blocks : c < scan.block => c < now
        BY <1>3, <3>1, BlocksNat
      <4> QED BY <1>6, <4>1
    <3> QED BY <1>2, <1>7, <3>2, <3>3, Zenon DEF Caught
  <2> QED BY <2>1, <2>2
<1> QED BY <1>1, <1>4, <1>5, <1>8, <1>9 DEF ScanInv

\* The contract's calls are steps of the contract, in a block of the chain.
LEMMA ContractStep == SystemNext => [Next]_vars
<1>1. Transaction => Next
  BY DEF Transaction, Next
<1>2. NewBlock => Next
  BY DEF NewBlock, Next
<1>3. ScanStep \/ ScanFails => UNCHANGED vars
  BY DEF ScanStep, StartScan, HandleEvent, EndBlock, EndScan, ScanFails, Abandon
<1> QED BY <1>1, <1>2, <1>3 DEF SystemNext

LEMMA TransactionScan ==
  ASSUME NEW h, ScanInv(h), IInv, Transaction
  PROVE  \E g : ScanInv(g)'
<1>1. now' = now
  BY DEF Transaction, Deposit, FinalizeReclaim, SlashCollateral, ReclaimCollateral, DenyReclaimRequest,
     UpdateTrustee, UpdateDecisionTimeout, UpdateMinCollateralIncrease
<1>2. now > 0 /\ booked' = booked /\ UNCHANGED scanner
  BY DEF Transaction
<1>3. collaterals \in [Keys -> Nat] /\ collaterals' \in [Keys -> Nat]
  <2>1. IInv'
    BY ContractStep, NextInv DEF SystemNext
  <2> QED BY <2>1 DEF IInv, TypeOK
<1>4. ASSUME NEW a \in Accounts, NEW k \in Keys, NEW v \in Amounts, Deposit(a, k, v), Emit("Deposit", k, v)
      PROVE  \E g : ScanInv(g)'
  <2> PICK e : e = [kind |-> "Deposit", key |-> k, amount |-> v]
    OBVIOUS
  <2>1. e \in Event /\ e.kind = "Deposit" /\ e.key = k /\ e.amount = v
    BY CollateralAssumption DEF Event
  <2>2. logs' = [logs EXCEPT ![now] = Append(@, e)]
    BY <1>4 DEF Emit
  <2>3. collaterals' = [collaterals EXCEPT ![k] = @ + v]
    BY <1>4 DEF Deposit
  <2>4. Does(collaterals, e, collaterals')
    BY <1>3, <2>1, <2>3 DEF Does
  <2> QED BY <1>1, <1>2, <1>3, <2>1, <2>2, <2>4, EmitScan
<1>5. ASSUME NEW id \in ReclaimIds, FinalizeReclaim(id),
             Emit("Reclaimed", reclaims[id].key, reclaims[id].amount)
      PROVE  \E g : ScanInv(g)'
  <2> PICK r : r = reclaims[id]
    OBVIOUS
  <2>1. r \in Reclaim
    BY <1>5, OpenIsReclaim DEF FinalizeReclaim, IInv
  <2>2. collaterals' = [collaterals EXCEPT ![r.key] = @ - r.amount] /\ collaterals[r.key] >= r.amount
    BY <1>5 DEF FinalizeReclaim, CollateralsAfterPaying, Covered
  <2> PICK e : e = [kind |-> "Reclaimed", key |-> r.key, amount |-> r.amount]
    OBVIOUS
  <2>3. e \in Event /\ e.kind = "Reclaimed" /\ e.key = r.key /\ e.amount = r.amount /\ r.key \in Keys
    BY <2>1 DEF Event, Reclaim
  <2>4. logs' = [logs EXCEPT ![now] = Append(@, e)]
    BY <1>5 DEF Emit
  <2>5. Does(collaterals, e, collaterals')
    BY <1>3, <2>2, <2>3 DEF Does
  <2> QED BY <1>1, <1>2, <1>3, <2>3, <2>4, <2>5, EmitScan
<1>6. ASSUME NEW a \in Accounts, NEW k \in Keys, SlashCollateral(a, k), Emit("Slashed", k, collaterals[k])
      PROVE  \E g : ScanInv(g)'
  <2> PICK e : e = [kind |-> "Slashed", key |-> k, amount |-> collaterals[k]]
    OBVIOUS
  <2>1. e \in Event /\ e.kind = "Slashed" /\ e.key = k
    BY <1>3 DEF Event
  <2>2. logs' = [logs EXCEPT ![now] = Append(@, e)]
    BY <1>6 DEF Emit
  <2>3. collaterals' = [collaterals EXCEPT ![k] = 0]
    BY <1>6 DEF SlashCollateral
  <2>4. Does(collaterals, e, collaterals')
    BY <1>3, <2>1, <2>3 DEF Does
  <2> QED BY <1>1, <1>2, <1>3, <2>1, <2>2, <2>4, EmitScan
<1>7. CASE \/ \E a \in Accounts, k \in Keys : ReclaimCollateral(a, k) /\ UNCHANGED logs
           \/ \E a \in Accounts, id \in ReclaimIds : DenyReclaimRequest(a, id) /\ UNCHANGED logs
           \/ (UpdateTrustee \/ UpdateDecisionTimeout \/ UpdateMinCollateralIncrease) /\ UNCHANGED logs
  <2>1. collaterals' = collaterals /\ logs' = logs
    BY <1>7 DEF ReclaimCollateral, DenyReclaimRequest, UpdateTrustee, UpdateDecisionTimeout,
       UpdateMinCollateralIncrease
  <2> QED BY <1>1, <1>2, <2>1, QuietScan
<1> QED BY <1>4, <1>5, <1>6, <1>7, Zenon DEF Transaction

\* The variables of the scanner in a step that leaves the chain alone.
LEMMA ChainKept ==
  ASSUME NEW h, Follows(h, logs, booked, collaterals, now), UNCHANGED <<vars, chain>>,
         ScanTypeOK', InPlace(logs, now, last', scan'),
         Caught(h, logs, booked, last', scan', table', doubtful')
  PROVE  ScanInv(h)'
  BY DEF vars, chain, ScanInv

LEMMA NoScanFacts == /\ NoScan \in Scan /\ NoScan.block = 0 /\ NoScan.to = 0
                     /\ \A L : Touched(L, NoScan) = {}
<1>1. NoScan \in Scan /\ NoScan.block = 0 /\ NoScan.to = 0 /\ NoScan.done = 0
  BY DEF NoScan, Scan
<1>2. ASSUME NEW L PROVE Touched(L, NoScan) = {}
  <2>1. 1 .. NoScan.done = {}
    BY <1>1
  <2> QED BY <1>1, <2>1 DEF Touched
<1> QED BY <1>1, <1>2

\* The parts of the invariant.
LEMMA ScanParts ==
  ASSUME NEW h, ScanInv(h)
  PROVE  /\ now \in Blocks /\ now \in Nat /\ logs \in [Blocks -> Seq(Event)]
         /\ last \in Nat /\ last \in Blocks /\ scan \in Scan
         /\ booked \in [Blocks -> [Keys -> Nat]] /\ table \in [Keys -> Nat \cup {NoRow}]
         /\ doubtful \subseteq Keys /\ ScanTypeOK
         /\ Follows(h, logs, booked, collaterals, now) /\ InPlace(logs, now, last, scan)
         /\ Caught(h, logs, booked, last, scan, table, doubtful)
<1>1. /\ now \in Blocks /\ logs \in [Blocks -> Seq(Event)] /\ last \in Nat /\ scan \in Scan
      /\ booked \in [Blocks -> [Keys -> Nat]] /\ table \in [Keys -> Nat \cup {NoRow}]
      /\ doubtful \subseteq Keys /\ ScanTypeOK
      /\ Follows(h, logs, booked, collaterals, now) /\ InPlace(logs, now, last, scan)
      /\ Caught(h, logs, booked, last, scan, table, doubtful)
  BY DEF ScanInv, ScanTypeOK, Scan
<1>2. last \in Blocks
  BY <1>1, LastBlock
<1> QED BY <1>1, <1>2, BlocksNat

\* A scan starts with the block after the last one stored.
LEMMA StartStep == ASSUME NEW h PROVE ScanInv(h) /\ StartScan => ScanInv(h)'
<1>0. SUFFICES ASSUME ScanInv(h), StartScan PROVE ScanInv(h)'
  OBVIOUS
<1>1. /\ now \in Blocks /\ now \in Nat /\ last \in Nat /\ last \in Blocks /\ ScanTypeOK
      /\ Follows(h, logs, booked, collaterals, now) /\ InPlace(logs, now, last, scan)
      /\ Caught(h, logs, booked, last, scan, table, doubtful)
  BY <1>0, ScanParts
<1>2. /\ scan = NoScan /\ last + 1 <= CurrentBlock /\ UNCHANGED <<vars, chain>>
      /\ table' = table /\ last' = last /\ doubtful' = doubtful
  BY <1>0 DEF StartScan, Scanning, FirstBlock
<1> PICK m : m = IF last + 1 + MaxBlocksPerScan > CurrentBlock THEN CurrentBlock
                 ELSE last + 1 + MaxBlocksPerScan
  OBVIOUS
<1> PICK s : s = [block |-> last + 1, done |-> 0, to |-> m]
  OBVIOUS
<1>3. scan' = s
  BY <1>0 DEF StartScan, FirstBlock
<1>4. m \in Nat /\ last + 1 <= m /\ m + 2 <= now
  <2>1. now >= 2 /\ CurrentBlock = now - 2
    BY <1>1, <1>2 DEF CurrentBlock
  <2> QED BY <1>1, <1>2, <2>1, ScanAssumption
<1>5. s \in Scan /\ s.block = last + 1 /\ s.done = 0 /\ s.to = m /\ last + 1 \in Blocks
  <2>1. last + 1 \in Nat /\ last + 1 <= now
    BY <1>1, <1>4
  <2> QED BY <1>1, <1>4, <2>1, BlocksNat DEF Scan
<1>6. InPlace(logs, now, last, s)
  <2>1. Len(logs[last + 1]) >= 0
    BY <1>0, <1>5, ScanParts
  <2> QED BY <1>1, <1>4, <1>5, <2>1 DEF InPlace
<1>7. Touched(logs, s) = {} /\ Touched(logs, scan) = {}
  <2>1. 1 .. s.done = {}
    BY <1>5
  <2> QED BY <1>2, <2>1, NoScanFacts DEF Touched
<1>8. h[last + 1][0] = booked[last]
  <2>1. 0 < last + 1 /\ last + 1 <= now /\ (last + 1) - 1 = last
    BY <1>1, <1>4
  <2> QED BY <1>1, <1>5, <2>1 DEF Follows
<1>9. Caught(h, logs, booked, last, s, table, doubtful)
  <2>1. \A k \in Keys \ doubtful : Amount(table[k]) = booked[last][k]
    BY <1>1, <1>7 DEF Caught
  <2>2. \A c \in Blocks : last <= c /\ c < last + 1 => c = last
    BY <1>1, BlocksNat
  <2> QED BY <1>5, <1>7, <1>8, <2>1, <2>2 DEF Caught
<1>10. ScanTypeOK'
  BY <1>1, <1>2, <1>3, <1>5 DEF ScanTypeOK, Scan, vars, chain
<1> QED BY <1>1, <1>2, <1>3, <1>6, <1>9, <1>10, ChainKept

\* A scan that is cut short leaves the rows of the keys it has not touched.
LEMMA AbandonStep == ASSUME NEW h PROVE ScanInv(h) /\ Abandon => ScanInv(h)'
<1>0. SUFFICES ASSUME ScanInv(h), Abandon PROVE ScanInv(h)'
  OBVIOUS
<1>1. /\ now \in Blocks /\ last \in Nat /\ ScanTypeOK /\ logs \in [Blocks -> Seq(Event)] /\ scan \in Scan
      /\ Follows(h, logs, booked, collaterals, now) /\ InPlace(logs, now, last, scan)
      /\ Caught(h, logs, booked, last, scan, table, doubtful)
  BY <1>0, ScanParts
<1>2. /\ scan' = NoScan /\ UNCHANGED <<vars, chain>> /\ table' = table /\ last' = last
      /\ doubtful' = doubtful \cup Touched(logs, scan)
  BY <1>0 DEF Abandon, Touched
<1>3. Touched(logs, scan) \subseteq Keys
  <2>1. CASE scan = NoScan
    BY <2>1, NoScanFacts
  <2>2. CASE scan # NoScan /\ scan.block <= scan.to
    <3>1. /\ scan.block \in Blocks /\ scan.done \in Nat /\ scan.done <= Len(logs[scan.block])
      BY <1>1, <2>2, ScanBlock
    <3>2. logs[scan.block] \in Seq(Event)
      BY <1>1, <3>1
    <3>3. \A i \in 1 .. scan.done : logs[scan.block][i] \in Event
      BY <3>1, <3>2
    <3> QED BY <3>3 DEF Touched, Event
  <2>3. CASE scan.block > scan.to
    BY <2>3 DEF Touched
  <2>4. scan.block <= scan.to \/ scan.block > scan.to
    BY <1>1 DEF Scan
  <2> QED BY <2>1, <2>2, <2>3, <2>4
<1>4. InPlace(logs, now, last, NoScan)
  BY <1>1 DEF InPlace
<1>5. Caught(h, logs, booked, last, NoScan, table, doubtful')
  <2>1. \A c \in Blocks : ~(c < NoScan.block)
    BY NoScanFacts, BlocksNat
  <2>2. \A k \in Keys \ (doubtful' \cup Touched(logs, NoScan)) : Amount(table[k]) = booked[last][k]
    BY <1>1, <1>2, NoScanFacts DEF Caught
  <2> QED BY <2>1, <2>2 DEF Caught
<1>6. ScanTypeOK'
  <2>1. NoScan \in [block: Nat, done: Nat, to: Nat]
    BY NoScanFacts DEF Scan
  <2> QED BY <1>1, <1>2, <1>3, <2>1 DEF ScanTypeOK, vars, chain
<1> QED BY <1>1, <1>2, <1>4, <1>5, <1>6, ChainKept

\* The row of the event's key follows the contract's collateral of that key.
LEMMA RowFollows ==
  ASSUME NEW e \in Event, NEW x \in [Keys -> Nat], NEW y \in [Keys -> Nat], Does(x, e, y),
         NEW row \in Nat \cup {NoRow}, e.kind # "Deposit" => row # NoRow
  PROVE  /\ Updated(row, e) \in Nat
         /\ Amount(row) = x[e.key] \/ e.kind = "Slashed" => Updated(row, e) = y[e.key]
<1>1. e.key \in Keys /\ e.amount \in Nat /\ e.kind \in {"Deposit", "Reclaimed", "Slashed"}
  BY DEF Event
<1>2. x[e.key] \in Nat /\ y[e.key] \in Nat
  BY <1>1
<1>3. CASE e.kind = "Deposit"
  BY <1>1, <1>2, <1>3 DEF Does, Updated, Amount, NoRow
<1>4. CASE e.kind = "Reclaimed"
  BY <1>1, <1>2, <1>4 DEF Does, Updated, Amount, NoRow, Minus
<1>5. CASE e.kind = "Slashed"
  BY <1>1, <1>2, <1>5 DEF Does, Updated, Amount, NoRow
<1> QED BY <1>1, <1>3, <1>4, <1>5

\* An event is handled: the row of its key is written.
LEMMA HandleStep == ASSUME NEW h PROVE ScanInv(h) /\ HandleEvent => ScanInv(h)'
<1>0. SUFFICES ASSUME ScanInv(h), HandleEvent PROVE ScanInv(h)'
  OBVIOUS
<1>1. /\ now \in Blocks /\ last \in Nat /\ ScanTypeOK /\ logs \in [Blocks -> Seq(Event)] /\ scan \in Scan
      /\ table \in [Keys -> Nat \cup {NoRow}] /\ doubtful \subseteq Keys
      /\ Follows(h, logs, booked, collaterals, now) /\ InPlace(logs, now, last, scan)
      /\ Caught(h, logs, booked, last, scan, table, doubtful)
  BY <1>0, ScanParts
<1> PICK b, d, e : b = scan.block /\ d = scan.done /\ e = NextEvent
  OBVIOUS
<1>2. scan # NoScan /\ b <= scan.to /\ d < Len(logs[b]) /\ e = logs[b][d + 1]
  BY <1>0 DEF HandleEvent, HasNext, Scanning, NextEvent
<1>3. /\ b \in Blocks /\ b < now /\ d \in Nat /\ b \in Nat /\ now \in Nat
  BY <1>1, <1>2, ScanBlock
<1>4. logs[b] \in Seq(Event) /\ e \in Event /\ e.key \in Keys
  <2>1. logs[b] \in Seq(Event)
    BY <1>1, <1>3
  <2>2. d + 1 \in 1 .. Len(logs[b])
    BY <1>2, <1>3, <2>1
  <2>3. e \in Event
    BY <1>2, <2>1, <2>2
  <2> QED BY <2>1, <2>3 DEF Event
<1>5. CASE e.kind # "Deposit" /\ table[e.key] = NoRow
  <2>1. Abandon
    BY <1>0, <1>5 DEF HandleEvent
  <2> QED BY <1>0, <2>1, AbandonStep
<1>6. CASE ~(e.kind # "Deposit" /\ table[e.key] = NoRow)
  <2> PICK T, D, s : T = table' /\ D = doubtful' /\ s = scan'
    OBVIOUS
  <2>1. /\ T = [table EXCEPT ![e.key] = Updated(table[e.key], e)]
        /\ D = IF e.kind = "Slashed" THEN doubtful \ {e.key} ELSE doubtful
        /\ s = [scan EXCEPT !.done = d + 1]
        /\ UNCHANGED <<vars, chain>> /\ last' = last
    BY <1>0, <1>6 DEF HandleEvent
  <2>2. s \in Scan /\ s.block = b /\ s.done = d + 1 /\ s.to = scan.to /\ s # NoScan
    <3>1. s \in Scan /\ s.block = b /\ s.done = d + 1 /\ s.to = scan.to
      <4>1. scan \in [block: Nat, done: Nat, to: Nat] /\ d + 1 \in Nat
        BY <1>1, <1>3 DEF Scan
      <4>2. s = [scan EXCEPT !.done = d + 1]
        BY <2>1
      <4> QED BY <4>1, <4>2 DEF Scan
    <3>2. b # 0
      BY <1>1, <1>2, ScanBlock
    <3> QED BY <3>1, <3>2, NoScanFacts
  <2>3. h[b][d] \in [Keys -> Nat] /\ h[b][d + 1] \in [Keys -> Nat]
    <3>1. h \in [Blocks -> [Nat -> [Keys -> Nat]]]
      BY <1>1 DEF Follows
    <3> QED BY <1>3, <3>1
  <2>4. Does(h[b][d], e, h[b][d + 1])
    <3>1. d \in 0 .. Len(logs[b]) - 1
      BY <1>2, <1>3, <1>4
    <3>2. b <= now
      BY <1>3
    <3> QED BY <1>1, <1>2, <1>3, <3>1, <3>2 DEF Follows
  <2>5. table[e.key] \in Nat \cup {NoRow}
    BY <1>1, <1>4
  <2> PICK u : u = Updated(table[e.key], e)
    OBVIOUS
  <2>6. /\ u \in Nat
        /\ Amount(table[e.key]) = h[b][d][e.key] \/ e.kind = "Slashed" => u = h[b][d + 1][e.key]
    <3>0. PICK x, y, row : x = h[b][d] /\ y = h[b][d + 1] /\ row = table[e.key]
      OBVIOUS
    <3>1. /\ x \in [Keys -> Nat] /\ y \in [Keys -> Nat] /\ Does(x, e, y)
          /\ row \in Nat \cup {NoRow} /\ (e.kind # "Deposit" => row # NoRow)
      BY <1>6, <2>3, <2>4, <2>5, <3>0
    <3>2. Updated(row, e) \in Nat
      BY <1>4, <3>1, RowFollows
    <3>3. Amount(row) = x[e.key] \/ e.kind = "Slashed" => Updated(row, e) = y[e.key]
      BY <1>4, <3>1, RowFollows
    <3> QED BY <3>0, <3>2, <3>3
  <2>7. /\ T \in [Keys -> Nat \cup {NoRow}] /\ T[e.key] = u
        /\ \A k \in Keys \ {e.key} : T[k] = table[k]
    BY <1>1, <1>4, <2>1, <2>6
  <2>8. Amount(u) = u
    BY <2>6 DEF Amount, NoRow
  <2>9. Touched(logs, s) = Touched(logs, scan) \cup {e.key}
    <3>1. 1 .. s.done = 1 .. d \cup {d + 1}
      BY <1>3, <2>2
    <3>2. ~(b > scan.to)
      BY <1>1, <1>2, <1>3 DEF Scan
    <3>3. Touched(logs, scan) = {logs[b][i].key : i \in 1 .. d}
      BY <3>2 DEF Touched
    <3>4. Touched(logs, s) = {logs[b][i].key : i \in 1 .. d \cup {d + 1}}
      BY <2>2, <3>1, <3>2 DEF Touched
    <3> QED BY <1>2, <3>3, <3>4
  <2>10. InPlace(logs, now, last, s)
    <3>1. d + 1 <= Len(logs[b])
      BY <1>2, <1>3, <1>4
    <3>2. last < now \/ last = 0
      BY <1>1 DEF InPlace
    <3>3. last < b /\ b <= scan.to + 1 /\ scan.to + 2 <= now
      BY <1>1, <1>2, ScanBlock
    <3> QED BY <2>2, <3>1, <3>2, <3>3 DEF InPlace
  <2>11. Caught(h, logs, booked, last, s, T, D)
    <3>1. \A c \in Blocks : last <= c /\ c < b => booked[c] = booked[last]
      BY <1>1 DEF Caught
    <3>2. ASSUME NEW k \in Keys \ (D \cup Touched(logs, s)) PROVE Amount(T[k]) = booked[last][k]
      <4>1. k # e.key /\ k \in Keys \ (doubtful \cup Touched(logs, scan))
        BY <2>1, <2>9
      <4> QED BY <1>1, <2>7, <4>1 DEF Caught
    <3>3. ASSUME NEW k \in Keys \ D PROVE Amount(T[k]) = h[b][d + 1][k]
      <4>1. \A j \in Keys \ doubtful : Amount(table[j]) = h[b][d][j]
        BY <1>1, <1>2 DEF Caught
      <4>2. CASE k = e.key
        <5>1. Amount(table[e.key]) = h[b][d][e.key] \/ e.kind = "Slashed"
          BY <2>1, <3>3, <4>1, <4>2
        <5> QED BY <2>6, <2>7, <2>8, <4>2, <5>1
      <4>3. CASE k # e.key
        <5>1. k \in Keys \ doubtful
          BY <2>1, <4>3
        <5>2. h[b][d + 1][k] = h[b][d][k]
          BY <2>4, <4>3 DEF Does
        <5> QED BY <2>7, <4>1, <4>3, <5>1, <5>2
      <4> QED BY <4>2, <4>3
    <3> QED BY <2>2, <3>1, <3>2, <3>3, Zenon DEF Caught
  <2>12. ScanTypeOK'
    <3>1. D \subseteq Keys
      BY <1>1, <2>1
    <3> QED BY <1>1, <2>1, <2>2, <2>7, <3>1 DEF ScanTypeOK, Scan, vars, chain
  <2> QED BY <1>1, <2>1, <2>10, <2>11, <2>12, ChainKept
<1> QED BY <1>5, <1>6

LEMMA SetDone ==
  ASSUME NEW q \in Scan
  PROVE  [q EXCEPT !.done = 0] = [block |-> q.block, done |-> 0, to |-> q.to]
  BY DEF Scan

LEMMA Advance ==
  ASSUME NEW s \in Scan, NEW b \in Nat
  PROVE  [s EXCEPT !.block = b + 1, !.done = 0] = [block |-> b + 1, done |-> 0, to |-> s.to]
<1> PICK q : q = [s EXCEPT !.block = b + 1]
  OBVIOUS
<1>1. q \in Scan /\ q.block = b + 1 /\ q.to = s.to
  BY DEF Scan
<1>2. [q EXCEPT !.done = 0] = [block |-> b + 1, done |-> 0, to |-> s.to]
  BY <1>1, SetDone
<1> QED BY <1>2

\* A block is through: its number is stored, unless it is without events.
LEMMA EndBlockStep == ASSUME NEW h PROVE ScanInv(h) /\ EndBlock => ScanInv(h)'
<1>0. SUFFICES ASSUME ScanInv(h), EndBlock PROVE ScanInv(h)'
  OBVIOUS
<1>1. /\ now \in Blocks /\ last \in Nat /\ ScanTypeOK /\ logs \in [Blocks -> Seq(Event)] /\ scan \in Scan
      /\ Follows(h, logs, booked, collaterals, now) /\ InPlace(logs, now, last, scan)
      /\ Caught(h, logs, booked, last, scan, table, doubtful)
  BY <1>0, ScanParts
<1> PICK b, d, s, l : b = scan.block /\ d = scan.done /\ s = scan' /\ l = last'
  OBVIOUS
<1>2. /\ scan # NoScan /\ b <= scan.to /\ ~(d < Len(logs[b]))
      /\ l = (IF logs[b] # <<>> THEN b ELSE last) /\ s = [scan EXCEPT !.block = b + 1, !.done = 0]
      /\ UNCHANGED <<vars, chain>> /\ table' = table /\ doubtful' = doubtful
  BY <1>0 DEF EndBlock, HasNext, Scanning
<1>3. /\ b \in Nat /\ d \in Nat /\ scan.to \in Nat /\ now \in Nat
      /\ last < b /\ b < now /\ scan.to + 2 <= now /\ b \in Blocks /\ 0 < b /\ d <= Len(logs[b])
  BY <1>1, <1>2, ScanBlock
<1>4. Len(logs[b]) \in Nat /\ d = Len(logs[b]) /\ (logs[b] = <<>> <=> d = 0)
  <2>1. logs[b] \in Seq(Event)
    BY <1>1, <1>3
  <2> QED BY <1>2, <1>3, <2>1
<1>5. s \in Scan /\ s.block = b + 1 /\ s.done = 0 /\ s.to = scan.to /\ s # NoScan
  <2>1. s \in Scan /\ s.block = b + 1 /\ s.done = 0 /\ s.to = scan.to
    <3>1. s = [block |-> b + 1, done |-> 0, to |-> scan.to]
      BY <1>1, <1>2, <1>3, Advance
    <3>2. scan.to \in Nat /\ b + 1 \in Nat
      BY <1>3
    <3> QED BY <3>1, <3>2 DEF Scan
  <2>2. b + 1 # 0
    BY <1>3
  <2> QED BY <2>1, <2>2, NoScanFacts
<1>6. l \in Nat /\ l < b + 1 /\ l < now /\ (l = last \/ l = b)
  BY <1>1, <1>2, <1>3
<1>7. InPlace(logs, now, l, s)
  <2>1. b + 1 <= scan.to => Len(logs[b + 1]) >= 0
    <3> SUFFICES ASSUME b + 1 <= scan.to PROVE Len(logs[b + 1]) >= 0
      OBVIOUS
    <3>1. b + 1 \in Nat /\ b + 1 <= now
      BY <1>3
    <3>2. logs[b + 1] \in Seq(Event)
      BY <1>1, <3>1, BlocksNat
    <3> QED BY <3>2
  <2>2. b + 1 <= scan.to + 1
    BY <1>2, <1>3
  <2> QED BY <1>3, <1>5, <1>6, <2>1, <2>2 DEF InPlace
<1>8. Touched(logs, s) = {}
  <2>1. 1 .. s.done = {}
    BY <1>5
  <2> QED BY <2>1 DEF Touched
<1>9. h[b][d] = booked[b]
  BY <1>1, <1>3, <1>4 DEF Follows
<1>10. \A k \in Keys \ doubtful : Amount(table[k]) = booked[b][k]
  <2>1. \A k \in Keys \ doubtful : Amount(table[k]) = h[b][d][k]
    BY <1>1, <1>2 DEF Caught
  <2> QED BY <1>9, <2>1
<1>11. booked[l] = booked[b] /\ \A c \in Blocks : l <= c /\ c < b + 1 => booked[c] = booked[l]
  <2>1. CASE logs[b] # <<>>
    <3>1. l = b
      BY <1>2, <2>1
    <3>2. \A c \in Blocks : l <= c /\ c < b + 1 => c = b
      BY <1>3, <3>1, BlocksNat
    <3> QED BY <3>1, <3>2
  <2>2. CASE logs[b] = <<>>
    <3>1. l = last /\ d = 0
      BY <1>2, <1>4, <2>2
    <3>2. booked[b] = booked[b - 1]
      <4>1. b <= now
        BY <1>3
      <4> QED BY <1>1, <1>3, <1>9, <3>1, <4>1 DEF Follows
    <3>3. \A c \in Blocks : last <= c /\ c < b => booked[c] = booked[last]
      BY <1>1 DEF Caught
    <3>4. booked[b - 1] = booked[last]
      <4>1. b - 1 \in Nat /\ last <= b - 1 /\ b - 1 < b
        BY <1>1, <1>3
      <4> QED BY <1>3, <3>3, <4>1, BlocksNat
    <3>5. \A c \in Blocks : c < b + 1 => c < b \/ c = b
      BY <1>3, BlocksNat
    <3> QED BY <3>1, <3>2, <3>3, <3>4, <3>5
  <2> QED BY <2>1, <2>2
<1>12. Caught(h, logs, booked, l, s, table, doubtful)
  <2>1. b + 1 <= scan.to => h[b + 1][0] = booked[b]
    <3> SUFFICES ASSUME b + 1 <= scan.to PROVE h[b + 1][0] = booked[b]
      OBVIOUS
    <3>1. b + 1 \in Nat /\ b + 1 <= now /\ 0 < b + 1 /\ (b + 1) - 1 = b
      BY <1>3
    <3>2. b + 1 \in Blocks
      BY <1>1, <3>1, BlocksNat
    <3> QED BY <1>1, <3>1, <3>2 DEF Follows
  <2>2. \A k \in Keys \ (doubtful \cup Touched(logs, s)) : Amount(table[k]) = booked[l][k]
    BY <1>8, <1>10, <1>11
  <2>3. s.block <= s.to => \A k \in Keys \ doubtful : Amount(table[k]) = h[s.block][s.done][k]
    BY <1>5, <1>10, <2>1
  <2> QED BY <1>5, <1>11, <2>2, <2>3 DEF Caught
<1>13. ScanTypeOK'
  BY <1>1, <1>2, <1>5, <1>6 DEF ScanTypeOK, Scan, vars, chain
<1> QED BY <1>1, <1>2, <1>7, <1>12, <1>13, ChainKept

\* The scan is through its blocks: the number of the last one is stored.
LEMMA EndScanStep == ASSUME NEW h PROVE ScanInv(h) /\ EndScan => ScanInv(h)'
<1>0. SUFFICES ASSUME ScanInv(h), EndScan PROVE ScanInv(h)'
  OBVIOUS
<1>1. /\ now \in Blocks /\ last \in Nat /\ ScanTypeOK /\ logs \in [Blocks -> Seq(Event)] /\ scan \in Scan
      /\ Follows(h, logs, booked, collaterals, now) /\ InPlace(logs, now, last, scan)
      /\ Caught(h, logs, booked, last, scan, table, doubtful)
  BY <1>0, ScanParts
<1> PICK b, m : b = scan.block /\ m = scan.to
  OBVIOUS
<1>2. /\ scan # NoScan /\ b > m /\ last' = m /\ scan' = NoScan
      /\ UNCHANGED <<vars, chain>> /\ table' = table /\ doubtful' = doubtful
  BY <1>0 DEF EndScan, Scanning, LastAfter
<1>3. /\ b \in Nat /\ m \in Nat /\ now \in Nat /\ last < b /\ b <= m + 1 /\ m + 2 <= now /\ m \in Blocks
  BY <1>1, <1>2, ScanBlock
<1>4. last <= m /\ m < b /\ m < now
  BY <1>1, <1>2, <1>3
<1>5. InPlace(logs, now, m, NoScan)
  BY <1>4 DEF InPlace
<1>6. booked[m] = booked[last] /\ Touched(logs, scan) = {}
  BY <1>1, <1>2, <1>3, <1>4 DEF Caught, Touched
<1>7. Caught(h, logs, booked, m, NoScan, table, doubtful)
  <2>1. \A c \in Blocks : ~(c < NoScan.block)
    BY NoScanFacts, BlocksNat
  <2>2. \A k \in Keys \ (doubtful \cup Touched(logs, NoScan)) : Amount(table[k]) = booked[m][k]
    BY <1>1, <1>6, NoScanFacts DEF Caught
  <2> QED BY <2>1, <2>2 DEF Caught
<1>8. ScanTypeOK'
  BY <1>1, <1>2, <1>3, NoScanFacts DEF ScanTypeOK, Scan, vars, chain
<1> QED BY <1>1, <1>2, <1>5, <1>7, <1>8, ChainKept

LEMMA ScanInductive ==
  ASSUME IInv, \E h : ScanInv(h), [SystemNext]_systemVars
  PROVE  \E h : ScanInv(h)'
<1> PICK h : ScanInv(h)
  OBVIOUS
<1>1. CASE Transaction
  BY <1>1, TransactionScan
<1>2. CASE NewBlock
  BY <1>2, NewBlockScan
<1>3. CASE ScanStep
  BY <1>3, StartStep, HandleStep, EndBlockStep, EndScanStep DEF ScanStep
<1>4. CASE ScanFails
  BY <1>4, AbandonStep DEF ScanFails
<1>5. CASE UNCHANGED systemVars
  <2>1. now' = now /\ logs' = logs /\ collaterals' = collaterals /\ UNCHANGED <<booked, scanner>>
    BY <1>5 DEF systemVars, vars, chain
  <2> QED BY <2>1, QuietScan
<1> QED BY <1>1, <1>2, <1>3, <1>4, <1>5 DEF SystemNext

\* Composed with the scan the contract still does what it does alone: whatever is
\* proved of the contract holds of the composition.
THEOREM ContractIsKept == SystemSpec => Spec
<1>1. SystemInit => Init
  BY DEF SystemInit
<1>2. [SystemNext]_systemVars => [Next]_vars
  BY ContractStep DEF systemVars
<1> QED BY <1>1, <1>2, PTL DEF SystemSpec, Spec

\* Between two scans the validator's table is what the contract had booked at the end
\* of the last scanned block, for every executor with no event in a block whose scan
\* was cut short, whatever the events, the length of a scan and the failures.
THEOREM TableMatches == SystemSpec => []TableIsExact
<1>1. SystemInit => \E h : ScanInv(h)
  BY ScanInit
<1>2. IInv /\ (\E h : ScanInv(h)) /\ [SystemNext]_systemVars => (\E h : ScanInv(h))'
  BY ScanInductive
<1>3. (\E h : ScanInv(h)) => TableIsExact
  <2> SUFFICES ASSUME NEW h, ScanInv(h), scan = NoScan, NEW k \in Keys \ doubtful
               PROVE  Stored(k) = booked[last][k]
    BY DEF TableIsExact, Scanning
  <2>1. Caught(h, logs, booked, last, scan, table, doubtful) /\ Touched(logs, scan) = {}
    BY NoScanFacts DEF ScanInv
  <2> QED BY <2>1 DEF Caught, Stored, Amount
<1>4. SystemSpec => []IInv
  BY ContractIsKept, Invariance, PTL
<1> QED BY <1>1, <1>2, <1>3, <1>4, PTL DEF SystemSpec

=============================================================================
