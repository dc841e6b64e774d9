----------------------------- MODULE Collateral -----------------------------
(***************************************************************************)
(* The collateral contract (collateral-contract/src/                       *)
(* CollateralUpgradeable.sol).  Miners lock value for one of their         *)
(* executors; the trustee may slash it; an owner gets it back by opening a *)
(* reclaim, which the trustee may deny until a deadline and which anybody  *)
(* may finalize after it.                                                  *)
(*                                                                         *)
(* One action is one transaction: the EVM runs it atomically, and a revert *)
(* undoes all of it, so a reverting call is simply not enabled here.  The  *)
(* only foreign code a call runs is the recipient of finalizeReclaim, and  *)
(* it runs after the last write to the storage: whatever it calls back is  *)
(* a transaction of this model that starts from the final state.           *)
(***************************************************************************)
EXTENDS Integers, FiniteSets, Functions

CONSTANTS
  Keys,         \* pairs (hotkey, executorId): the index of every mapping
  Accounts,     \* addresses other than address(0)
  NoOne,        \* address(0)
  MayRefuse,    \* accounts that are contracts, which may refuse a payment
  Amounts,      \* values a deposit may carry, and values of MIN_COLLATERAL_INCREASE
  Timeouts,     \* values of DECISION_TIMEOUT
  MaxTime,      \* largest uint64: reclaimCollateral reverts past it
  MaxReclaims,  \* bound: reclaims ever opened
  MaxBalance    \* bound: value in circulation, so that deposits stay finite

ASSUME CollateralAssumption ==
  /\ IsFiniteSet(Keys)
  /\ NoOne \notin Accounts
  /\ MayRefuse \subseteq Accounts
  /\ Amounts \subseteq Nat \ {0}
  /\ Timeouts \subseteq Nat \ {0}
  /\ MaxTime \in Nat
  /\ MaxReclaims \in Nat
  /\ MaxBalance \in Nat

VARIABLES
  executorToMiner,                 \* who owns the executor's collateral
  collaterals,                     \* value locked for the executor
  collateralUnderPendingReclaims,  \* part of it promised to open reclaims
  reclaims,                        \* reclaim id -> request, or NoReclaim
  nextReclaimId,
  trustee, decisionTimeout, minCollateralIncrease,  \* TRUSTEE, DECISION_TIMEOUT, MIN_COLLATERAL_INCREASE
  balance,                         \* address(this).balance
  now,                             \* block.timestamp
  slashed                          \* history: executors slashed so far

config == <<trustee, decisionTimeout, minCollateralIncrease>>
vars == <<executorToMiner, collaterals, collateralUnderPendingReclaims, reclaims,
          nextReclaimId, config, balance, now, slashed>>

ReclaimIds == 0 .. MaxReclaims - 1

\* What `delete reclaims[id]` leaves, and what an id never used reads as.
NoReclaim == [amount |-> 0]

Reclaim == [key: Keys, miner: Accounts, amount: Nat \ {0}, denyTimeout: Nat]

IsOpen(id) == reclaims[id].amount # 0

Init ==
  /\ executorToMiner = [k \in Keys |-> NoOne]
  /\ collaterals = [k \in Keys |-> 0]
  /\ collateralUnderPendingReclaims = [k \in Keys |-> 0]
  /\ reclaims = [id \in ReclaimIds |-> NoReclaim]
  /\ nextReclaimId = 0
  /\ trustee \in Accounts
  /\ decisionTimeout \in Timeouts
  /\ minCollateralIncrease \in Amounts
  /\ balance = 0
  /\ now = 0
  /\ slashed = {}

-----------------------------------------------------------------------------
(* The checks and the bookkeeping the calls are made of.  A definition     *)
(* whose name ends in _Mutant is a slip the properties below must catch;   *)
(* no action uses it.                                                      *)

Available_Mutant(k) == collaterals[k]

\* What a new reclaim would take: everything locked and not yet promised.
Available(k) == collaterals[k] - collateralUnderPendingReclaims[k]

DenyWindowOver_Mutant(r) == r.denyTimeout <= now

DenyWindowOver(r) == r.denyTimeout < now

Covered_Mutant(r) == TRUE

Covered_Strict(r) == collaterals[r.key] > r.amount

Covered(r) == collaterals[r.key] >= r.amount

PendingWithout_Mutant(r) == collateralUnderPendingReclaims

PendingWithout(r) == [collateralUnderPendingReclaims EXCEPT ![r.key] = @ - r.amount]

CollateralsAfterPaying_Mutant(r) == collaterals

CollateralsAfterPaying(r) == [collaterals EXCEPT ![r.key] = @ - r.amount]

-----------------------------------------------------------------------------
(* The calls.                                                              *)

\* deposit(): the first depositor becomes the owner, later ones must be it.
Deposit(a, k, v) ==
  /\ balance + v <= MaxBalance
  /\ v >= minCollateralIncrease
  /\ executorToMiner[k] \in {NoOne, a}
  /\ executorToMiner' = [executorToMiner EXCEPT ![k] = a]
  /\ collaterals' = [collaterals EXCEPT ![k] = @ + v]
  /\ balance' = balance + v
  /\ UNCHANGED <<collateralUnderPendingReclaims, reclaims, nextReclaimId, config, now, slashed>>

\* reclaimCollateral(): the subtraction and the deadline are checked arithmetic,
\* so the call also reverts when less is locked than promised, or past uint64.
ReclaimCollateral(a, k) ==
  /\ nextReclaimId < MaxReclaims
  /\ executorToMiner[k] = a
  /\ Available(k) > 0
  /\ now + decisionTimeout <= MaxTime
  /\ reclaims' = [reclaims EXCEPT ![nextReclaimId] =
       [key |-> k, miner |-> a, amount |-> Available(k), denyTimeout |-> now + decisionTimeout]]
  /\ collateralUnderPendingReclaims' =
       [collateralUnderPendingReclaims EXCEPT ![k] = @ + Available(k)]
  /\ nextReclaimId' = nextReclaimId + 1
  /\ UNCHANGED <<executorToMiner, collaterals, config, balance, now, slashed>>

\* finalizeReclaim(): anybody may call it once the deny window is over.  It reverts
\* (TransferFailed) while a recipient in MayRefuse refuses the payment.
FinalizeReclaim(id) ==
  LET r == reclaims[id]
  IN /\ IsOpen(id)
     /\ DenyWindowOver(r)
     /\ Covered(r)
     /\ balance >= r.amount
     /\ reclaims' = [reclaims EXCEPT ![id] = NoReclaim]
     /\ collateralUnderPendingReclaims' = PendingWithout(r)
     /\ collaterals' = CollateralsAfterPaying(r)
     /\ executorToMiner' = [executorToMiner EXCEPT ![r.key] = NoOne]
     /\ balance' = balance - r.amount
     /\ UNCHANGED <<nextReclaimId, config, now, slashed>>

\* denyReclaimRequest(): the trustee's veto, inside the deny window.
DenyReclaimRequest(a, id) ==
  LET r == reclaims[id]
  IN /\ a = trustee
     /\ IsOpen(id)
     /\ r.denyTimeout >= now
     /\ collateralUnderPendingReclaims' = PendingWithout(r)
     /\ reclaims' = [reclaims EXCEPT ![id] = NoReclaim]
     /\ UNCHANGED <<executorToMiner, collaterals, nextReclaimId, config, balance, now, slashed>>

\* slashCollateral(): burns everything locked; open reclaims stay as they are.
SlashCollateral(a, k) ==
  /\ a = trustee
  /\ collaterals[k] # 0
  /\ balance >= collaterals[k]
  /\ collaterals' = [collaterals EXCEPT ![k] = 0]
  /\ executorToMiner' = [executorToMiner EXCEPT ![k] = NoOne]
  /\ balance' = balance - collaterals[k]
  /\ slashed' = slashed \cup {k}
  /\ UNCHANGED <<collateralUnderPendingReclaims, reclaims, nextReclaimId, config, now>>

\* updateTrustee(), updateDecisionTimeout(), updateMinCollateralIncrease(): the
\* admin's calls; none of them touches a reclaim that is already open.
UpdateTrustee ==
  /\ trustee' \in Accounts
  /\ UNCHANGED <<executorToMiner, collaterals, collateralUnderPendingReclaims, reclaims,
                 nextReclaimId, decisionTimeout, minCollateralIncrease, balance, now, slashed>>

UpdateDecisionTimeout ==
  /\ decisionTimeout' \in Timeouts
  /\ UNCHANGED <<executorToMiner, collaterals, collateralUnderPendingReclaims, reclaims,
                 nextReclaimId, trustee, minCollateralIncrease, balance, now, slashed>>

UpdateMinCollateralIncrease ==
  /\ minCollateralIncrease' \in Amounts
  /\ UNCHANGED <<executorToMiner, collaterals, collateralUnderPendingReclaims, reclaims,
                 nextReclaimId, trustee, decisionTimeout, balance, now, slashed>>

\* The chain's clock; it may run past every deadline.
Tick ==
  /\ now <= MaxTime
  /\ now' = now + 1
  /\ UNCHANGED <<executorToMiner, collaterals, collateralUnderPendingReclaims, reclaims,
                 nextReclaimId, config, balance, slashed>>

Next ==
  \/ \E a \in Accounts, k \in Keys, v \in Amounts : Deposit(a, k, v)
  \/ \E a \in Accounts, k \in Keys : ReclaimCollateral(a, k)
  \/ \E id \in ReclaimIds : FinalizeReclaim(id)
  \/ \E a \in Accounts, id \in ReclaimIds : DenyReclaimRequest(a, id)
  \/ \E a \in Accounts, k \in Keys : SlashCollateral(a, k)
  \/ UpdateTrustee
  \/ UpdateDecisionTimeout
  \/ UpdateMinCollateralIncrease
  \/ Tick

Spec == Init /\ [][Next]_vars

\* finalizeReclaim() for a recipient that takes the payment.
FinalizeAccepted(id) == FinalizeReclaim(id) /\ reclaims[id].miner \notin MayRefuse

\* Blocks keep coming, and the miner who opened a reclaim keeps trying to
\* finalize it.  Nothing is assumed of the trustee, the admin or the accounts that
\* may refuse a payment.
Fairness == WF_vars(Tick) /\ \A id \in ReclaimIds : WF_vars(FinalizeAccepted(id))

FairSpec == Spec /\ Fairness

-----------------------------------------------------------------------------
(* What the contract promises.                                             *)

TypeOK ==
  /\ executorToMiner \in [Keys -> Accounts \cup {NoOne}]
  /\ collaterals \in [Keys -> Nat]
  /\ collateralUnderPendingReclaims \in [Keys -> Nat]
  /\ reclaims \in [ReclaimIds -> Reclaim \cup {NoReclaim}]
  /\ nextReclaimId \in 0 .. MaxReclaims
  /\ trustee \in Accounts
  /\ decisionTimeout \in Timeouts
  /\ minCollateralIncrease \in Amounts
  /\ balance \in Nat
  /\ now \in Nat
  /\ slashed \subseteq Keys

\* The amounts of the open reclaims of executor k, by reclaim id.
OpenAmounts(k) ==
  [id \in ReclaimIds |-> IF IsOpen(id) /\ reclaims[id].key = k THEN reclaims[id].amount ELSE 0]

\* The pending total of an executor is the sum of its open reclaims, whatever
\* was denied, paid or slashed in between: the checked subtractions of
\* finalizeReclaim and denyReclaimRequest can never revert.
PendingMatchesReclaims ==
  \A k \in Keys :
    collateralUnderPendingReclaims[k] = SumFunctionOnSet(OpenAmounts(k), ReclaimIds)

\* The contract holds exactly the sum of the collaterals it has booked, so the
\* transfers of finalizeReclaim and slashCollateral never lack funds.
Solvent == balance = SumFunctionOnSet(collaterals, Keys)

\* As long as an executor was never slashed, what is locked for it covers all
\* its open reclaims together: none of them waits for another's collateral.
UnslashedIsCovered ==
  \A k \in Keys \ slashed : collateralUnderPendingReclaims[k] <= collaterals[k]

\* How a reclaim ends depends only on the deadline it was opened with, however
\* the trustee and the timeout change meanwhile: up to the deadline it can only
\* be denied, which moves no value; after it, only be paid, in full and out of
\* the collateral of its own executor.
EndsByItsDeadline ==
  [][\A id \in ReclaimIds :
       LET r == reclaims[id]
       IN IsOpen(id) /\ reclaims'[id] # r =>
            /\ reclaims'[id] = NoReclaim
            /\ now <= r.denyTimeout =>
                 balance' = balance /\ collaterals' = collaterals
            /\ now > r.denyTimeout =>
                 /\ balance' = balance - r.amount
                 /\ collaterals' = [collaterals EXCEPT ![r.key] = @ - r.amount]]_vars

\* A reclaim does not stay open for ever: it is denied or paid, unless its
\* executor gets slashed or its miner may refuse the payment.  Denials, later
\* deposits, later reclaims and a new owner of the same executor cannot hold it up,
\* and neither can the reclaims of a miner who refuses.
ReclaimsEnd ==
  \A id \in ReclaimIds :
    IsOpen(id) ~> (~IsOpen(id) \/ reclaims[id].key \in slashed \/ reclaims[id].miner \in MayRefuse)

=============================================================================
