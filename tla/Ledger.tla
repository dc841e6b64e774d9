------------------------------ MODULE Ledger -------------------------------
(***************************************************************************)
(* What the credit ledger promises (trait CreditOperations of              *)
(* domain/credits.rs): every operation on an account is one step.          *)
(*                                                                         *)
(* A hold sets credits of a user apart.  It is settled, once, by a charge  *)
(* that may differ from it, or it is void.  The balance covers all open    *)
(* holds when one is made, unless it is of nothing (a debit or a charge    *)
(* may have left less than is held).  Two things end that promise to a     *)
(* user: a request that is cut short, and a hold of a negative amount,     *)
(* which is taken and sets off other holds.                                *)
(***************************************************************************)
EXTENDS Integers, Functions

CONSTANTS
  Users,
  Ids,       \* of holds
  Amounts,   \* that are applied; negative for a debit
  Costs      \* that are held and charged; no sign is required

VARIABLES
  balance,   \* user -> credits
  spent,     \* user -> credits charged so far
  holds,     \* id -> hold
  cut        \* users with a request that was cut short

vars == <<balance, spent, holds, cut>>

NoHold == [state |-> "none"]

Init ==
  /\ balance = [u \in Users |-> 0]
  /\ spent = [u \in Users |-> 0]
  /\ holds = [id \in Ids |-> NoHold]
  /\ cut = {}

IsOpen(id) == holds[id].state = "open"
HeldBy(u, id) == IF IsOpen(id) /\ holds[id].user = u THEN holds[id].amount ELSE 0
Held(u) == SumFunctionOnSet([id \in Ids |-> HeldBy(u, id)], Ids)

\* u has made a hold of a negative amount.
SetOff(u) == \E id \in Ids : holds[id] # NoHold /\ holds[id].user = u /\ holds[id].amount < 0

Pay(u, x) ==
  /\ x <= balance[u]
  /\ balance' = [balance EXCEPT ![u] = @ - x]
  /\ spent' = [spent EXCEPT ![u] = @ + x]

Apply(u, x) ==
  /\ balance[u] + x >= 0
  /\ balance' = [balance EXCEPT ![u] = @ + x]
  /\ UNCHANGED <<spent, holds, cut>>

Charge(u, x) ==
  /\ Pay(u, x)
  /\ UNCHANGED <<holds, cut>>

Hold(id, u, x) ==
  /\ holds[id] = NoHold
  /\ u \in cut \/ SetOff(u) \/ x <= 0 \/ Held(u) + x <= balance[u]
  /\ holds' = [holds EXCEPT ![id] = [state |-> "open", user |-> u, amount |-> x]]
  /\ UNCHANGED <<balance, spent, cut>>

Settle(id, x) ==
  /\ IsOpen(id)
  /\ Pay(holds[id].user, x)
  /\ holds' = [holds EXCEPT ![id].state = "settled"]
  /\ UNCHANGED cut

\* A settlement beyond the balance is refused and gives up the hold.
Refuse(id, x) ==
  /\ IsOpen(id)
  /\ x > balance[holds[id].user]
  /\ holds' = [holds EXCEPT ![id].state = "void"]
  /\ UNCHANGED <<balance, spent, cut>>

\* A request of u is cut short, a settlement perhaps.
Cut(u) ==
  /\ cut' = cut \cup {u}
  /\ \/ UNCHANGED holds
     \/ \E id \in Ids : /\ IsOpen(id) /\ holds[id].user = u
                       /\ holds' = [holds EXCEPT ![id].state = "void"]
  /\ UNCHANGED <<balance, spent>>

Next ==
  \/ \E u \in Users :
       \/ \E x \in Amounts : Apply(u, x)
       \/ \E x \in Costs : Charge(u, x) \/ \E id \in Ids : Hold(id, u, x)
       \/ Cut(u)
  \/ \E id \in Ids, x \in Costs : Settle(id, x) \/ Refuse(id, x)

Spec == Init /\ [][Next]_vars

=============================================================================
