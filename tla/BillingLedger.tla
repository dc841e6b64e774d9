--------------------------- MODULE BillingLedger ---------------------------
(***************************************************************************)
(* Billing implements Ledger when the requests of a user do not overlap.   *)
(* A hold is made by the INSERT of its reservation and settled by the      *)
(* UPDATE of the account; while a handler is between the UPDATE that marks *)
(* the reservation released and that one, the hold is still open.          *)
(***************************************************************************)
EXTENDS Billing

BeingSettled(id) ==
  \E w \in Workers : pc[w] \in {"settle_get", "settle_put"} /\ ctx[w].res = id

HoldState(id) ==
  CASE settled[id] > 0 -> "settled"
    [] settled[id] = 0 /\ (~reservations[id].released \/ BeingSettled(id)) -> "open"
    [] OTHER -> "void"

HoldOf(id) ==
  LET row == reservations[id]
  IN IF Exists(row) THEN [state |-> HoldState(id), user |-> row.user, amount |-> row.amount]
     ELSE [state |-> "none"]

AccountOf(u) == IF accounts[u] = NoAccount THEN NewAccount ELSE accounts[u]

Abstract ==
  INSTANCE Ledger WITH
    Ids <- ReservationIds, Amounts <- ApplyAmounts,
    balance <- [u \in Users |-> AccountOf(u).balance],
    spent <- [u \in Users |-> AccountOf(u).spent],
    holds <- [id \in ReservationIds |-> HoldOf(id)],
    cut <- failed

\* To a user whose requests do not overlap, the handlers' several statements on
\* accounts and reservations look like single steps of the ledger, wherever a
\* handler ends and whatever the sign of its amount: a reservation is charged once
\* or given up, no charge goes beyond the balance, and credits are only reserved
\* that are there until the user has a handler cut short or a negative reservation.
ImplementsLedger == Abstract!Spec

=============================================================================
