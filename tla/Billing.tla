------------------------------ MODULE Billing ------------------------------
(***************************************************************************)
(* The credit ledger and the rentals of the billing service: the gRPC      *)
(* handlers (grpc/billing_service.rs), CreditManager (domain/credits.rs),  *)
(* RentalManager (domain/rentals.rs) and their SQL (storage/).             *)
(*                                                                         *)
(* A handler is a sequence of SQL statements, each a transaction of its    *)
(* own, with an await between them: one action is one statement together   *)
(* with the computation on what it returned.  Several handlers run at the  *)
(* same time (Workers), and each may end at any await (Fail): a statement  *)
(* fails, the server's request timeout drops the handler, the process      *)
(* dies.  Reads whose result is only formatted into a reply are left out.  *)
(* Ids are drawn in order where the code draws fresh UUIDs.                *)
(***************************************************************************)
EXTENDS Integers, FiniteSets, Functions

CONSTANTS
  Workers,          \* handlers that may run at the same time
  Users,
  ApplyAmounts,     \* amounts of ApplyCredits; a negative one is a debit
  Costs,            \* amounts of reservations, final amounts and final costs; parse_decimal checks no sign
  HasDuration,      \* whether a TrackRental request carries max_duration: subset of BOOLEAN
  NoAccount,        \* no row in billing.credits
  NoId,             \* an absent id or user
  Serialise,        \* TRUE: callers never overlap two requests of one user
  AllowFailures,    \* TRUE: a handler may end at any await
  MaxRequests,      \* bound: requests started
  MaxReservations,  \* bound: rows of billing.credit_reservations
  MaxRentals        \* bound: rows of billing.rentals

ASSUME BillingAssumption ==
  /\ ApplyAmounts \subseteq Int
  /\ Costs \subseteq Int
  /\ HasDuration \subseteq BOOLEAN
  /\ Serialise \in BOOLEAN
  /\ AllowFailures \in BOOLEAN
  /\ MaxRequests \in Nat
  /\ MaxReservations \in Nat
  /\ MaxRentals \in Nat
  /\ NoId \notin Users
  /\ NoAccount \notin [balance: Nat, reserved: Nat, spent: Int]

VARIABLES
  accounts,      \* billing.credits: user -> row
  reservations,  \* billing.credit_reservations: id -> row; ids in the order of reserved_at
  rentals,       \* billing.rentals: id -> row
  events,        \* billing.usage_events, as a set of (rental, kind)
  pc,            \* worker -> the statement its handler runs next
  ctx,           \* worker -> the local variables of its handler
  requests,      \* requests started so far
  applied,       \* history: credits written by ApplyCredits, per user
  settled,       \* history: charges written against a reservation
  failed         \* history: users of handlers that ended at an await

db == <<accounts, reservations, rentals, events>>
history == <<applied, settled, failed>>
vars == <<db, pc, ctx, requests, history>>

ReservationIds == 1 .. MaxReservations
RentalIds == 1 .. MaxRentals
RentalStates == {"Pending", "Active", "Suspended", "Terminating", "Completed", "Failed"}

Account == [balance: Nat, reserved: Nat, spent: Int]
Reservation == [user: Users, rental: RentalIds \cup {NoId}, amount: Int, released: BOOLEAN, expired: BOOLEAN]
Rental == [user: Users, state: RentalStates]
NoRow == [user |-> NoId]

\* Every statement a handler can be about to run; "idle" is no handler.
Labels ==
  {"idle", "apply_get", "apply_put", "reserve_get", "reserve_insert", "reserve_put",
   "balance_get", "settle_read", "settle_mark", "settle_get", "settle_put", "charge_get", "charge_put",
   "track_create", "track_event", "status_get", "status_put", "status_reread",
   "status_rewrite", "status_event", "final_get", "final_put", "final_find",
   "final_reread", "final_rewrite"}

NewAccount == [balance |-> 0, reserved |-> 0, spent |-> 0]

NoCtx == [user |-> NoId, amount |-> 0, rental |-> NoId, res |-> NoId,
          acct |-> NewAccount, state |-> "Pending", after |-> "idle"]

Init ==
  /\ accounts = [u \in Users |-> NoAccount]
  /\ reservations = [id \in ReservationIds |-> NoRow]
  /\ rentals = [r \in RentalIds |-> NoRow]
  /\ events = {}
  /\ pc = [w \in Workers |-> "idle"]
  /\ ctx = [w \in Workers |-> NoCtx]
  /\ requests = 0
  /\ applied = [u \in Users |-> 0]
  /\ settled = [id \in ReservationIds |-> 0]
  /\ failed = {}

Exists(row) == row.user # NoId

-----------------------------------------------------------------------------
(* CreditAccount: computations on a row that was read.                     *)

AvailableBalance_Mutant(a) == a.balance

AvailableBalance(a) == IF a.balance >= a.reserved THEN a.balance - a.reserved ELSE 0

WithCredits(a, x) == [a EXCEPT !.balance = @ + x]

WithReserved(a, x) == [a EXCEPT !.reserved = @ + x]

WithReleased(a, x) == [a EXCEPT !.reserved = IF @ >= x THEN @ - x ELSE 0]

CanCharge_Mutant(a, x) == TRUE

CanCharge(a, x) == a.balance >= x

Charged_Mutant(a, x) == [a EXCEPT !.spent = @ + x]

Charged(a, x) == [a EXCEPT !.balance = @ - x, !.spent = @ + x]

\* RentalState::can_transition_to.
CanTransition_Mutant(s, t) == s # t

CanTransition(s, t) ==
  <<s, t>> \in {<<"Pending", "Active">>, <<"Pending", "Failed">>,
                <<"Active", "Suspended">>, <<"Active", "Terminating">>,
                <<"Suspended", "Active">>, <<"Suspended", "Terminating">>,
                <<"Terminating", "Completed">>, <<"Terminating", "Failed">>}

-----------------------------------------------------------------------------
(* Steps that several statements share.                                    *)

Goto(w, label) == pc' = [pc EXCEPT ![w] = label]

\* The handler replies, with a result or an error.
Finish(w) ==
  /\ pc' = [pc EXCEPT ![w] = "idle"]
  /\ ctx' = [ctx EXCEPT ![w] = NoCtx]

\* A request of user u arrives; c holds its arguments, label its first statement.
Begin(w, u, label, c) ==
  /\ pc[w] = "idle"
  /\ requests < MaxRequests
  /\ Serialise => \A v \in Workers : ctx[v].user # u
  /\ requests' = requests + 1
  /\ pc' = [pc EXCEPT ![w] = label]
  /\ ctx' = [ctx EXCEPT ![w] = c]
  /\ UNCHANGED <<db, history>>

\* get_or_create_account: the row, inserted first when there is none.
GetOrCreateAccount(w) ==
  LET u == ctx[w].user
      row == IF accounts[u] = NoAccount THEN NewAccount ELSE accounts[u]
  IN /\ accounts' = [accounts EXCEPT ![u] = row]
     /\ ctx' = [ctx EXCEPT ![w].acct = row]

\* update_account: overwrites the whole row with the handler's copy.
UpdateAccount(w, row) == accounts' = [accounts EXCEPT ![ctx[w].user] = row]

-----------------------------------------------------------------------------
(* ApplyCredits.                                                           *)

ApplyCredits(w, u, x) ==
  Begin(w, u, "apply_get", [NoCtx EXCEPT !.user = u, !.amount = x])

ApplyGet(w) ==
  /\ pc[w] = "apply_get"
  /\ GetOrCreateAccount(w)
  /\ Goto(w, "apply_put")
  /\ UNCHANGED <<reservations, rentals, events, requests, history>>

\* The CHECK (balance >= 0) of the table refuses a debit beyond the balance.
ApplyPut(w) ==
  LET row == WithCredits(ctx[w].acct, ctx[w].amount)
  IN /\ pc[w] = "apply_put"
     /\ IF row.balance >= 0
        THEN /\ UpdateAccount(w, row)
             /\ applied' = [applied EXCEPT ![ctx[w].user] = @ + ctx[w].amount]
        ELSE UNCHANGED <<accounts, applied>>
     /\ Finish(w)
     /\ UNCHANGED <<reservations, rentals, events, requests, settled, failed>>

-----------------------------------------------------------------------------
(* ReserveCredits, and the reservation TrackRental makes.                  *)

ReserveCredits(w, u, x, r) ==
  Begin(w, u, "reserve_get", [NoCtx EXCEPT !.user = u, !.amount = x, !.rental = r])

ReserveGet(w) ==
  /\ pc[w] = "reserve_get"
  /\ GetOrCreateAccount(w)
  /\ Goto(w, "reserve_insert")
  /\ UNCHANGED <<reservations, rentals, events, requests, history>>

\* can_reserve on the row just read, then the INSERT; InsufficientBalance replies.
ReserveInsert(w) ==
  LET c == ctx[w]
  IN /\ pc[w] = "reserve_insert"
     /\ IF AvailableBalance(c.acct) >= c.amount
        THEN \E id \in ReservationIds :
               /\ ~Exists(reservations[id])
               /\ \A j \in 1 .. id - 1 : Exists(reservations[j])
               /\ reservations' = [reservations EXCEPT ![id] =
                    [user |-> c.user, rental |-> c.rental, amount |-> c.amount,
                     released |-> FALSE, expired |-> FALSE]]
               /\ Goto(w, "reserve_put")
               /\ UNCHANGED ctx
        ELSE Finish(w) /\ UNCHANGED reservations
     /\ UNCHANGED <<accounts, rentals, events, requests, history>>

\* The CHECK (reserved_balance >= 0) refuses a negative reservation beyond what is
\* reserved, and the handler replies with the error; the inserted row stays.
ReservePut(w) ==
  LET row == WithReserved(ctx[w].acct, ctx[w].amount)
  IN /\ pc[w] = "reserve_put"
     /\ IF row.reserved >= 0
        THEN /\ UpdateAccount(w, row)
             /\ IF ctx[w].after = "idle" THEN Finish(w) ELSE Goto(w, ctx[w].after) /\ UNCHANGED ctx
        ELSE Finish(w) /\ UNCHANGED accounts
     /\ UNCHANGED <<reservations, rentals, events, requests, history>>

-----------------------------------------------------------------------------
(* ReleaseReservation: charge_from_reservation with the final amount.      *)

ReleaseReservation(w, id, x) ==
  /\ Exists(reservations[id])
  /\ Begin(w, reservations[id].user, "settle_read",
           [NoCtx EXCEPT !.user = reservations[id].user, !.amount = x, !.res = id])

\* ReservationAlreadyReleased replies.
SettleRead(w) ==
  /\ pc[w] = "settle_read"
  /\ IF reservations[ctx[w].res].released
     THEN Finish(w)
     ELSE Goto(w, "settle_mark") /\ UNCHANGED ctx
  /\ UNCHANGED <<db, requests, history>>

SettleMark(w) ==
  /\ pc[w] = "settle_mark"
  /\ reservations' = [reservations EXCEPT ![ctx[w].res].released = TRUE]
  /\ Goto(w, "settle_get")
  /\ UNCHANGED <<accounts, rentals, events, ctx, requests, history>>

\* InsufficientBalance replies, after the reservation was marked released.
SettleGet(w) ==
  LET u == ctx[w].user
  IN /\ pc[w] = "settle_get"
     /\ IF accounts[u] # NoAccount /\ CanCharge(accounts[u], ctx[w].amount)
        THEN /\ ctx' = [ctx EXCEPT ![w].acct = accounts[u]]
             /\ Goto(w, "settle_put")
        ELSE Finish(w)
     /\ UNCHANGED <<db, requests, history>>

SettlePut(w) ==
  LET c == ctx[w]
  IN /\ pc[w] = "settle_put"
     /\ UpdateAccount(w, Charged(WithReleased(c.acct, reservations[c.res].amount), c.amount))
     /\ settled' = [settled EXCEPT ![c.res] = @ + 1]
     /\ IF c.after = "idle" THEN Finish(w) ELSE Goto(w, c.after) /\ UNCHANGED ctx
     /\ UNCHANGED <<reservations, rentals, events, requests, applied, failed>>

-----------------------------------------------------------------------------
(* GetBalance: creates the account it reports on.                          *)

GetBalance(w, u) == Begin(w, u, "balance_get", [NoCtx EXCEPT !.user = u])

BalanceGet(w) ==
  /\ pc[w] = "balance_get"
  /\ accounts' = [accounts EXCEPT ![ctx[w].user] = IF @ = NoAccount THEN NewAccount ELSE @]
  /\ Finish(w)
  /\ UNCHANGED <<reservations, rentals, events, requests, history>>

-----------------------------------------------------------------------------
(* TrackRental: the rental is created first, then its cost is reserved.    *)

\* hasDuration: the request carries max_duration.
TrackRental(w, u, x, hasDuration) ==
  Begin(w, u, "track_create",
        [NoCtx EXCEPT !.user = u, !.amount = x,
                      !.after = IF hasDuration THEN "track_event" ELSE "idle"])

\* create_rental under a fresh id (the request's own id is not used); a request
\* without max_duration is refused only after that.
TrackCreate(w) ==
  \E r \in RentalIds :
    /\ pc[w] = "track_create"
    /\ ~Exists(rentals[r])
    /\ \A j \in 1 .. r - 1 : Exists(rentals[j])
    /\ rentals' = [rentals EXCEPT ![r] = [user |-> ctx[w].user, state |-> "Pending"]]
    /\ IF ctx[w].after = "idle"
       THEN Finish(w)
       ELSE /\ ctx' = [ctx EXCEPT ![w].rental = r]
            /\ Goto(w, "reserve_get")
    /\ UNCHANGED <<accounts, reservations, events, requests, history>>

TrackEvent(w) ==
  /\ pc[w] = "track_event"
  /\ events' = events \cup {<<ctx[w].rental, "RentalStart">>}
  /\ Finish(w)
  /\ UNCHANGED <<accounts, reservations, rentals, requests, history>>

-----------------------------------------------------------------------------
(* Steps on a rental row: read its state, write a state from a copy.       *)

ReadRental(w, s, next) ==
  /\ ctx' = [ctx EXCEPT ![w].state = s]
  /\ Goto(w, next)
  /\ UNCHANGED <<db, requests, history>>

WriteRental(w) ==
  /\ rentals' = [rentals EXCEPT ![ctx[w].rental].state = ctx[w].state]
  /\ UNCHANGED <<accounts, reservations, events, requests, history>>

-----------------------------------------------------------------------------
(* UpdateRentalStatus: update_status, then the rental is read and written  *)
(* back once more.                                                         *)

\* rental_status_to_domain never yields Suspended.
RequestedStates == RentalStates \ {"Suspended"}

UpdateRentalStatus(w, r, s) ==
  /\ Exists(rentals[r])
  /\ Begin(w, rentals[r].user, "status_get",
           [NoCtx EXCEPT !.user = rentals[r].user, !.rental = r, !.state = s])

\* InvalidStateTransition replies; otherwise the state to write stays the requested one.
StatusGet(w) ==
  /\ pc[w] = "status_get"
  /\ IF CanTransition(rentals[ctx[w].rental].state, ctx[w].state)
     THEN Goto(w, "status_put") /\ UNCHANGED ctx
     ELSE Finish(w)
  /\ UNCHANGED <<db, requests, history>>

StatusPut(w) ==
  /\ pc[w] = "status_put"
  /\ WriteRental(w)
  /\ Goto(w, "status_reread")
  /\ UNCHANGED ctx

StatusReread(w) ==
  /\ pc[w] = "status_reread"
  /\ ReadRental(w, rentals[ctx[w].rental].state, "status_rewrite")

StatusRewrite(w) ==
  /\ pc[w] = "status_rewrite"
  /\ WriteRental(w)
  /\ Goto(w, "status_event")
  /\ UNCHANGED ctx

StatusEvent(w) ==
  /\ pc[w] = "status_event"
  /\ events' = events \cup {<<ctx[w].rental, "StatusChange">>}
  /\ Finish(w)
  /\ UNCHANGED <<accounts, reservations, rentals, requests, history>>

-----------------------------------------------------------------------------
(* FinalizeRental.                                                         *)

FinalizeRental(w, r, x) ==
  /\ Exists(rentals[r])
  /\ Begin(w, rentals[r].user, "final_get",
           [NoCtx EXCEPT !.user = rentals[r].user, !.rental = r, !.amount = x,
                         !.after = "final_reread"])

Finalizable_Mutant(s) == s # "Pending"

\* An Active rental goes through Terminating; a Completed one is finalized again.
Finalizable(s) == s \in {"Active", "Terminating", "Completed"}

FinalGet(w) ==
  /\ pc[w] = "final_get"
  /\ IF Finalizable(rentals[ctx[w].rental].state)
     THEN ReadRental(w, "Completed", "final_put")
     ELSE Finish(w) /\ UNCHANGED <<db, requests, history>>

FinalPut(w) ==
  /\ pc[w] = "final_put"
  /\ WriteRental(w)
  /\ Goto(w, "final_find")
  /\ UNCHANGED ctx

\* get_active_reservations: active and not expired, the newest first.
ActiveFor(u, r) ==
  {id \in ReservationIds : /\ Exists(reservations[id])
                           /\ reservations[id].user = u
                           /\ reservations[id].rental = r
                           /\ ~reservations[id].released
                           /\ ~reservations[id].expired}

FinalFind(w) ==
  LET found == ActiveFor(ctx[w].user, ctx[w].rental)
  IN /\ pc[w] = "final_find"
     /\ \/ /\ found = {}
           /\ Goto(w, "charge_get")
           /\ UNCHANGED ctx
        \/ \E id \in found :
             /\ \A j \in found : j <= id
             /\ ctx' = [ctx EXCEPT ![w].res = id]
             /\ Goto(w, "settle_read")
     /\ UNCHANGED <<db, requests, history>>

\* charge_credits: UserNotFound and InsufficientBalance reply.
ChargeGet(w) ==
  LET u == ctx[w].user
  IN /\ pc[w] = "charge_get"
     /\ IF accounts[u] # NoAccount /\ CanCharge(accounts[u], ctx[w].amount)
        THEN /\ ctx' = [ctx EXCEPT ![w].acct = accounts[u]]
             /\ Goto(w, "charge_put")
        ELSE Finish(w)
     /\ UNCHANGED <<db, requests, history>>

ChargePut(w) ==
  /\ pc[w] = "charge_put"
  /\ UpdateAccount(w, Charged(ctx[w].acct, ctx[w].amount))
  /\ Goto(w, "final_reread")
  /\ UNCHANGED <<reservations, rentals, events, ctx, requests, history>>

FinalReread(w) ==
  /\ pc[w] = "final_reread"
  /\ ReadRental(w, rentals[ctx[w].rental].state, "final_rewrite")

FinalRewrite(w) ==
  /\ pc[w] = "final_rewrite"
  /\ WriteRental(w)
  /\ Finish(w)

-----------------------------------------------------------------------------
(* Time and failures.                                                      *)

\* expires_at passes.
Expire(id) ==
  /\ Exists(reservations[id])
  /\ ~reservations[id].expired
  /\ reservations' = [reservations EXCEPT ![id].expired = TRUE]
  /\ UNCHANGED <<accounts, rentals, events, pc, ctx, requests, history>>

\* A handler ends between two statements: a statement failed, the request timed
\* out and its future was dropped, or the process restarted.
Fail(w) ==
  /\ AllowFailures
  /\ pc[w] # "idle"
  /\ failed' = failed \cup {ctx[w].user}
  /\ Finish(w)
  /\ UNCHANGED <<db, requests, applied, settled>>

Request(w) ==
  \/ \E u \in Users :
       \/ \E x \in ApplyAmounts : ApplyCredits(w, u, x)
       \/ \E x \in Costs, r \in RentalIds \cup {NoId} : ReserveCredits(w, u, x, r)
       \/ \E x \in Costs, d \in HasDuration : TrackRental(w, u, x, d)
       \/ GetBalance(w, u)
  \/ \E id \in ReservationIds, x \in Costs : ReleaseReservation(w, id, x)
  \/ \E r \in RentalIds :
       \/ \E s \in RequestedStates : UpdateRentalStatus(w, r, s)
       \/ \E x \in Costs : FinalizeRental(w, r, x)

Statement(w) ==
  \/ ApplyGet(w) \/ ApplyPut(w) \/ BalanceGet(w)
  \/ ReserveGet(w) \/ ReserveInsert(w) \/ ReservePut(w)
  \/ SettleRead(w) \/ SettleMark(w) \/ SettleGet(w) \/ SettlePut(w)
  \/ TrackCreate(w) \/ TrackEvent(w)
  \/ StatusGet(w) \/ StatusPut(w) \/ StatusReread(w) \/ StatusRewrite(w) \/ StatusEvent(w)
  \/ FinalGet(w) \/ FinalPut(w) \/ FinalFind(w) \/ ChargeGet(w) \/ ChargePut(w)
  \/ FinalReread(w) \/ FinalRewrite(w)

Next ==
  \/ \E w \in Workers : Request(w) \/ Statement(w) \/ Fail(w)
  \/ \E id \in ReservationIds : Expire(id)

Spec == Init /\ [][Next]_vars

-----------------------------------------------------------------------------
(* Properties.                                                             *)

Ctx ==
  [user: Users \cup {NoId}, amount: Int, rental: RentalIds \cup {NoId},
   res: ReservationIds \cup {NoId}, acct: Account, state: RentalStates,
   after: {"idle", "track_event", "final_reread"}]

\* Every row keeps its columns' types; in particular no account's balance and no
\* reserved balance is negative (CreditBalance::subtract, the CHECKs), also after
\* negative costs.  Lifetime spending may be: a negative charge lowers it.
TypeOK ==
  /\ accounts \in [Users -> Account \cup {NoAccount}]
  /\ reservations \in [ReservationIds -> Reservation \cup {NoRow}]
  /\ rentals \in [RentalIds -> Rental \cup {NoRow}]
  /\ events \subseteq (RentalIds \X {"RentalStart", "StatusChange"})
  /\ pc \in [Workers -> Labels]
  /\ ctx \in [Workers -> Ctx]
  /\ requests \in 0 .. MaxRequests
  /\ applied \in [Users -> Int]
  /\ settled \in [ReservationIds -> Nat]
  /\ failed \subseteq Users \cup {NoId}

Total(a) == a.balance + a.spent

\* However handlers interleave and wherever they fail, an account never holds or
\* has spent more than ApplyCredits put into it: update_account's blind overwrite
\* can lose a deposit or a charge, never make credit.  For deposits only.
NoCreditFromNothing ==
  \A u \in Users : accounts[u] # NoAccount => Total(accounts[u]) <= applied[u]

\* When the callers never overlap requests of a user, no credit is lost either:
\* balance plus lifetime_spent is what ApplyCredits wrote, whichever handler failed
\* at whichever await.
Conserved ==
  \A u \in Users : accounts[u] # NoAccount => Total(accounts[u]) = applied[u]

StateOf(row) == IF Exists(row) THEN row.state ELSE "none"

\* No interleaving takes a rental back to Pending once it has left it, not even the
\* second, unconditional write of UpdateRentalStatus and FinalizeRental.
NeverPendingAgain ==
  [][\A r \in RentalIds : StateOf(rentals[r]) \notin {"none", "Pending"}
                          => StateOf(rentals'[r]) \notin {"none", "Pending"}]_vars

\* Without overlapping requests a rental that is Completed or Failed stays so.
TerminalIsFinal ==
  [][\A r \in RentalIds : StateOf(rentals[r]) \in {"Completed", "Failed"}
                          => rentals'[r] = rentals[r]]_vars

=============================================================================
