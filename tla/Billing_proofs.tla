--------------------------- MODULE Billing_proofs ---------------------------
(***************************************************************************)
(* The credit ledger, proved for any number of concurrent handlers, users, *)
(* amounts, rentals and reservations, with failures at every await.  The   *)
(* second half takes callers that do not overlap two requests of one user: *)
(* then credit is conserved and the statements implement Ledger.           *)
(***************************************************************************)
EXTENDS BillingLedger, SumTheorems, TLAPS

SettleLabels == {"settle_read", "settle_mark", "settle_get", "settle_put"}
ReserveLabels == {"reserve_get", "reserve_insert", "reserve_put"}
StatusLabels == {"status_get", "status_put", "status_reread", "status_rewrite", "status_event"}
FinalLabels == {"final_get", "final_put", "final_find", "charge_get", "charge_put",
                "final_reread", "final_rewrite"}

\* The rental exists and has left Pending.
Moved(r) == r \in RentalIds /\ Exists(rentals[r]) /\ rentals[r].state # "Pending"

\* What the local variables of a handler satisfy at the statement it is about to run.
CtxOK(w) ==
  LET p == pc[w]
      c == ctx[w]
  IN /\ p # "idle" => c.user \in Users
     /\ p \notin {"apply_get", "apply_put"} => c.amount \in Int
     /\ p \in {"apply_get", "apply_put"} => c.amount \in ApplyAmounts
     /\ p \in SettleLabels =>
          /\ c.res \in ReservationIds
          /\ Exists(reservations[c.res])
          /\ c.after \in {"idle", "final_reread"}
          /\ c.after = "final_reread" => Moved(c.rental)
     /\ p \in ReserveLabels =>
          /\ c.after \in {"idle", "track_event"}
          /\ c.after = "track_event" => c.rental \in RentalIds
     /\ p = "track_create" => c.after \in {"idle", "track_event"}
     /\ p = "track_event" => c.rental \in RentalIds
     /\ p \in StatusLabels \cup FinalLabels => c.rental \in RentalIds /\ Exists(rentals[c.rental])
     /\ p \in FinalLabels => c.after = "final_reread"
     /\ p \in {"status_reread", "final_find", "charge_get", "charge_put", "final_reread"} =>
          Moved(c.rental)
     /\ p \in {"status_put", "status_rewrite", "final_put", "final_rewrite"} => c.state # "Pending"
     /\ p \in {"settle_put", "charge_put"} => CanCharge(c.acct, c.amount)

\* TypeOK alone is not inductive: what a handler writes comes from its local
\* variables, so the invariant says what those are at every statement.
IInv == TypeOK /\ \A w \in Workers : CtxOK(w)

\* No step undoes a row or takes a rental back to Pending.
Grows ==
  /\ \A id \in ReservationIds : Exists(reservations[id]) => Exists(reservations'[id])
  /\ \A r \in RentalIds : Exists(rentals[r]) => Exists(rentals'[r])
  /\ \A r \in RentalIds : Moved(r) => Moved(r)'

\* The handlers that do not take the step keep their invariant when rows only grow.
LEMMA Frame ==
  ASSUME IInv, TypeOK', Grows, NEW w \in Workers, CtxOK(w)',
         \A v \in Workers \ {w} : pc'[v] = pc[v] /\ ctx'[v] = ctx[v]
  PROVE  IInv'
<1> SUFFICES ASSUME NEW v \in Workers, v # w PROVE CtxOK(v)'
  BY DEF IInv
<1>1. CtxOK(v) /\ pc'[v] = pc[v] /\ ctx'[v] = ctx[v]
  BY DEF IInv
<1> QED BY <1>1 DEF CtxOK, Grows, Moved, Exists

\* Initially no handler runs and there is no row.
LEMMA InitInv == Init => IInv
  BY BillingAssumption DEF Init, IInv, TypeOK, CtxOK, Ctx, NoCtx, NewAccount, Account, Labels,
     SettleLabels, ReserveLabels, StatusLabels, FinalLabels, RentalStates, ReservationIds,
     RentalIds

\* A handler that replies leaves well-formed local variables behind.
LEMMA FinishType ==
  ASSUME IInv, NEW w \in Workers, Finish(w)
  PROVE  ctx' \in [Workers -> Ctx] /\ pc' \in [Workers -> Labels]
  BY DEF IInv, TypeOK, Finish, Ctx, NoCtx, NewAccount, Account, Labels, RentalStates

\* The invariant after a handler's last statement: only its writes matter.
LEMMA FinishFrame ==
  ASSUME IInv, TypeOK', Grows, NEW w \in Workers, Finish(w)
  PROVE  IInv'
<1>1. CtxOK(w)'
  BY DEF IInv, TypeOK, Finish, CtxOK, NoCtx, SettleLabels, ReserveLabels, StatusLabels, FinalLabels
<1> QED BY <1>1, Frame DEF Finish, IInv, TypeOK

\* The invariant after a step that moves a handler on and leaves its variables alone.
LEMMA GotoFrame ==
  ASSUME IInv, TypeOK', Grows, NEW w \in Workers, NEW l \in Labels, Goto(w, l),
         UNCHANGED ctx, CtxOK(w)'
  PROVE  IInv'
  BY Frame DEF Goto, IInv, TypeOK

\* A step whose handler ends there, with no row changed.
LEMMA EndStep ==
  ASSUME IInv, NEW w \in Workers, Finish(w), UNCHANGED <<db, requests, history>>
  PROVE  IInv'
<1>1. TypeOK'
  BY FinishType DEF IInv, TypeOK, db, history
<1>2. Grows
  BY DEF Grows, db, Moved, Exists
<1> QED BY <1>1, <1>2, FinishFrame

\* A step that only reads.
LEMMA ReadOnlyGrows ==
  ASSUME UNCHANGED db
  PROVE  Grows
  BY DEF Grows, db, Moved, Exists

\* A handler keeps a copy of an account row.
LEMMA SetAcct ==
  ASSUME ctx \in [Workers -> Ctx], NEW w \in Workers, NEW x \in Account,
         ctx' = [ctx EXCEPT ![w].acct = x]
  PROVE  /\ ctx' \in [Workers -> Ctx]
         /\ ctx'[w].acct = x
         /\ ctx'[w].user = ctx[w].user
         /\ ctx'[w].amount = ctx[w].amount
         /\ ctx'[w].rental = ctx[w].rental
         /\ ctx'[w].res = ctx[w].res
         /\ ctx'[w].state = ctx[w].state
         /\ ctx'[w].after = ctx[w].after
         /\ \A v \in Workers \ {w} : ctx'[v] = ctx[v]
  BY DEF Ctx

\* A handler keeps the id of the rental it created.
LEMMA SetRental ==
  ASSUME ctx \in [Workers -> Ctx], NEW w \in Workers, NEW x \in RentalIds,
         ctx' = [ctx EXCEPT ![w].rental = x]
  PROVE  /\ ctx' \in [Workers -> Ctx]
         /\ ctx'[w].rental = x
         /\ ctx'[w].user = ctx[w].user
         /\ ctx'[w].amount = ctx[w].amount
         /\ ctx'[w].res = ctx[w].res
         /\ ctx'[w].acct = ctx[w].acct
         /\ ctx'[w].state = ctx[w].state
         /\ ctx'[w].after = ctx[w].after
         /\ \A v \in Workers \ {w} : ctx'[v] = ctx[v]
  BY DEF Ctx

\* A handler keeps the id of the reservation it found.
LEMMA SetRes ==
  ASSUME ctx \in [Workers -> Ctx], NEW w \in Workers, NEW x \in ReservationIds,
         ctx' = [ctx EXCEPT ![w].res = x]
  PROVE  /\ ctx' \in [Workers -> Ctx]
         /\ ctx'[w].res = x
         /\ ctx'[w].user = ctx[w].user
         /\ ctx'[w].amount = ctx[w].amount
         /\ ctx'[w].rental = ctx[w].rental
         /\ ctx'[w].acct = ctx[w].acct
         /\ ctx'[w].state = ctx[w].state
         /\ ctx'[w].after = ctx[w].after
         /\ \A v \in Workers \ {w} : ctx'[v] = ctx[v]
  BY DEF Ctx

\* A handler keeps a copy of a rental state.
LEMMA SetState ==
  ASSUME ctx \in [Workers -> Ctx], NEW w \in Workers, NEW x \in RentalStates,
         ctx' = [ctx EXCEPT ![w].state = x]
  PROVE  /\ ctx' \in [Workers -> Ctx]
         /\ ctx'[w].state = x
         /\ ctx'[w].user = ctx[w].user
         /\ ctx'[w].amount = ctx[w].amount
         /\ ctx'[w].rental = ctx[w].rental
         /\ ctx'[w].res = ctx[w].res
         /\ ctx'[w].acct = ctx[w].acct
         /\ ctx'[w].after = ctx[w].after
         /\ \A v \in Workers \ {w} : ctx'[v] = ctx[v]
  BY DEF Ctx

\* CreditAccount::release_reservation keeps the row's type and its total.
LEMMA ReleasedAccount ==
  ASSUME NEW a \in Account, NEW x \in Int
  PROVE  /\ WithReleased(a, x) \in Account
         /\ WithReleased(a, x).balance = a.balance
         /\ WithReleased(a, x).spent = a.spent
<1> DEFINE y == IF a.reserved >= x THEN a.reserved - x ELSE 0
<1>1. y \in Nat
  BY DEF Account
<1>2. WithReleased(a, x) = [a EXCEPT !.reserved = y]
  BY DEF WithReleased
<1> HIDE DEF y
<1> QED BY <1>1, <1>2 DEF Account

\* CreditAccount::charge moves an amount from the balance to lifetime_spent.
LEMMA ChargedAccount ==
  ASSUME NEW a \in Account, NEW x \in Int, CanCharge(a, x)
  PROVE  Charged(a, x) \in Account /\ Total(Charged(a, x)) = Total(a)
<1> DEFINE b == a.balance - x
           t == a.spent + x
<1>1. b \in Nat /\ t \in Int /\ b + t = a.balance + a.spent
  BY DEF CanCharge, Account
<1>2. Charged(a, x) = [a EXCEPT !.balance = b, !.spent = t]
  BY DEF Charged
<1> HIDE DEF b, t
<1>3. Charged(a, x) \in Account /\ Charged(a, x).balance = b /\ Charged(a, x).spent = t
  BY <1>1, <1>2 DEF Account
<1> QED BY <1>1, <1>3 DEF Total

\* ApplyCredits.
LEMMA ApplySteps ==
  ASSUME IInv, NEW w \in Workers, ApplyGet(w) \/ ApplyPut(w) \/ BalanceGet(w)
  PROVE  IInv'
<1> USE DEF IInv
<1>1. CASE ApplyGet(w)
  <2> DEFINE row == IF accounts[ctx[w].user] = NoAccount THEN NewAccount ELSE accounts[ctx[w].user]
  <2>0. ctx[w].user \in Users
    BY <1>1 DEF CtxOK, ApplyGet
  <2>a. row \in Account
    BY <2>0 DEF TypeOK, NewAccount, Account
  <2>b. ctx' = [ctx EXCEPT ![w].acct = row] /\ accounts' = [accounts EXCEPT ![ctx[w].user] = row]
    BY <1>1 DEF ApplyGet, GetOrCreateAccount
  <2> HIDE DEF row
  <2>1. TypeOK'
    BY <1>1, <2>a, <2>b, SetAcct DEF TypeOK, ApplyGet, Goto, history, Labels
  <2>2. CtxOK(w)'
    BY <1>1, <2>a, <2>b, SetAcct DEF TypeOK, CtxOK, ApplyGet, Goto, 
       SettleLabels, ReserveLabels, StatusLabels, FinalLabels
  <2>3. Grows
    BY <1>1 DEF ApplyGet, Grows, Moved, Exists
  <2> QED BY <1>1, <2>1, <2>2, <2>3, <2>b, Frame DEF ApplyGet, Goto, TypeOK
<1>2. CASE ApplyPut(w)
  <2>0. ctx[w].user \in Users /\ ctx[w].acct \in Account /\ ctx[w].amount \in Int
    BY <1>2 DEF CtxOK, ApplyPut, TypeOK, Ctx
  <2>1. TypeOK'
    <3>1. accounts' \in [Users -> Account \cup {NoAccount}]
      BY <1>2, <2>0 DEF TypeOK, ApplyPut, UpdateAccount, WithCredits, Account
    <3>2. applied' \in [Users -> Int]
      BY <1>2, <2>0 DEF TypeOK, ApplyPut
    <3>3. ctx' \in [Workers -> Ctx] /\ pc' \in [Workers -> Labels]
      BY <1>2, FinishType DEF ApplyPut
    <3> QED BY <1>2, <3>1, <3>2, <3>3 DEF TypeOK, ApplyPut
  <2>3. Grows
    BY <1>2 DEF ApplyPut, Grows, Moved, Exists
  <2> QED BY <1>2, <2>1, <2>3, FinishFrame DEF ApplyPut
<1>3. CASE BalanceGet(w)
  <2>1. TypeOK'
    <3>1. accounts' \in [Users -> Account \cup {NoAccount}]
      BY <1>3 DEF TypeOK, BalanceGet, CtxOK, NewAccount, Account
    <3>2. ctx' \in [Workers -> Ctx] /\ pc' \in [Workers -> Labels]
      BY <1>3, FinishType DEF BalanceGet
    <3> QED BY <1>3, <3>1, <3>2 DEF TypeOK, BalanceGet, history
  <2>3. Grows
    BY <1>3 DEF BalanceGet, Grows, Moved, Exists
  <2> QED BY <1>3, <2>1, <2>3, FinishFrame DEF BalanceGet
<1> QED BY <1>1, <1>2, <1>3

\* ReserveCredits, and the reservation of TrackRental.
LEMMA ReserveSteps ==
  ASSUME IInv, NEW w \in Workers, ReserveGet(w) \/ ReserveInsert(w) \/ ReservePut(w)
  PROVE  IInv'
<1> USE DEF IInv
<1>1. CASE ReserveGet(w)
  <2> DEFINE row == IF accounts[ctx[w].user] = NoAccount THEN NewAccount ELSE accounts[ctx[w].user]
  <2>0. ctx[w].user \in Users
    BY <1>1 DEF CtxOK, ReserveGet
  <2>a. row \in Account
    BY <2>0 DEF TypeOK, NewAccount, Account
  <2>b. ctx' = [ctx EXCEPT ![w].acct = row] /\ accounts' = [accounts EXCEPT ![ctx[w].user] = row]
    BY <1>1 DEF ReserveGet, GetOrCreateAccount
  <2> HIDE DEF row
  <2>1. TypeOK'
    BY <1>1, <2>a, <2>b, SetAcct DEF TypeOK, ReserveGet, Goto, history, Labels
  <2>2. CtxOK(w)'
    BY <1>1, <2>a, <2>b, SetAcct DEF TypeOK, CtxOK, ReserveGet, Goto, SettleLabels, ReserveLabels, StatusLabels, FinalLabels
  <2>3. Grows
    BY <1>1 DEF ReserveGet, Grows, Moved, Exists
  <2> QED BY <1>1, <2>1, <2>2, <2>3, <2>b, Frame DEF ReserveGet, Goto, TypeOK
<1>2. CASE ReserveInsert(w)
  <2>0. ctx[w].user \in Users /\ ctx[w].amount \in Int /\ ctx[w].rental \in RentalIds \cup {NoId}
    BY <1>2 DEF CtxOK, ReserveInsert, TypeOK, Ctx
  <2>1. CASE AvailableBalance(ctx[w].acct) >= ctx[w].amount
    <3>1. PICK id \in ReservationIds :
            /\ ~Exists(reservations[id])
            /\ reservations' = [reservations EXCEPT ![id] =
                 [user |-> ctx[w].user, rental |-> ctx[w].rental, amount |-> ctx[w].amount,
                  released |-> FALSE, expired |-> FALSE]]
            /\ Goto(w, "reserve_put")
            /\ UNCHANGED ctx
      BY <1>2, <2>1 DEF ReserveInsert
    <3>2. TypeOK'
      BY <1>2, <2>0, <3>1 DEF TypeOK, ReserveInsert, Goto, history, Labels, Reservation
    <3>3. CtxOK(w)'
      BY <1>2, <3>1 DEF TypeOK, CtxOK, ReserveInsert, Goto, SettleLabels, ReserveLabels, StatusLabels, FinalLabels
    <3>4. Grows
      BY <1>2, <2>0, <3>1, BillingAssumption DEF ReserveInsert, Grows, Moved, Exists, TypeOK
    <3> QED BY <1>2, <3>1, <3>2, <3>3, <3>4, GotoFrame DEF Labels
  <2>2. CASE ~(AvailableBalance(ctx[w].acct) >= ctx[w].amount)
    BY <1>2, <2>2, EndStep DEF ReserveInsert, db
  <2> QED BY <2>1, <2>2
<1>3. CASE ReservePut(w)
  <2>0. ctx[w].user \in Users /\ ctx[w].acct \in Account /\ ctx[w].amount \in Int
    BY <1>3 DEF CtxOK, ReservePut, TypeOK, Ctx
  <2>a. PICK row : row = WithReserved(ctx[w].acct, ctx[w].amount)
    OBVIOUS
  <2>b. row.reserved >= 0 => row \in Account
    BY <2>0, <2>a DEF WithReserved, Account
  <2>c. IF row.reserved >= 0
        THEN /\ accounts' = [accounts EXCEPT ![ctx[w].user] = row]
             /\ IF ctx[w].after = "idle" THEN Finish(w) ELSE Goto(w, ctx[w].after) /\ UNCHANGED ctx
        ELSE Finish(w) /\ UNCHANGED accounts
    BY <1>3, <2>a DEF ReservePut, UpdateAccount
  <2>1. accounts' \in [Users -> Account \cup {NoAccount}]
    BY <2>0, <2>b, <2>c DEF TypeOK
  <2>2. Grows
    BY <1>3 DEF ReservePut, Grows, Moved, Exists
  <2>3. CASE ctx[w].after = "idle" \/ ~(row.reserved >= 0)
    <3>1. Finish(w)
      BY <2>c, <2>3
    <3>2. TypeOK'
      BY <1>3, <2>1, <3>1, FinishType DEF TypeOK, ReservePut, history
    <3> QED BY <2>2, <3>1, <3>2, FinishFrame
  <2>4. CASE ctx[w].after # "idle" /\ row.reserved >= 0
    <3>1. Goto(w, "track_event") /\ UNCHANGED ctx
      BY <1>3, <2>c, <2>4 DEF ReservePut, CtxOK, ReserveLabels
    <3>2. TypeOK'
      BY <1>3, <2>1, <3>1 DEF TypeOK, ReservePut, history, Goto, Labels
    <3>3. CtxOK(w)'
      BY <1>3, <2>4, <3>1 DEF TypeOK, CtxOK, ReservePut, Goto, SettleLabels, ReserveLabels, StatusLabels, FinalLabels
    <3> QED BY <2>2, <3>1, <3>2, <3>3, GotoFrame DEF Labels
  <2> QED BY <2>3, <2>4
<1> QED BY <1>1, <1>2, <1>3

\* charge_from_reservation.
LEMMA SettleSteps ==
  ASSUME IInv, NEW w \in Workers,
         SettleRead(w) \/ SettleMark(w) \/ SettleGet(w) \/ SettlePut(w)
  PROVE  IInv'
<1> USE DEF IInv
<1>1. CASE SettleRead(w)
  <2>1. CASE reservations[ctx[w].res].released
    BY <1>1, <2>1, EndStep DEF SettleRead
  <2>2. CASE ~reservations[ctx[w].res].released
    <3>1. TypeOK'
      BY <1>1, <2>2 DEF TypeOK, SettleRead, Goto, history, db, Labels
    <3>2. CtxOK(w)'
      BY <1>1, <2>2 DEF TypeOK, CtxOK, SettleRead, Goto, db, Moved, SettleLabels, ReserveLabels, StatusLabels, FinalLabels
    <3> QED BY <1>1, <2>2, <3>1, <3>2, ReadOnlyGrows, GotoFrame DEF SettleRead, Labels
  <2> QED BY <2>1, <2>2
<1>2. CASE SettleMark(w)
  <2>0. ctx[w].res \in ReservationIds /\ Exists(reservations[ctx[w].res])
    BY <1>2 DEF CtxOK, SettleMark, SettleLabels
  <2>a. reservations[ctx[w].res] \in Reservation
    BY <2>0 DEF TypeOK, Exists, NoRow
  <2>b. [reservations[ctx[w].res] EXCEPT !.released = TRUE] \in Reservation
    BY <2>a DEF Reservation
  <2>1. TypeOK'
    BY <1>2, <2>0, <2>b DEF TypeOK, SettleMark, Goto, history, Labels
  <2>c. \A id \in ReservationIds : reservations'[id].user = reservations[id].user
    BY <1>2, <2>0, <2>a DEF TypeOK, SettleMark, Reservation
  <2>3. Grows
    BY <1>2, <2>c DEF SettleMark, Grows, Moved, Exists
  <2>2. CtxOK(w)'
    BY <1>2, <2>c DEF TypeOK, CtxOK, SettleMark, Goto, Moved, Exists, SettleLabels, ReserveLabels, StatusLabels, FinalLabels
  <2> QED BY <1>2, <2>1, <2>2, <2>3, GotoFrame DEF SettleMark, Labels
<1>3. CASE SettleGet(w)
  <2> DEFINE ok == accounts[ctx[w].user] # NoAccount /\ CanCharge(accounts[ctx[w].user], ctx[w].amount)
  <2>1. CASE ~ok
    BY <1>3, <2>1, EndStep DEF SettleGet
  <2>2. CASE ok
    <3>1. accounts[ctx[w].user] \in Account
      BY <1>3, <2>2 DEF CtxOK, SettleGet, TypeOK
    <3>2. ctx' = [ctx EXCEPT ![w].acct = accounts[ctx[w].user]] /\ Goto(w, "settle_put")
      BY <1>3, <2>2 DEF SettleGet
    <3>3. TypeOK'
      BY <1>3, <3>1, <3>2, SetAcct DEF TypeOK, SettleGet, Goto, history, db, Labels
    <3>4. CtxOK(w)'
      BY <1>3, <2>2, <3>1, <3>2, SetAcct DEF TypeOK, CtxOK, SettleGet, Goto, db, Moved, SettleLabels, ReserveLabels, StatusLabels, FinalLabels
    <3>5. Grows
      BY <1>3, ReadOnlyGrows DEF SettleGet
    <3> QED BY <3>1, <3>2, <3>3, <3>4, <3>5, Frame DEF Goto, TypeOK
  <2> QED BY <2>1, <2>2
<1>4. CASE SettlePut(w)
  <2>0. /\ ctx[w].user \in Users
        /\ ctx[w].res \in ReservationIds
        /\ Exists(reservations[ctx[w].res])
        /\ ctx[w].acct \in Account
        /\ ctx[w].amount \in Int
        /\ CanCharge(ctx[w].acct, ctx[w].amount)
        /\ ctx[w].after \in {"idle", "final_reread"}
        /\ ctx[w].after = "final_reread" => Moved(ctx[w].rental)
    BY <1>4 DEF CtxOK, SettlePut, TypeOK, Ctx, SettleLabels
  <2>a. reservations[ctx[w].res].amount \in Int
    BY <2>0 DEF TypeOK, Exists, NoRow, Reservation
  <2>b. Charged(WithReleased(ctx[w].acct, reservations[ctx[w].res].amount), ctx[w].amount) \in Account
    <3> DEFINE a == WithReleased(ctx[w].acct, reservations[ctx[w].res].amount)
    <3>1. a \in Account /\ a.balance = ctx[w].acct.balance
      BY <2>0, <2>a, ReleasedAccount
    <3>2. CanCharge(a, ctx[w].amount)
      BY <2>0, <3>1 DEF CanCharge
    <3> HIDE DEF a
    <3> QED BY <2>0, <3>1, <3>2, ChargedAccount DEF a
  <2>1. accounts' \in [Users -> Account \cup {NoAccount}]
    BY <1>4, <2>0, <2>b DEF TypeOK, SettlePut, UpdateAccount
  <2>2. settled' \in [ReservationIds -> Nat]
    BY <1>4, <2>0 DEF TypeOK, SettlePut
  <2>3. Grows
    BY <1>4 DEF SettlePut, Grows, Moved, Exists
  <2>4. CASE ctx[w].after = "idle"
    <3>1. Finish(w)
      BY <1>4, <2>4 DEF SettlePut
    <3>2. TypeOK'
      BY <1>4, <2>1, <2>2, <3>1, FinishType DEF TypeOK, SettlePut
    <3> QED BY <2>3, <3>1, <3>2, FinishFrame
  <2>5. CASE ctx[w].after # "idle"
    <3>1. Goto(w, "final_reread") /\ UNCHANGED ctx
      BY <1>4, <2>0, <2>5 DEF SettlePut
    <3>2. TypeOK'
      BY <1>4, <2>1, <2>2, <3>1 DEF TypeOK, SettlePut, Goto, Labels
    <3>3. CtxOK(w)'
      BY <1>4, <2>0, <2>5, <3>1 DEF TypeOK, CtxOK, SettlePut, Goto, Moved, SettleLabels, ReserveLabels, StatusLabels, FinalLabels
    <3> QED BY <2>3, <3>1, <3>2, <3>3, GotoFrame DEF Labels
  <2> QED BY <2>4, <2>5
<1> QED BY <1>1, <1>2, <1>3, <1>4

\* The statements TrackRental adds to a reservation.
LEMMA TrackSteps ==
  ASSUME IInv, NEW w \in Workers, TrackCreate(w) \/ TrackEvent(w)
  PROVE  IInv'
<1> USE DEF IInv
<1>1. CASE TrackCreate(w)
  <2>1. PICK r \in RentalIds :
          /\ ~Exists(rentals[r])
          /\ rentals' = [rentals EXCEPT ![r] = [user |-> ctx[w].user, state |-> "Pending"]]
          /\ IF ctx[w].after = "idle"
             THEN Finish(w)
             ELSE /\ ctx' = [ctx EXCEPT ![w].rental = r]
                  /\ Goto(w, "reserve_get")
    BY <1>1 DEF TrackCreate
  <2>2. ctx[w].user \in Users
    BY <1>1 DEF CtxOK, TrackCreate
  <2>3. rentals' \in [RentalIds -> Rental \cup {NoRow}]
    BY <2>1, <2>2 DEF TypeOK, Rental, RentalStates
  <2>4. Grows
    BY <1>1, <2>1, <2>2, BillingAssumption DEF TrackCreate, TypeOK, Grows, Moved, Exists
  <2>5. CASE ctx[w].after = "idle"
    <3>1. TypeOK'
      BY <1>1, <2>1, <2>3, <2>5, FinishType DEF TypeOK, TrackCreate, history
    <3> QED BY <2>1, <2>4, <2>5, <3>1, FinishFrame
  <2>6. CASE ctx[w].after # "idle"
    <3>1. ctx' = [ctx EXCEPT ![w].rental = r] /\ Goto(w, "reserve_get")
      BY <2>1, <2>6
    <3>2. TypeOK'
      BY <1>1, <2>3, <3>1, SetRental DEF TypeOK, TrackCreate, Goto, history, Labels
    <3>3. CtxOK(w)'
      BY <1>1, <2>6, <3>1, SetRental DEF TypeOK, CtxOK, TrackCreate, Goto, SettleLabels, ReserveLabels, StatusLabels, FinalLabels
    <3> QED BY <2>4, <3>1, <3>2, <3>3, Frame DEF Goto, TypeOK
  <2> QED BY <2>5, <2>6
<1>2. CASE TrackEvent(w)
  <2>1. TypeOK'
    BY <1>2, FinishType DEF TypeOK, TrackEvent, CtxOK, history
  <2>2. Grows
    BY <1>2 DEF TrackEvent, Grows, Moved, Exists
  <2> QED BY <1>2, <2>1, <2>2, FinishFrame DEF TrackEvent
<1> QED BY <1>1, <1>2

\* A write of a rental row from a copy that is not Pending keeps the row and what it grew to.
LEMMA WriteRow ==
  ASSUME IInv, NEW w \in Workers, WriteRental(w), ctx[w].rental \in RentalIds,
         Exists(rentals[ctx[w].rental]), ctx[w].state # "Pending"
  PROVE  /\ rentals' \in [RentalIds -> Rental \cup {NoRow}]
         /\ Grows
         /\ Exists(rentals'[ctx[w].rental]) /\ rentals'[ctx[w].rental].state # "Pending"
<1> DEFINE r == ctx[w].rental
<1>1. rentals[r] \in Rental /\ ctx[w].state \in RentalStates
  BY DEF IInv, TypeOK, Exists, NoRow, Ctx
<1>2. [rentals[r] EXCEPT !.state = ctx[w].state] \in Rental
  BY <1>1 DEF Rental
<1>3. rentals' = [rentals EXCEPT ![r] = [rentals[r] EXCEPT !.state = ctx[w].state]]
  BY DEF WriteRental
<1>4. rentals' \in [RentalIds -> Rental \cup {NoRow}]
  BY <1>2, <1>3 DEF IInv, TypeOK
<1>5. rentals'[r].user = rentals[r].user /\ rentals'[r].state = ctx[w].state
  BY <1>1, <1>3 DEF IInv, TypeOK, Rental
<1>6. \A q \in RentalIds \ {r} : rentals'[q] = rentals[q]
  BY <1>3 DEF IInv, TypeOK
<1>7. Grows
  BY <1>5, <1>6 DEF Grows, Moved, Exists, WriteRental
<1> QED BY <1>4, <1>5, <1>7 DEF Exists

\* UpdateRentalStatus.
LEMMA StatusSteps ==
  ASSUME IInv, NEW w \in Workers,
         StatusGet(w) \/ StatusPut(w) \/ StatusReread(w) \/ StatusRewrite(w) \/ StatusEvent(w)
  PROVE  IInv'
<1> USE DEF IInv
<1>1. CASE StatusGet(w)
  <2>1. CASE CanTransition(rentals[ctx[w].rental].state, ctx[w].state)
    <3>1. Goto(w, "status_put") /\ UNCHANGED ctx /\ UNCHANGED <<db, requests, history>>
      BY <1>1, <2>1 DEF StatusGet
    <3>2. TypeOK'
      BY <3>1 DEF TypeOK, Goto, history, db, Labels
    <3>3. ctx[w].state # "Pending"
      BY <2>1 DEF CanTransition
    <3>4. CtxOK(w)'
      BY <1>1, <3>1, <3>3 DEF TypeOK, CtxOK, StatusGet, Goto, db, SettleLabels, ReserveLabels, StatusLabels, FinalLabels
    <3> QED BY <3>1, <3>2, <3>4, ReadOnlyGrows, GotoFrame DEF Labels
  <2>2. CASE ~CanTransition(rentals[ctx[w].rental].state, ctx[w].state)
    BY <1>1, <2>2, EndStep DEF StatusGet
  <2> QED BY <2>1, <2>2
<1>2. CASE StatusPut(w) \/ StatusRewrite(w)
  <2>1. /\ ctx[w].rental \in RentalIds /\ Exists(rentals[ctx[w].rental])
        /\ ctx[w].state # "Pending" /\ WriteRental(w) /\ UNCHANGED ctx
    BY <1>2 DEF CtxOK, StatusPut, StatusRewrite, StatusLabels
  <2>2. PICK l \in {"status_reread", "status_event"} : Goto(w, l)
    BY <1>2 DEF StatusPut, StatusRewrite
  <2>3. TypeOK'
    BY <2>1, <2>2, WriteRow DEF TypeOK, WriteRental, Goto, history, Labels
  <2>4. CtxOK(w)'
    BY <1>2, <2>1, <2>2, WriteRow DEF TypeOK, CtxOK, StatusPut, StatusRewrite, Goto, Moved, SettleLabels, ReserveLabels, StatusLabels, FinalLabels
  <2> QED BY <2>1, <2>2, <2>3, <2>4, WriteRow, GotoFrame DEF Labels
<1>3. CASE StatusReread(w)
  <2>1. Moved(ctx[w].rental) /\ ctx[w].rental \in RentalIds
    BY <1>3 DEF CtxOK, StatusReread, StatusLabels
  <2>2. rentals[ctx[w].rental].state \in RentalStates
    BY <2>1 DEF TypeOK, Moved, Exists, NoRow, Rental
  <2>3. /\ ctx' = [ctx EXCEPT ![w].state = rentals[ctx[w].rental].state]
        /\ Goto(w, "status_rewrite") /\ UNCHANGED <<db, requests, history>>
    BY <1>3 DEF StatusReread, ReadRental
  <2>4. TypeOK'
    BY <2>2, <2>3, SetState DEF TypeOK, Goto, history, db, Labels
  <2>5. CtxOK(w)'
    BY <1>3, <2>1, <2>2, <2>3, SetState DEF TypeOK, CtxOK, StatusReread, Goto, db, Moved, SettleLabels, ReserveLabels, StatusLabels, FinalLabels
  <2> QED BY <2>2, <2>3, <2>4, <2>5, ReadOnlyGrows, Frame DEF Goto, TypeOK
<1>4. CASE StatusEvent(w)
  <2>1. TypeOK'
    BY <1>4, FinishType DEF TypeOK, StatusEvent, CtxOK, StatusLabels, history
  <2>2. Grows
    BY <1>4 DEF StatusEvent, Grows, Moved, Exists
  <2> QED BY <1>4, <2>1, <2>2, FinishFrame DEF StatusEvent
<1> QED BY <1>1, <1>2, <1>3, <1>4

\* FinalizeRental, but for the charge.
LEMMA FinalSteps ==
  ASSUME IInv, NEW w \in Workers,
         FinalGet(w) \/ FinalPut(w) \/ FinalFind(w) \/ FinalReread(w) \/ FinalRewrite(w)
  PROVE  IInv'
<1> USE DEF IInv
<1>1. CASE FinalGet(w)
  <2>1. CASE Finalizable(rentals[ctx[w].rental].state)
    <3>1. /\ ctx' = [ctx EXCEPT ![w].state = "Completed"]
          /\ Goto(w, "final_put") /\ UNCHANGED <<db, requests, history>>
      BY <1>1, <2>1 DEF FinalGet, ReadRental
    <3>2. "Completed" \in RentalStates
      BY DEF RentalStates
    <3>3. TypeOK'
      BY <3>1, <3>2, SetState DEF TypeOK, Goto, history, db, Labels
    <3>4. CtxOK(w)'
      BY <1>1, <3>1, <3>2, SetState DEF TypeOK, CtxOK, FinalGet, Goto, db, SettleLabels, ReserveLabels, StatusLabels, FinalLabels
    <3> QED BY <3>1, <3>2, <3>3, <3>4, ReadOnlyGrows, Frame DEF Goto, TypeOK
  <2>2. CASE ~Finalizable(rentals[ctx[w].rental].state)
    BY <1>1, <2>2, EndStep DEF FinalGet
  <2> QED BY <2>1, <2>2
<1>2. CASE FinalPut(w)
  <2>1. /\ ctx[w].rental \in RentalIds /\ Exists(rentals[ctx[w].rental])
        /\ ctx[w].state # "Pending" /\ WriteRental(w) /\ UNCHANGED ctx /\ Goto(w, "final_find")
    BY <1>2 DEF CtxOK, FinalPut, FinalLabels
  <2>2. TypeOK'
    BY <2>1, WriteRow DEF TypeOK, WriteRental, Goto, history, Labels
  <2>3. CtxOK(w)'
    BY <1>2, <2>1, WriteRow DEF TypeOK, CtxOK, FinalPut, Goto, Moved, SettleLabels, ReserveLabels, StatusLabels, FinalLabels
  <2> QED BY <2>1, <2>2, <2>3, WriteRow, GotoFrame DEF Labels
<1>3. CASE FinalFind(w)
  <2>0. UNCHANGED <<db, requests, history>>
    BY <1>3 DEF FinalFind
  <2>1. CASE Goto(w, "charge_get") /\ UNCHANGED ctx
    <3>1. TypeOK'
      BY <2>0, <2>1 DEF TypeOK, Goto, history, db, Labels
    <3>2. CtxOK(w)'
      BY <1>3, <2>0, <2>1 DEF TypeOK, CtxOK, FinalFind, Goto, db, Moved, SettleLabels, ReserveLabels, StatusLabels, FinalLabels
    <3> QED BY <2>0, <2>1, <3>1, <3>2, ReadOnlyGrows, GotoFrame DEF Labels
  <2>2. CASE \E id \in ActiveFor(ctx[w].user, ctx[w].rental) :
               ctx' = [ctx EXCEPT ![w].res = id] /\ Goto(w, "settle_read")
    <3>1. PICK id \in ReservationIds :
            /\ Exists(reservations[id])
            /\ ctx' = [ctx EXCEPT ![w].res = id] /\ Goto(w, "settle_read")
      BY <2>2 DEF ActiveFor
    <3>2. TypeOK'
      BY <2>0, <3>1, SetRes DEF TypeOK, Goto, history, db, Labels
    <3>3. CtxOK(w)'
      BY <1>3, <2>0, <3>1, SetRes DEF TypeOK, CtxOK, FinalFind, Goto, db, Moved, SettleLabels, ReserveLabels, StatusLabels, FinalLabels
    <3> QED BY <2>0, <3>1, <3>2, <3>3, ReadOnlyGrows, Frame DEF Goto, TypeOK
  <2> QED BY <1>3, <2>1, <2>2 DEF FinalFind
<1>4. CASE FinalReread(w)
  <2>1. Moved(ctx[w].rental) /\ ctx[w].rental \in RentalIds
    BY <1>4 DEF CtxOK, FinalReread, FinalLabels
  <2>2. rentals[ctx[w].rental].state \in RentalStates
    BY <2>1 DEF TypeOK, Moved, Exists, NoRow, Rental
  <2>3. /\ ctx' = [ctx EXCEPT ![w].state = rentals[ctx[w].rental].state]
        /\ Goto(w, "final_rewrite") /\ UNCHANGED <<db, requests, history>>
    BY <1>4 DEF FinalReread, ReadRental
  <2>4. TypeOK'
    BY <2>2, <2>3, SetState DEF TypeOK, Goto, history, db, Labels
  <2>5. CtxOK(w)'
    BY <1>4, <2>1, <2>2, <2>3, SetState DEF TypeOK, CtxOK, FinalReread, Goto, db, Moved, SettleLabels, ReserveLabels, StatusLabels, FinalLabels
  <2> QED BY <2>2, <2>3, <2>4, <2>5, ReadOnlyGrows, Frame DEF Goto, TypeOK
<1>5. CASE FinalRewrite(w)
  <2>1. /\ ctx[w].rental \in RentalIds /\ Exists(rentals[ctx[w].rental])
        /\ ctx[w].state # "Pending" /\ WriteRental(w) /\ Finish(w)
    BY <1>5 DEF CtxOK, FinalRewrite, FinalLabels
  <2>2. TypeOK'
    BY <2>1, WriteRow, FinishType DEF TypeOK, WriteRental, history
  <2> QED BY <2>1, <2>2, WriteRow, FinishFrame
<1> QED BY <1>1, <1>2, <1>3, <1>4, <1>5

\* charge_credits.
LEMMA ChargeSteps ==
  ASSUME IInv, NEW w \in Workers, ChargeGet(w) \/ ChargePut(w)
  PROVE  IInv'
<1> USE DEF IInv
<1>1. CASE ChargeGet(w)
  <2> DEFINE ok == accounts[ctx[w].user] # NoAccount /\ CanCharge(accounts[ctx[w].user], ctx[w].amount)
  <2>1. CASE ~ok
    BY <1>1, <2>1, EndStep DEF ChargeGet
  <2>2. CASE ok
    <3>1. accounts[ctx[w].user] \in Account
      BY <1>1, <2>2 DEF CtxOK, ChargeGet, TypeOK
    <3>2. ctx' = [ctx EXCEPT ![w].acct = accounts[ctx[w].user]] /\ Goto(w, "charge_put")
      BY <1>1, <2>2 DEF ChargeGet
    <3>3. TypeOK'
      BY <1>1, <3>1, <3>2, SetAcct DEF TypeOK, ChargeGet, Goto, history, db, Labels
    <3>4. CtxOK(w)'
      BY <1>1, <2>2, <3>1, <3>2, SetAcct DEF TypeOK, CtxOK, ChargeGet, Goto, db, Moved, SettleLabels, ReserveLabels, StatusLabels, FinalLabels
    <3>5. Grows
      BY <1>1, ReadOnlyGrows DEF ChargeGet
    <3> QED BY <3>1, <3>2, <3>3, <3>4, <3>5, Frame DEF Goto, TypeOK
  <2> QED BY <2>1, <2>2
<1>2. CASE ChargePut(w)
  <2>1. Charged(ctx[w].acct, ctx[w].amount) \in Account /\ ctx[w].user \in Users
    BY <1>2, ChargedAccount DEF CtxOK, ChargePut, TypeOK, Ctx
  <2>2. TypeOK'
    BY <1>2, <2>1 DEF TypeOK, ChargePut, UpdateAccount, Goto, history, Labels
  <2>3. Grows
    BY <1>2 DEF ChargePut, Grows, Moved, Exists
  <2>4. CtxOK(w)'
    BY <1>2 DEF TypeOK, CtxOK, ChargePut, Goto, Moved, SettleLabels, ReserveLabels, StatusLabels, FinalLabels
  <2> QED BY <1>2, <2>2, <2>3, <2>4, GotoFrame DEF ChargePut, Labels
<1> QED BY <1>1, <1>2

\* A request arrives.
LEMMA BeginStep ==
  ASSUME IInv, NEW w \in Workers, NEW u, NEW l \in Labels, NEW c \in Ctx, Begin(w, u, l, c),
         CtxOK(w)'
  PROVE  IInv'
<1> USE DEF IInv
<1>1. TypeOK'
  BY BillingAssumption DEF TypeOK, Begin, db, history
<1>2. Grows
  BY ReadOnlyGrows DEF Begin
<1> QED BY <1>1, <1>2, Frame DEF Begin, TypeOK

\* Where a request's handler starts.
LEMMA BeginLands ==
  ASSUME IInv, NEW w \in Workers, NEW u, NEW l, NEW c, Begin(w, u, l, c)
  PROVE  pc'[w] = l /\ ctx'[w] = c /\ UNCHANGED db
  BY DEF IInv, TypeOK, Begin

\* The local variables of no handler.
LEMMA NoCtxFields ==
  /\ NoCtx \in Ctx
  /\ NoCtx.user = NoId /\ NoCtx.amount = 0 /\ NoCtx.rental = NoId /\ NoCtx.res = NoId
  /\ NoCtx.state = "Pending" /\ NoCtx.after = "idle"
  BY DEF NoCtx, Ctx, NewAccount, Account, RentalStates

\* Every request starts its handler with local variables that fit its first statement.
LEMMA RequestStep ==
  ASSUME IInv, NEW w \in Workers, Request(w)
  PROVE  IInv'
<1>1. CASE \E u \in Users, x \in ApplyAmounts : ApplyCredits(w, u, x)
  <2>1. PICK u \in Users, x \in ApplyAmounts : ApplyCredits(w, u, x)
    BY <1>1
  <2> DEFINE c == [NoCtx EXCEPT !.user = u, !.amount = x]
  <2>2. /\ c \in Ctx
        /\ c.user = u
        /\ c.amount = x
        /\ c.rental = NoId
        /\ c.res = NoId
        /\ c.state = "Pending"
        /\ c.after = "idle"
    BY <2>1, NoCtxFields, BillingAssumption DEF Ctx, RequestedStates, RentalStates
  <2> HIDE DEF c
  <2>3. Begin(w, u, "apply_get", c) /\ "apply_get" \in Labels
    BY <2>1 DEF ApplyCredits, c, Labels
  <2>4. CtxOK(w)'
    BY <2>1, <2>2, <2>3, BeginLands, BillingAssumption
       DEF CtxOK, db, Exists, SettleLabels, ReserveLabels, StatusLabels, FinalLabels
  <2> QED BY <2>2, <2>3, <2>4, BeginStep
<1>2. CASE \E u \in Users, x \in Costs, r \in RentalIds \cup {NoId} : ReserveCredits(w, u, x, r)
  <2>1. PICK u \in Users, x \in Costs, r \in RentalIds \cup {NoId} : ReserveCredits(w, u, x, r)
    BY <1>2
  <2>x. x \in Int /\ x \in Int
    BY <2>1, BillingAssumption
  <2> DEFINE c == [NoCtx EXCEPT !.user = u, !.amount = x, !.rental = r]
  <2>2. /\ c \in Ctx
        /\ c.user = u
        /\ c.amount = x
        /\ c.rental = r
        /\ c.res = NoId
        /\ c.state = "Pending"
        /\ c.after = "idle"
    BY <2>1, <2>x, NoCtxFields, BillingAssumption DEF Ctx, RequestedStates, RentalStates
  <2> HIDE DEF c
  <2>3. Begin(w, u, "reserve_get", c) /\ "reserve_get" \in Labels
    BY <2>1 DEF ReserveCredits, c, Labels
  <2>4. CtxOK(w)'
    BY <2>1, <2>2, <2>3, BeginLands, BillingAssumption
       DEF CtxOK, db, Exists, SettleLabels, ReserveLabels, StatusLabels, FinalLabels
  <2> QED BY <2>2, <2>3, <2>4, BeginStep
<1>3. CASE \E u \in Users, x \in Costs, d \in HasDuration : TrackRental(w, u, x, d)
  <2>1. PICK u \in Users, x \in Costs, d \in HasDuration : TrackRental(w, u, x, d)
    BY <1>3
  <2>x. x \in Int /\ x \in Int
    BY <2>1, BillingAssumption
  <2>y. (IF d THEN "track_event" ELSE "idle") \in {"idle", "track_event", "final_reread"}
    OBVIOUS
  <2> DEFINE c == [NoCtx EXCEPT !.user = u, !.amount = x, !.after = IF d THEN "track_event" ELSE "idle"]
  <2>2. /\ c \in Ctx
        /\ c.user = u
        /\ c.amount = x
        /\ c.rental = NoId
        /\ c.res = NoId
        /\ c.state = "Pending"
        /\ c.after = IF d THEN "track_event" ELSE "idle"
    BY <2>1, <2>x, <2>y, NoCtxFields, BillingAssumption DEF Ctx, RequestedStates, RentalStates
  <2> HIDE DEF c
  <2>3. Begin(w, u, "track_create", c) /\ "track_create" \in Labels
    BY <2>1 DEF TrackRental, c, Labels
  <2>4. CtxOK(w)'
    BY <2>1, <2>2, <2>3, BeginLands, BillingAssumption
       DEF CtxOK, db, Exists, SettleLabels, ReserveLabels, StatusLabels, FinalLabels
  <2> QED BY <2>2, <2>3, <2>4, BeginStep
<1>4. CASE \E u \in Users : GetBalance(w, u)
  <2>1. PICK u \in Users : GetBalance(w, u)
    BY <1>4
  <2> DEFINE c == [NoCtx EXCEPT !.user = u]
  <2>2. /\ c \in Ctx
        /\ c.user = u
        /\ c.amount = 0
        /\ c.rental = NoId
        /\ c.res = NoId
        /\ c.state = "Pending"
        /\ c.after = "idle"
    BY <2>1, NoCtxFields, BillingAssumption DEF Ctx, RequestedStates, RentalStates
  <2> HIDE DEF c
  <2>3. Begin(w, u, "balance_get", c) /\ "balance_get" \in Labels
    BY <2>1 DEF GetBalance, c, Labels
  <2>4. CtxOK(w)'
    BY <2>1, <2>2, <2>3, BeginLands, BillingAssumption
       DEF CtxOK, db, Exists, SettleLabels, ReserveLabels, StatusLabels, FinalLabels
  <2> QED BY <2>2, <2>3, <2>4, BeginStep
<1>5. CASE \E id \in ReservationIds, x \in Costs : ReleaseReservation(w, id, x)
  <2>1. PICK id \in ReservationIds, x \in Costs : ReleaseReservation(w, id, x)
    BY <1>5
  <2>a. Exists(reservations[id]) /\ reservations[id].user \in Users
    BY <2>1 DEF ReleaseReservation, IInv, TypeOK, Exists, NoRow, Reservation
  <2>x. x \in Int /\ x \in Int
    BY <2>1, BillingAssumption
  <2> DEFINE c == [NoCtx EXCEPT !.user = reservations[id].user, !.amount = x, !.res = id]
  <2>2. /\ c \in Ctx
        /\ c.user = reservations[id].user
        /\ c.amount = x
        /\ c.rental = NoId
        /\ c.res = id
        /\ c.state = "Pending"
        /\ c.after = "idle"
    BY <2>1, <2>a, <2>x, NoCtxFields, BillingAssumption DEF Ctx, RequestedStates, RentalStates
  <2> HIDE DEF c
  <2>3. Begin(w, reservations[id].user, "settle_read", c) /\ "settle_read" \in Labels
    BY <2>1 DEF ReleaseReservation, c, Labels
  <2>4. CtxOK(w)'
    BY <2>1, <2>a, <2>2, <2>3, BeginLands, BillingAssumption
       DEF CtxOK, db, Exists, SettleLabels, ReserveLabels, StatusLabels, FinalLabels
  <2> QED BY <2>2, <2>3, <2>4, BeginStep
<1>6. CASE \E r \in RentalIds, s \in RequestedStates : UpdateRentalStatus(w, r, s)
  <2>1. PICK r \in RentalIds, s \in RequestedStates : UpdateRentalStatus(w, r, s)
    BY <1>6
  <2>a. Exists(rentals[r]) /\ rentals[r].user \in Users
    BY <2>1 DEF UpdateRentalStatus, IInv, TypeOK, Exists, NoRow, Rental
  <2> DEFINE c == [NoCtx EXCEPT !.user = rentals[r].user, !.rental = r, !.state = s]
  <2>2. /\ c \in Ctx
        /\ c.user = rentals[r].user
        /\ c.amount = 0
        /\ c.rental = r
        /\ c.res = NoId
        /\ c.state = s
        /\ c.after = "idle"
    BY <2>1, <2>a, NoCtxFields, BillingAssumption DEF Ctx, RequestedStates, RentalStates
  <2> HIDE DEF c
  <2>3. Begin(w, rentals[r].user, "status_get", c) /\ "status_get" \in Labels
    BY <2>1 DEF UpdateRentalStatus, c, Labels
  <2>4. CtxOK(w)'
    BY <2>1, <2>a, <2>2, <2>3, BeginLands, BillingAssumption
       DEF CtxOK, db, Exists, SettleLabels, ReserveLabels, StatusLabels, FinalLabels
  <2> QED BY <2>2, <2>3, <2>4, BeginStep
<1>7. CASE \E r \in RentalIds, x \in Costs : FinalizeRental(w, r, x)
  <2>1. PICK r \in RentalIds, x \in Costs : FinalizeRental(w, r, x)
    BY <1>7
  <2>a. Exists(rentals[r]) /\ rentals[r].user \in Users
    BY <2>1 DEF FinalizeRental, IInv, TypeOK, Exists, NoRow, Rental
  <2>x. x \in Int /\ x \in Int
    BY <2>1, BillingAssumption
  <2> DEFINE c == [NoCtx EXCEPT !.user = rentals[r].user, !.rental = r, !.amount = x, !.after = "final_reread"]
  <2>2. /\ c \in Ctx
        /\ c.user = rentals[r].user
        /\ c.amount = x
        /\ c.rental = r
        /\ c.res = NoId
        /\ c.state = "Pending"
        /\ c.after = "final_reread"
    BY <2>1, <2>a, <2>x, NoCtxFields, BillingAssumption DEF Ctx, RequestedStates, RentalStates
  <2> HIDE DEF c
  <2>3. Begin(w, rentals[r].user, "final_get", c) /\ "final_get" \in Labels
    BY <2>1 DEF FinalizeRental, c, Labels
  <2>4. CtxOK(w)'
    BY <2>1, <2>a, <2>2, <2>3, BeginLands, BillingAssumption
       DEF CtxOK, db, Exists, SettleLabels, ReserveLabels, StatusLabels, FinalLabels
  <2> QED BY <2>2, <2>3, <2>4, BeginStep
<1> QED BY <1>1, <1>2, <1>3, <1>4, <1>5, <1>6, <1>7 DEF Request

\* A reservation expires.
LEMMA ExpireStep ==
  ASSUME IInv, NEW id \in ReservationIds, Expire(id)
  PROVE  IInv' /\ Grows
<1>1. reservations[id] \in Reservation
  BY DEF IInv, TypeOK, Expire, Exists, NoRow
<1>2. [reservations[id] EXCEPT !.expired = TRUE] \in Reservation
  BY <1>1 DEF Reservation
<1>3. TypeOK'
  BY <1>2 DEF IInv, TypeOK, Expire, history
<1>4. \A i \in ReservationIds : reservations'[i].user = reservations[i].user
  BY <1>1 DEF IInv, TypeOK, Expire, Reservation
<1>5. Grows
  BY <1>4 DEF Expire, Grows, Moved, Exists
<1>6. ASSUME NEW v \in Workers PROVE CtxOK(v)'
  <2>1. CtxOK(v) /\ pc'[v] = pc[v] /\ ctx'[v] = ctx[v]
    BY DEF IInv, Expire
  <2> QED BY <1>5, <2>1 DEF CtxOK, Grows, Moved, Exists
<1> QED BY <1>3, <1>5, <1>6 DEF IInv

\* Every step keeps the invariant.
LEMMA NextInv == IInv /\ [Next]_vars => IInv'
<1> SUFFICES ASSUME IInv, [Next]_vars PROVE IInv'
  OBVIOUS
<1>1. ASSUME NEW w \in Workers, Request(w) PROVE IInv'
  BY <1>1, RequestStep
<1>2. ASSUME NEW w \in Workers, Statement(w) PROVE IInv'
  BY <1>2, ApplySteps, ReserveSteps, SettleSteps, TrackSteps, StatusSteps, FinalSteps, ChargeSteps
     DEF Statement
<1>3. ASSUME NEW w \in Workers, Fail(w) PROVE IInv'
  <2>1. failed' \subseteq Users \cup {NoId}
    BY <1>3 DEF Fail, IInv, TypeOK, Ctx
  <2>2. Finish(w) /\ UNCHANGED <<db, requests, applied, settled>>
    BY <1>3 DEF Fail
  <2>3. TypeOK'
    BY <2>1, <2>2, FinishType DEF IInv, TypeOK, db
  <2> QED BY <2>2, <2>3, FinishFrame, ReadOnlyGrows
<1>4. ASSUME NEW id \in ReservationIds, Expire(id) PROVE IInv'
  BY <1>4, ExpireStep
<1>5. CASE UNCHANGED vars
  BY <1>5 DEF vars, db, history, IInv, TypeOK, CtxOK, Moved, Exists
<1> QED BY <1>1, <1>2, <1>3, <1>4, <1>5 DEF Next

\* The invariant holds throughout.
LEMMA Invariance == Spec => []IInv
  BY InitInv, NextInv, PTL DEF Spec

\* No interleaving and no failure makes a balance or a reserved balance negative, or a
\* row ill-formed, whatever the sign of the costs that requests carry.
THEOREM TypeCorrect == Spec => []TypeOK
<1>1. IInv => TypeOK
  BY DEF IInv
<1> QED BY <1>1, Invariance, PTL

\* A rental that has left Pending has left it after any step.
LEMMA StaysMoved ==
  ASSUME IInv, [Next]_vars, NEW r \in RentalIds, Moved(r)
  PROVE  Moved(r)'
<1>1. ASSUME NEW w \in Workers, TrackCreate(w) PROVE Moved(r)'
  BY <1>1 DEF IInv, TypeOK, TrackCreate, Moved, Exists
<1>2. ASSUME NEW w \in Workers,
             StatusPut(w) \/ StatusRewrite(w) \/ FinalPut(w) \/ FinalRewrite(w)
      PROVE  Moved(r)'
  <2>1. /\ ctx[w].rental \in RentalIds /\ Exists(rentals[ctx[w].rental])
        /\ ctx[w].state # "Pending" /\ WriteRental(w)
    BY <1>2 DEF IInv, CtxOK, StatusPut, StatusRewrite, FinalPut, FinalRewrite, StatusLabels, FinalLabels
  <2> QED BY <2>1, WriteRow DEF Grows
<1>3. CASE UNCHANGED rentals
  BY <1>3 DEF Moved, Exists
<1>4. ASSUME NEW w \in Workers, Request(w) PROVE UNCHANGED rentals
  BY <1>4 DEF Request, ApplyCredits, ReserveCredits, TrackRental, GetBalance, ReleaseReservation,
     UpdateRentalStatus, FinalizeRental, Begin, db
<1>5. ASSUME NEW w \in Workers, Statement(w)
      PROVE  \/ UNCHANGED rentals
             \/ TrackCreate(w) \/ StatusPut(w) \/ StatusRewrite(w) \/ FinalPut(w) \/ FinalRewrite(w)
  BY <1>5 DEF Statement, ApplyGet, ApplyPut, BalanceGet, ReserveGet, ReserveInsert, ReservePut,
     SettleRead, SettleMark, SettleGet, SettlePut, TrackEvent, StatusGet, StatusReread, StatusEvent,
     FinalGet, FinalFind, ChargeGet, ChargePut, FinalReread, ReadRental, db
<1>6. ASSUME NEW w \in Workers, Fail(w) PROVE UNCHANGED rentals
  BY <1>6 DEF Fail, db
<1>7. ASSUME NEW id \in ReservationIds, Expire(id) PROVE UNCHANGED rentals
  BY <1>7 DEF Expire
<1> QED BY <1>1, <1>2, <1>3, <1>4, <1>5, <1>6, <1>7 DEF Next, vars, db

\* Whatever handlers run concurrently on a rental, their stale second writes never
\* take it back to Pending.
THEOREM PendingIsLeftForGood == Spec => NeverPendingAgain
<1> DEFINE Kept == \A r \in RentalIds : StateOf(rentals[r]) \notin {"none", "Pending"}
                                        => StateOf(rentals'[r]) \notin {"none", "Pending"}
<1>1. ASSUME IInv, IInv', [Next]_vars PROVE Kept
  <2> SUFFICES ASSUME NEW r \in RentalIds, StateOf(rentals[r]) \notin {"none", "Pending"}
               PROVE  StateOf(rentals'[r]) \notin {"none", "Pending"}
    OBVIOUS
  <2>1. Moved(r)
    BY DEF StateOf, Moved
  <2>2. Exists(rentals'[r]) /\ rentals'[r].state # "Pending"
    BY <1>1, <2>1, StaysMoved DEF Moved, Exists
  <2>3. rentals'[r] \in Rental
    BY <1>1, <2>2 DEF IInv, TypeOK, Exists, NoRow
  <2>4. rentals'[r].state \in RentalStates
    BY <2>3 DEF Rental
  <2> QED BY <2>2, <2>4 DEF StateOf, RentalStates
<1>2. IInv /\ IInv' /\ [Next]_vars => [Kept]_vars
  BY <1>1
<1> QED BY <1>2, Invariance, PTL DEF Spec, NeverPendingAgain

-----------------------------------------------------------------------------
(* Deposits only: no interleaving makes credit.                            *)

\* The copy every handler works on holds no more than was applied either: this is
\* what a blind overwrite writes back.
CopiesBacked ==
  /\ \A u \in Users : applied[u] \in Nat
  /\ \A w \in Workers : pc[w] # "idle" => Total(ctx[w].acct) <= applied[ctx[w].user]

Money == NoCreditFromNothing /\ CopiesBacked

\* A step that writes no account and copies none.
LEMMA MoneyFrame ==
  ASSUME IInv, IInv', Money, UNCHANGED <<accounts, applied>>, NEW w \in Workers,
         \A v \in Workers \ {w} : pc'[v] = pc[v] /\ ctx'[v] = ctx[v],
         \/ pc'[w] = "idle"
         \/ Total(ctx'[w].acct) <= applied[ctx'[w].user]
  PROVE  Money'
  BY DEF Money, NoCreditFromNothing, CopiesBacked

\* A step that overwrites the account of its handler with row, of no more total than
\* what was applied afterwards.
LEMMA MoneyWrite ==
  ASSUME IInv, IInv', Money, NEW w \in Workers, NEW u \in Users, NEW row \in Account,
         accounts' = [accounts EXCEPT ![u] = row], applied' \in [Users -> Nat],
         \A t \in Users : applied[t] <= applied'[t],
         Total(row) <= applied'[u],
         \A v \in Workers \ {w} : pc'[v] = pc[v] /\ ctx'[v] = ctx[v],
         \/ pc'[w] = "idle"
         \/ Total(ctx'[w].acct) <= applied'[ctx'[w].user]
  PROVE  Money'
<1> USE DEF IInv, TypeOK
<1>1. NoCreditFromNothing'
  <2> SUFFICES ASSUME NEW t \in Users, accounts'[t] # NoAccount
               PROVE  Total(accounts'[t]) <= applied'[t]
    BY DEF NoCreditFromNothing
  <2>1. CASE t = u
    BY <2>1
  <2>2. CASE t # u
    <3>1. accounts'[t] = accounts[t] /\ accounts[t] \in Account
      BY <2>2
    <3>2. Total(accounts[t]) \in Int /\ applied[t] \in Nat
      BY <3>1 DEF Total, Account, Money, CopiesBacked
    <3> QED BY <3>1, <3>2 DEF Money, NoCreditFromNothing
  <2> QED BY <2>1, <2>2
<1>2. ASSUME NEW v \in Workers, v # w, pc'[v] # "idle"
      PROVE  Total(ctx'[v].acct) <= applied'[ctx'[v].user]
  <2>1. ctx'[v] = ctx[v] /\ pc[v] # "idle" /\ ctx[v].user \in Users /\ ctx[v].acct \in Account
    BY <1>2 DEF CtxOK, Ctx
  <2>2. Total(ctx[v].acct) \in Int /\ applied[ctx[v].user] \in Nat
    BY <2>1 DEF Total, Account, Money, CopiesBacked
  <2> QED BY <2>1, <2>2 DEF Money, CopiesBacked
<1> QED BY <1>1, <1>2 DEF Money, CopiesBacked

\* A handler starts with the copy of an empty account.
LEMMA BeginMoney ==
  ASSUME IInv, IInv', Money, NEW w \in Workers, NEW u, NEW l, NEW c, Begin(w, u, l, c),
         c.acct = NoCtx.acct
  PROVE  Money'
<1>1. pc'[w] = l /\ ctx'[w] = c
  BY BeginLands
<1>2. UNCHANGED <<accounts, applied>>
  BY DEF Begin, db, history
<1>3. Total(ctx'[w].acct) = 0
  BY <1>1 DEF NoCtx, NewAccount, Total
<1>4. pc'[w] # "idle" => applied[ctx'[w].user] \in Nat
  BY <1>2 DEF IInv, CtxOK, Money, CopiesBacked
<1>5. pc'[w] = "idle" \/ Total(ctx'[w].acct) <= applied[ctx'[w].user]
  BY <1>3, <1>4
<1>6. \A v \in Workers \ {w} : pc'[v] = pc[v] /\ ctx'[v] = ctx[v]
  BY DEF Begin, IInv, TypeOK
<1> QED BY <1>2, <1>5, <1>6, MoneyFrame

\* Every request does.
LEMMA RequestMoney ==
  ASSUME IInv, IInv', Money, NEW w \in Workers, Request(w)
  PROVE  Money'
<1>0. NoCtx \in Ctx
  BY NoCtxFields
<1>1. CASE \E u \in Users, x \in ApplyAmounts : ApplyCredits(w, u, x)
  <2>1. PICK u \in Users, x \in ApplyAmounts : ApplyCredits(w, u, x)
    BY <1>1
  <2>2. [NoCtx EXCEPT !.user = u, !.amount = x].acct = NoCtx.acct
    BY <1>0 DEF Ctx
  <2> QED BY <2>1, <2>2, BeginMoney DEF ApplyCredits
<1>2. CASE \E u \in Users, x \in Costs, r \in RentalIds \cup {NoId} : ReserveCredits(w, u, x, r)
  <2>1. PICK u \in Users, x \in Costs, r \in RentalIds \cup {NoId} : ReserveCredits(w, u, x, r)
    BY <1>2
  <2>2. [NoCtx EXCEPT !.user = u, !.amount = x, !.rental = r].acct = NoCtx.acct
    BY <1>0 DEF Ctx
  <2> QED BY <2>1, <2>2, BeginMoney DEF ReserveCredits
<1>3. CASE \E u \in Users, x \in Costs, d \in HasDuration : TrackRental(w, u, x, d)
  <2>1. PICK u \in Users, x \in Costs, d \in HasDuration : TrackRental(w, u, x, d)
    BY <1>3
  <2>2. [NoCtx EXCEPT !.user = u, !.amount = x, !.after = IF d THEN "track_event" ELSE "idle"].acct = NoCtx.acct
    BY <1>0 DEF Ctx
  <2> QED BY <2>1, <2>2, BeginMoney DEF TrackRental
<1>4. CASE \E u \in Users : GetBalance(w, u)
  <2>1. PICK u \in Users : GetBalance(w, u)
    BY <1>4
  <2>2. [NoCtx EXCEPT !.user = u].acct = NoCtx.acct
    BY <1>0 DEF Ctx
  <2> QED BY <2>1, <2>2, BeginMoney DEF GetBalance
<1>5. CASE \E id \in ReservationIds, x \in Costs : ReleaseReservation(w, id, x)
  <2>1. PICK id \in ReservationIds, x \in Costs : ReleaseReservation(w, id, x)
    BY <1>5
  <2>2. [NoCtx EXCEPT !.user = reservations[id].user, !.amount = x, !.res = id].acct = NoCtx.acct
    BY <1>0 DEF Ctx
  <2> QED BY <2>1, <2>2, BeginMoney DEF ReleaseReservation
<1>6. CASE \E r \in RentalIds, s \in RequestedStates : UpdateRentalStatus(w, r, s)
  <2>1. PICK r \in RentalIds, s \in RequestedStates : UpdateRentalStatus(w, r, s)
    BY <1>6
  <2>2. [NoCtx EXCEPT !.user = rentals[r].user, !.rental = r, !.state = s].acct = NoCtx.acct
    BY <1>0 DEF Ctx
  <2> QED BY <2>1, <2>2, BeginMoney DEF UpdateRentalStatus
<1>7. CASE \E r \in RentalIds, x \in Costs : FinalizeRental(w, r, x)
  <2>1. PICK r \in RentalIds, x \in Costs : FinalizeRental(w, r, x)
    BY <1>7
  <2>2. [NoCtx EXCEPT !.user = rentals[r].user, !.rental = r, !.amount = x,
                          !.after = "final_reread"].acct = NoCtx.acct
    BY <1>0 DEF Ctx
  <2> QED BY <2>1, <2>2, BeginMoney DEF FinalizeRental
<1> QED BY <1>1, <1>2, <1>3, <1>4, <1>5, <1>6, <1>7 DEF Request

\* The row get_or_create_account leaves is backed.
LEMMA ReadMoney ==
  ASSUME IInv, Money, NEW u \in Users
  PROVE  LET row == IF accounts[u] = NoAccount THEN NewAccount ELSE accounts[u]
         IN row \in Account /\ Total(row) <= applied[u]
  BY DEF IInv, TypeOK, Money, NoCreditFromNothing, CopiesBacked, NewAccount, Account, Total

\* ApplyGet, ReserveGet and BalanceGet insert at most an empty account and copy the row.
LEMMA GetMoney ==
  ASSUME IInv, IInv', Money, NEW w \in Workers, ApplyGet(w) \/ ReserveGet(w) \/ BalanceGet(w)
  PROVE  Money'
<1> DEFINE u == ctx[w].user
           row == IF accounts[u] = NoAccount THEN NewAccount ELSE accounts[u]
<1>1. u \in Users
  BY DEF IInv, CtxOK, ApplyGet, ReserveGet, BalanceGet
<1>2. row \in Account /\ Total(row) <= applied[u]
  BY <1>1, ReadMoney
<1>3. accounts' = [accounts EXCEPT ![u] = row] /\ UNCHANGED applied
  BY DEF ApplyGet, ReserveGet, BalanceGet, GetOrCreateAccount, history
<1>4. /\ \A v \in Workers \ {w} : pc'[v] = pc[v] /\ ctx'[v] = ctx[v]
      /\ \/ pc'[w] = "idle"
         \/ ctx' = [ctx EXCEPT ![w].acct = row]
  BY DEF IInv, TypeOK, ApplyGet, ReserveGet, BalanceGet, GetOrCreateAccount, Goto, Finish
<1>5. applied' \in [Users -> Nat] /\ \A t \in Users : applied[t] <= applied'[t]
  BY <1>3 DEF Money, CopiesBacked, IInv, TypeOK
<1> HIDE DEF row
<1>6. pc'[w] = "idle" \/ Total(ctx'[w].acct) <= applied'[ctx'[w].user]
  BY <1>2, <1>3, <1>4, SetAcct DEF IInv, TypeOK
<1> QED BY <1>1, <1>2, <1>3, <1>4, <1>5, <1>6, MoneyWrite

\* SettleGet and ChargeGet copy a backed row.
LEMMA CopyMoney ==
  ASSUME IInv, IInv', Money, NEW w \in Workers, SettleGet(w) \/ ChargeGet(w)
  PROVE  Money'
<1>1. UNCHANGED <<accounts, applied>>
  BY DEF SettleGet, ChargeGet, db, history
<1>2. /\ \A v \in Workers \ {w} : pc'[v] = pc[v] /\ ctx'[v] = ctx[v]
      /\ \/ pc'[w] = "idle"
         \/ accounts[ctx[w].user] # NoAccount /\ ctx' = [ctx EXCEPT ![w].acct = accounts[ctx[w].user]]
  BY DEF IInv, TypeOK, SettleGet, ChargeGet, Goto, Finish
<1>3. ctx[w].user \in Users
  BY DEF IInv, CtxOK, SettleGet, ChargeGet
<1>4. pc'[w] = "idle" \/ Total(ctx'[w].acct) <= applied[ctx'[w].user]
  BY <1>2, <1>3, SetAcct DEF IInv, TypeOK, Money, NoCreditFromNothing
<1> QED BY <1>1, <1>2, <1>4, MoneyFrame

\* The steps that change no account and leave the handler's copy alone.
LEMMA QuietMoney ==
  ASSUME IInv, IInv', Money, NEW w \in Workers,
         UNCHANGED <<accounts, applied>>, pc[w] # "idle",
         \A v \in Workers \ {w} : pc'[v] = pc[v] /\ ctx'[v] = ctx[v],
         \/ pc'[w] = "idle"
         \/ ctx'[w].acct = ctx[w].acct /\ ctx'[w].user = ctx[w].user
  PROVE  Money'
<1>1. Total(ctx[w].acct) <= applied[ctx[w].user]
  BY DEF Money, CopiesBacked
<1> QED BY <1>1, MoneyFrame

\* UpdateAccount of ApplyCredits writes the copy and the deposit.
LEMMA ApplyPutMoney ==
  ASSUME ApplyAmounts \subseteq Nat, IInv, IInv', Money, NEW w \in Workers, ApplyPut(w)
  PROVE  Money'
<1> DEFINE u == ctx[w].user
           row == WithCredits(ctx[w].acct, ctx[w].amount)
<1>1. /\ u \in Users /\ ctx[w].acct \in Account /\ ctx[w].amount \in Nat
      /\ Total(ctx[w].acct) <= applied[u] /\ applied[u] \in Nat
  BY DEF IInv, TypeOK, CtxOK, ApplyPut, Ctx, Money, CopiesBacked
<1>2. row \in Account /\ Total(row) = Total(ctx[w].acct) + ctx[w].amount /\ row.balance >= 0
  BY <1>1 DEF WithCredits, Account, Total
<1>3. accounts' = [accounts EXCEPT ![u] = row] /\ applied' = [applied EXCEPT ![u] = @ + ctx[w].amount]
  BY <1>2 DEF ApplyPut, UpdateAccount
<1>4. Finish(w)
  BY DEF ApplyPut
<1>5. pc'[w] = "idle" /\ \A v \in Workers \ {w} : pc'[v] = pc[v] /\ ctx'[v] = ctx[v]
  BY <1>4 DEF Finish, IInv, TypeOK
<1>6. applied' \in [Users -> Nat] /\ \A t \in Users : applied[t] <= applied'[t]
  BY <1>1, <1>3 DEF Money, CopiesBacked, IInv, TypeOK
<1>7. Total(ctx[w].acct) \in Int
  BY <1>1 DEF Account, Total
<1>8. Total(row) <= applied'[u]
  BY <1>1, <1>2, <1>3, <1>7 DEF IInv, TypeOK
<1> HIDE DEF row
<1> QED BY <1>1, <1>2, <1>3, <1>5, <1>6, <1>8, MoneyWrite

\* The other writers put back their copy with its total unchanged.
LEMMA PutMoney ==
  ASSUME IInv, IInv', Money, NEW w \in Workers, ReservePut(w) \/ SettlePut(w) \/ ChargePut(w)
  PROVE  Money'
<1> DEFINE u == ctx[w].user
<1>1. u \in Users /\ ctx[w].acct \in Account /\ ctx[w].amount \in Int /\ pc[w] # "idle"
  BY DEF IInv, TypeOK, CtxOK, ReservePut, SettlePut, ChargePut, Ctx
<1>2. Total(ctx[w].acct) <= applied[u]
  BY <1>1 DEF Money, CopiesBacked
<1>3. UNCHANGED accounts \/ \E row \in Account : /\ accounts' = [accounts EXCEPT ![u] = row]
                                               /\ Total(row) = Total(ctx[w].acct)
  <2>1. CASE ReservePut(w)
    <3>0. PICK row : row = WithReserved(ctx[w].acct, ctx[w].amount)
      OBVIOUS
    <3>1. row.reserved >= 0 => row \in Account
      BY <1>1, <3>0 DEF WithReserved, Account
    <3>2. Total(row) = Total(ctx[w].acct)
      BY <1>1, <3>0 DEF WithReserved, Account, Total
    <3>3. row.reserved >= 0 => accounts' = [accounts EXCEPT ![u] = row]
      BY <2>1, <3>0 DEF ReservePut, UpdateAccount
    <3>4. ~(row.reserved >= 0) => UNCHANGED accounts
      BY <2>1, <3>0 DEF ReservePut
    <3> QED BY <3>1, <3>2, <3>3, <3>4
  <2>2. CASE SettlePut(w)
    <3> DEFINE a == WithReleased(ctx[w].acct, reservations[ctx[w].res].amount)
    <3>1. reservations[ctx[w].res].amount \in Int /\ CanCharge(ctx[w].acct, ctx[w].amount)
      BY <2>2 DEF IInv, TypeOK, CtxOK, SettlePut, SettleLabels, Exists, NoRow, Reservation
    <3>2. a \in Account /\ a.balance = ctx[w].acct.balance /\ a.spent = ctx[w].acct.spent
      BY <1>1, <3>1, ReleasedAccount
    <3>3. CanCharge(a, ctx[w].amount) /\ Total(a) = Total(ctx[w].acct)
      BY <3>1, <3>2 DEF CanCharge, Total
    <3>4. accounts' = [accounts EXCEPT ![u] = Charged(a, ctx[w].amount)]
      BY <2>2 DEF SettlePut, UpdateAccount
    <3> HIDE DEF a
    <3> QED BY <1>1, <3>2, <3>3, <3>4, ChargedAccount
  <2>3. CASE ChargePut(w)
    <3>1. CanCharge(ctx[w].acct, ctx[w].amount)
      BY <2>3 DEF IInv, CtxOK, ChargePut
    <3> QED BY <1>1, <2>3, <3>1, ChargedAccount DEF ChargePut, UpdateAccount
  <2> QED BY <2>1, <2>2, <2>3
<1>4. UNCHANGED applied
  BY DEF ReservePut, SettlePut, ChargePut, history
<1>5. /\ \A v \in Workers \ {w} : pc'[v] = pc[v] /\ ctx'[v] = ctx[v]
      /\ pc'[w] = "idle" \/ ctx'[w] = ctx[w]
  BY DEF ReservePut, SettlePut, ChargePut, Finish, Goto, IInv, TypeOK
<1>6. applied' \in [Users -> Nat] /\ \A t \in Users : applied[t] <= applied'[t]
  BY <1>4 DEF Money, CopiesBacked, IInv, TypeOK
<1>7. CASE UNCHANGED accounts
  BY <1>2, <1>4, <1>5, <1>7, MoneyFrame
<1>8. ASSUME NEW row \in Account, accounts' = [accounts EXCEPT ![u] = row], Total(row) = Total(ctx[w].acct)
      PROVE  Money'
  <2>1. Total(row) <= applied'[u] /\ (pc'[w] = "idle" \/ Total(ctx'[w].acct) <= applied'[ctx'[w].user])
    BY <1>2, <1>4, <1>5, <1>8
  <2> QED BY <1>1, <1>5, <1>6, <1>8, <2>1, MoneyWrite
<1> QED BY <1>3, <1>7, <1>8

\* Every step keeps the money invariant.
LEMMA NextMoney ==
  ASSUME ApplyAmounts \subseteq Nat, IInv, IInv', Money, [Next]_vars
  PROVE  Money'
<1>1. ASSUME NEW w \in Workers, Request(w) PROVE Money'
  BY <1>1, RequestMoney
<1>2. ASSUME NEW w \in Workers, Statement(w) PROVE Money'
  <2>1. CASE ApplyGet(w) \/ ReserveGet(w) \/ BalanceGet(w)
    BY <2>1, GetMoney
  <2>2. CASE ApplyPut(w)
    BY <2>2, ApplyPutMoney
  <2>3. CASE ReservePut(w) \/ SettlePut(w) \/ ChargePut(w)
    BY <2>3, PutMoney
  <2>4. CASE SettleGet(w) \/ ChargeGet(w)
    BY <2>4, CopyMoney
  <2>5. CASE ReserveInsert(w) \/ SettleRead(w) \/ SettleMark(w) \/ TrackEvent(w)
               \/ StatusGet(w) \/ StatusPut(w) \/ StatusRewrite(w) \/ StatusEvent(w)
               \/ FinalPut(w) \/ FinalRewrite(w)
    <3>1. /\ UNCHANGED <<accounts, applied>> /\ pc[w] # "idle"
          /\ \A v \in Workers \ {w} : pc'[v] = pc[v] /\ ctx'[v] = ctx[v]
          /\ pc'[w] = "idle" \/ ctx'[w] = ctx[w]
      BY <2>5 DEF ReserveInsert, SettleRead, SettleMark, TrackEvent, StatusGet, StatusPut,
         StatusRewrite, StatusEvent, FinalPut, FinalRewrite, WriteRental, Finish, Goto, db, history,
         IInv, TypeOK
    <3> QED BY <3>1, QuietMoney
  <2>6. CASE TrackCreate(w) \/ StatusReread(w) \/ FinalGet(w) \/ FinalFind(w) \/ FinalReread(w)
    <3>1. UNCHANGED <<accounts, applied>> /\ pc[w] # "idle"
      BY <2>6 DEF TrackCreate, StatusReread, FinalGet, FinalFind, FinalReread, ReadRental, db, history
    <3>2. \A v \in Workers \ {w} : pc'[v] = pc[v]
      BY <2>6 DEF TrackCreate, StatusReread, FinalGet, FinalFind, FinalReread, ReadRental, Finish,
         Goto, IInv, TypeOK
    <3>3. \/ Finish(w)
          \/ ctx' = ctx
          \/ \E r \in RentalIds : ctx' = [ctx EXCEPT ![w].rental = r]
          \/ \E id \in ReservationIds : ctx' = [ctx EXCEPT ![w].res = id]
          \/ \E s \in RentalStates : ctx' = [ctx EXCEPT ![w].state = s]
      <4>1. CASE TrackCreate(w)
        BY <4>1 DEF TrackCreate
      <4>2. CASE StatusReread(w) \/ FinalReread(w)
        <5>1. Moved(ctx[w].rental)
          BY <4>2 DEF IInv, CtxOK, StatusReread, FinalReread
        <5>2. rentals[ctx[w].rental].state \in RentalStates
          BY <5>1 DEF IInv, TypeOK, Moved, Exists, NoRow, Rental
        <5> QED BY <4>2, <5>2 DEF StatusReread, FinalReread, ReadRental
      <4>3. CASE FinalGet(w)
        BY <4>3 DEF FinalGet, ReadRental, RentalStates
      <4>4. CASE FinalFind(w)
        BY <4>4 DEF FinalFind, ActiveFor
      <4> QED BY <2>6, <4>1, <4>2, <4>3, <4>4
    <3>4. /\ \A v \in Workers \ {w} : ctx'[v] = ctx[v]
          /\ pc'[w] = "idle" \/ (ctx'[w].acct = ctx[w].acct /\ ctx'[w].user = ctx[w].user)
      BY <3>3, SetRental, SetRes, SetState DEF Finish, IInv, TypeOK
    <3> QED BY <3>1, <3>2, <3>4, QuietMoney
  <2> QED BY <1>2, <2>1, <2>2, <2>3, <2>4, <2>5, <2>6 DEF Statement
<1>3. ASSUME NEW w \in Workers, Fail(w) PROVE Money'
  <2>1. /\ UNCHANGED <<accounts, applied>> /\ pc[w] # "idle" /\ pc'[w] = "idle"
        /\ \A v \in Workers \ {w} : pc'[v] = pc[v] /\ ctx'[v] = ctx[v]
    BY <1>3 DEF Fail, Finish, db, history, IInv, TypeOK
  <2> QED BY <2>1, QuietMoney
<1>4. ASSUME NEW id \in ReservationIds, Expire(id) PROVE Money'
  BY <1>4 DEF Expire, Money, NoCreditFromNothing, CopiesBacked, history
<1>5. CASE UNCHANGED vars
  BY <1>5 DEF vars, db, history, Money, NoCreditFromNothing, CopiesBacked
<1> QED BY <1>1, <1>2, <1>3, <1>4, <1>5 DEF Next

\* With deposits only, any number of handlers, interleaved and failing anywhere, can
\* lose credit through the blind overwrites of update_account but never make any: what
\* a user holds and has spent never exceeds what was applied.
THEOREM NoCreditMade ==
  ASSUME ApplyAmounts \subseteq Nat
  PROVE  Spec => []NoCreditFromNothing
<1>1. Init => Money
  BY DEF Init, Money, NoCreditFromNothing, CopiesBacked
<1>2. IInv /\ IInv' /\ Money /\ [Next]_vars => Money'
  BY NextMoney
<1>3. Money => NoCreditFromNothing
  BY DEF Money
<1> QED BY <1>1, <1>2, <1>3, Invariance, PTL DEF Spec

-----------------------------------------------------------------------------
(* Requests of a user that do not overlap (Serialise).                     *)

RentalLabels == StatusLabels \cup FinalLabels

\* Between a read of an account and the write that depends on it.
CopyLabels == {"apply_put", "reserve_insert", "reserve_put", "settle_put", "charge_put"}

CostLabels == ReserveLabels \cup SettleLabels \cup {"track_create"}
              \cup {"final_get", "final_put", "final_find", "charge_get", "charge_put"}

Settling(w, id) == pc[w] \in {"settle_get", "settle_put"} /\ ctx[w].res = id

\* What Ledger's Held says of the rows.
HeldOf(u, id) == IF HoldOf(id).state = "open" /\ HoldOf(id).user = u THEN HoldOf(id).amount ELSE 0
HeldFor(u) == SumFunctionOnSet([id \in ReservationIds |-> HeldOf(u, id)], ReservationIds)

\* One handler per user, and none that is over keeps a user.
OnePerUser ==
  /\ \A w \in Workers : pc[w] = "idle" => ctx[w].user = NoId
  /\ \A v, w \in Workers : v # w => ctx[v].user = NoId \/ ctx[v].user # ctx[w].user

\* What a handler has read is still so, and it works on rows of its user.
LocalOK(w) ==
  LET p == pc[w]
      c == ctx[w]
  IN /\ p \in CopyLabels => accounts[c.user] = c.acct
     /\ p \in CostLabels => c.amount \in Costs
     /\ p \in SettleLabels => reservations[c.res].user = c.user
     /\ p = "settle_mark" => ~reservations[c.res].released
     /\ p \in {"settle_get", "settle_put"} => reservations[c.res].released /\ settled[c.res] = 0
     /\ p \in RentalLabels => rentals[c.rental].user = c.user
     /\ p \in SettleLabels /\ c.after = "final_reread" => rentals[c.rental].user = c.user
     /\ p = "status_put" => CanTransition(rentals[c.rental].state, c.state)
     /\ p = "final_put" => Finalizable(rentals[c.rental].state) /\ c.state = "Completed"
     /\ p \in {"status_rewrite", "final_rewrite"} => c.state = rentals[c.rental].state

\* An account that is not there yet has been given nothing.
MoneyOK == \A u \in Users : Total(AccountOf(u)) = applied[u]

\* A reservation has an account, and only a released one was settled.
RowsOK ==
  \A id \in ReservationIds :
    /\ Exists(reservations[id]) => accounts[reservations[id].user] # NoAccount
    /\ settled[id] > 0 => Exists(reservations[id]) /\ reservations[id].released

\* The users that no request was cut short of and that made no negative reservation.
Covered ==
  {u \in Users \ failed :
     \A id \in ReservationIds :
       Exists(reservations[id]) /\ reservations[id].user = u => reservations[id].amount >= 0}

\* For them reserved covers the open holds, except while reserve_put is to come.
HeldOK ==
  \A u \in Covered :
    /\ (\A w \in Workers : ctx[w].user = u => pc[w] # "reserve_put")
       => HeldFor(u) <= AccountOf(u).reserved
    /\ \A w \in Workers : ctx[w].user = u /\ pc[w] = "reserve_put"
       => HeldFor(u) <= AccountOf(u).reserved + ctx[w].amount

SInv ==
  /\ OnePerUser
  /\ \A w \in Workers : LocalOK(w)
  /\ MoneyOK
  /\ RowsOK
  /\ HeldOK

\* Initially there is nothing.
LEMMA InitSerial == Init => SInv
<1> SUFFICES ASSUME Init PROVE SInv
  OBVIOUS
<1>1. OnePerUser /\ (\A w \in Workers : LocalOK(w)) /\ MoneyOK /\ RowsOK
  BY DEF Init, OnePerUser, LocalOK, MoneyOK, RowsOK, NoCtx, NoRow, Exists, CopyLabels, CostLabels,
     SettleLabels, ReserveLabels, RentalLabels, StatusLabels, FinalLabels, AccountOf, NewAccount, Total
<1>2. \A u \in Users : HeldFor(u) = 0
  <2> SUFFICES ASSUME NEW u \in Users PROVE HeldFor(u) = 0
    OBVIOUS
  <2>1. \A id \in ReservationIds : HeldOf(u, id) = 0
    BY DEF Init, HeldOf, HoldOf, Exists, NoRow
  <2>2. IsFiniteSet(ReservationIds)
    BY FS_Interval, BillingAssumption DEF ReservationIds
  <2> DEFINE f == [id \in ReservationIds |-> HeldOf(u, id)]
  <2>3. \A id \in ReservationIds : f[id] = 0
    BY <2>1
  <2> HIDE DEF f
  <2>4. SumFunctionOnSet(f, ReservationIds) = 0
    BY <2>2, <2>3, SumZero
  <2> QED BY <2>4 DEF HeldFor, f
<1>3. HeldOK
  BY <1>2 DEF Init, HeldOK, Covered, AccountOf, NewAccount
<1> QED BY <1>1, <1>3 DEF SInv

-----------------------------------------------------------------------------
(* Holds.                                                                  *)

\* No step makes a user covered again.
Shrinks == Covered' \subseteq Covered

LEMMA CoveredUsers == \A u \in Covered : u \in Users
  BY DEF Covered

OthersStay(w) == \A v \in Workers \ {w} : pc'[v] = pc[v] /\ ctx'[v] = ctx[v]

HoldsStay == \A id \in ReservationIds : HoldOf(id)' = HoldOf(id)

\* The hold of a reservation.
LEMMA HoldFacts ==
  ASSUME IInv, NEW id \in ReservationIds
  PROVE  /\ ~Exists(reservations[id]) => HoldOf(id) = [state |-> "none"]
         /\ Exists(reservations[id]) =>
              /\ HoldOf(id) = [state |-> HoldState(id), user |-> reservations[id].user,
                               amount |-> reservations[id].amount]
              /\ HoldOf(id).user = reservations[id].user /\ HoldOf(id).user \in Users
              /\ HoldOf(id).amount = reservations[id].amount /\ HoldOf(id).amount \in Int
         /\ HoldState(id) = IF settled[id] > 0 THEN "settled"
                            ELSE IF ~reservations[id].released \/ BeingSettled(id) THEN "open"
                            ELSE "void"
<1>1. settled[id] \in Nat
  BY DEF IInv, TypeOK
<1>2. HoldState(id) = IF settled[id] > 0 THEN "settled"
                      ELSE IF ~reservations[id].released \/ BeingSettled(id) THEN "open"
                      ELSE "void"
  BY <1>1 DEF HoldState
<1>3. Exists(reservations[id]) => reservations[id].user \in Users /\ reservations[id].amount \in Int
  BY DEF IInv, TypeOK, Exists, NoRow, Reservation
<1> QED BY <1>2, <1>3 DEF HoldOf

\* A hold stays when its row does and the same handlers are settling it.
LEMMA HoldKept ==
  ASSUME NEW id, reservations'[id].user = reservations[id].user,
         reservations'[id].amount = reservations[id].amount,
         reservations'[id].released = reservations[id].released,
         settled'[id] = settled[id], BeingSettled(id)' <=> BeingSettled(id)
  PROVE  HoldOf(id)' = HoldOf(id)
  BY DEF HoldOf, HoldState, Exists

\* A hold of a row that stays, by its state.
LEMMA HoldMoves ==
  ASSUME NEW id, Exists(reservations[id]), reservations'[id].user = reservations[id].user,
         reservations'[id].amount = reservations[id].amount
  PROVE  HoldOf(id)' = [HoldOf(id) EXCEPT !.state = HoldState(id)']
<1> DEFINE s == HoldState(id)
           t == HoldState(id)'
<1>1. HoldOf(id) = [state |-> s, user |-> reservations[id].user, amount |-> reservations[id].amount]
  BY DEF HoldOf
<1>2. HoldOf(id)' = [state |-> t, user |-> reservations[id].user, amount |-> reservations[id].amount]
  BY DEF HoldOf, Exists
<1> HIDE DEF s, t
<1>3. HoldOf(id)' = [HoldOf(id) EXCEPT !.state = t]
  BY <1>1, <1>2
<1> QED BY <1>3 DEF t

\* Who settles a reservation, after a step of one handler.
LEMMA SettlingKept ==
  ASSUME NEW w \in Workers, OthersStay(w), NEW id, Settling(w, id)' <=> Settling(w, id)
  PROVE  BeingSettled(id)' <=> BeingSettled(id)
  BY DEF BeingSettled, Settling, OthersStay

\* Two handlers never settle one reservation.
LEMMA OneSettles ==
  ASSUME IInv, SInv, NEW v \in Workers, NEW w \in Workers, v # w, NEW id, Settling(w, id)
  PROVE  ~Settling(v, id)
  BY BillingAssumption DEF IInv, CtxOK, SInv, OnePerUser, LocalOK, Settling, SettleLabels

\* What is held is an integer, and follows the holds.
LEMMA HeldType ==
  ASSUME IInv, NEW u
  PROVE  /\ \A id \in ReservationIds : HeldOf(u, id) \in Int
         /\ HeldFor(u) \in Int
<1>1. \A id \in ReservationIds : HeldOf(u, id) \in Int
  BY HoldFacts DEF HeldOf
<1>2. IsFiniteSet(ReservationIds)
  BY FS_Interval, BillingAssumption DEF ReservationIds
<1> DEFINE f == [id \in ReservationIds |-> HeldOf(u, id)]
<1>3. \A id \in ReservationIds : f[id] \in Int /\ f[id] = HeldOf(u, id)
  BY <1>1
<1>4. HeldFor(u) = SumFunctionOnSet(f, ReservationIds)
  BY DEF HeldFor
<1> HIDE DEF f
<1>5. SumFunctionOnSet(f, ReservationIds) \in Int
  BY <1>2, <1>3, SumInt
<1> QED BY <1>1, <1>3, <1>4, <1>5

LEMMA HeldSame ==
  ASSUME NEW u, HoldsStay
  PROVE  HeldFor(u)' = HeldFor(u)
<1>1. \A id \in ReservationIds : HeldOf(u, id)' = HeldOf(u, id)
  BY DEF HoldsStay, HeldOf
<1>2. [id \in ReservationIds |-> HeldOf(u, id)'] = [id \in ReservationIds |-> HeldOf(u, id)]
  BY <1>1
<1> QED BY <1>2, Zenon DEF HeldFor

LEMMA HeldChange ==
  ASSUME IInv, IInv', NEW u, NEW e \in ReservationIds,
         \A id \in ReservationIds \ {e} : HoldOf(id)' = HoldOf(id)
  PROVE  HeldFor(u)' = HeldFor(u) + (HeldOf(u, e)' - HeldOf(u, e))
<1> DEFINE f == [id \in ReservationIds |-> HeldOf(u, id)]
           g == [id \in ReservationIds |-> HeldOf(u, id)']
<1>1. \A id \in ReservationIds : HeldOf(u, id) \in Int
  BY HeldType
<1>2. \A id \in ReservationIds : HeldOf(u, id)' \in Int
  <2>1. \A id \in ReservationIds : HoldOf(id)'.state = "open" => HoldOf(id)'.amount \in Int
    <3> SUFFICES ASSUME NEW id \in ReservationIds, HoldOf(id)'.state = "open"
                 PROVE  HoldOf(id)'.amount \in Int
      OBVIOUS
    <3>1. Exists(reservations'[id])
      BY DEF HoldOf, Exists
    <3>2. reservations'[id].amount \in Int
      BY <3>1 DEF IInv, TypeOK, Exists, NoRow, Reservation
    <3> QED BY <3>1, <3>2 DEF HoldOf, Exists
  <2> QED BY <2>1 DEF HeldOf
<1>3. \A id \in ReservationIds \ {e} : HeldOf(u, id)' = HeldOf(u, id)
  BY DEF HeldOf
<1>4. IsFiniteSet(ReservationIds)
  BY FS_Interval, BillingAssumption DEF ReservationIds
<1>5. /\ \A id \in ReservationIds : f[id] \in Int /\ g[id] \in Int
      /\ \A id \in ReservationIds \ {e} : f[id] = g[id]
      /\ f[e] = HeldOf(u, e) /\ g[e] = HeldOf(u, e)'
  BY <1>1, <1>2, <1>3
<1>6. HeldFor(u) = SumFunctionOnSet(f, ReservationIds) /\ HeldFor(u)' = SumFunctionOnSet(g, ReservationIds)
  BY DEF HeldFor
<1> HIDE DEF f, g
<1>7. SumFunctionOnSet(g, ReservationIds) = SumFunctionOnSet(f, ReservationIds) + (g[e] - f[e])
  <2>1. \A id \in ReservationIds : f[id] \in Int /\ g[id] \in Int
    BY <1>5
  <2>2. \A id \in ReservationIds \ {e} : f[id] = g[id]
    BY <1>5
  <2> QED BY <1>4, <2>1, <2>2, SumUpdate
<1> QED BY <1>5, <1>6, <1>7

-----------------------------------------------------------------------------
(* A handler works on rows of its user only.                               *)

OwnRows(w) ==
  /\ \A t \in Users \ {ctx[w].user} : accounts'[t] = accounts[t]
  /\ \A id \in ReservationIds : Exists(reservations[id]) /\ reservations[id].user # ctx[w].user
       => reservations'[id] = reservations[id] /\ settled'[id] = settled[id]
  /\ \A r \in RentalIds : Exists(rentals[r]) /\ rentals[r].user # ctx[w].user
       => rentals'[r] = rentals[r]

\* So what the other handlers have read stays true.
LEMMA OtherLocals ==
  ASSUME IInv, SInv, NEW w \in Workers, OthersStay(w), OwnRows(w), NEW v \in Workers, v # w
  PROVE  LocalOK(v)'
<1>1. pc'[v] = pc[v] /\ ctx'[v] = ctx[v] /\ LocalOK(v) /\ CtxOK(v)
  BY DEF OthersStay, SInv, IInv
<1>2. CASE pc[v] = "idle"
  BY <1>1, <1>2 DEF LocalOK, CopyLabels, CostLabels, SettleLabels, ReserveLabels, RentalLabels,
     StatusLabels, FinalLabels
<1>3. CASE pc[v] # "idle"
  <2>1. ctx[v].user \in Users /\ ctx[v].user # ctx[w].user /\ ctx[v].user # NoId
    BY <1>1, <1>3, BillingAssumption DEF CtxOK, SInv, OnePerUser
  <2>2. accounts'[ctx[v].user] = accounts[ctx[v].user]
    BY <2>1 DEF OwnRows
  <2>3. pc[v] \in SettleLabels => /\ reservations'[ctx[v].res] = reservations[ctx[v].res]
                                  /\ settled'[ctx[v].res] = settled[ctx[v].res]
    BY <1>1, <2>1 DEF OwnRows, CtxOK, LocalOK
  <2>4. (pc[v] \in RentalLabels \/ (pc[v] \in SettleLabels /\ ctx[v].after = "final_reread"))
        => rentals'[ctx[v].rental] = rentals[ctx[v].rental]
    BY <1>1, <2>1 DEF OwnRows, CtxOK, LocalOK, RentalLabels, Moved
  <2>5. /\ pc[v] \in {"settle_mark", "settle_get", "settle_put"} => pc[v] \in SettleLabels
        /\ pc[v] \in {"status_put", "final_put", "status_rewrite", "final_rewrite"} => pc[v] \in RentalLabels
    BY DEF SettleLabels, RentalLabels, StatusLabels, FinalLabels
  <2> QED BY <1>1, <2>2, <2>3, <2>4, <2>5 DEF LocalOK
<1> QED BY <1>2, <1>3

\* And a user keeps one handler.
LEMMA UserStays ==
  ASSUME IInv, SInv, NEW w \in Workers, OthersStay(w),
         Finish(w) \/ (pc'[w] # "idle" /\ ctx'[w].user = ctx[w].user)
  PROVE  OnePerUser'
<1>1. CASE Finish(w)
  <2>1. ctx'[w].user = NoId
    BY <1>1 DEF Finish, NoCtx, IInv, TypeOK
  <2> QED BY <2>1 DEF SInv, OnePerUser, OthersStay
<1>2. CASE pc'[w] # "idle" /\ ctx'[w].user = ctx[w].user
  BY <1>2 DEF SInv, OnePerUser, OthersStay
<1> QED BY <1>1, <1>2

\* A handler that is over has read nothing.
LEMMA OverLocal ==
  ASSUME IInv, NEW w \in Workers, Finish(w)
  PROVE  LocalOK(w)'
<1>1. pc'[w] = "idle"
  BY DEF Finish, IInv, TypeOK
<1> QED BY <1>1 DEF LocalOK, CopyLabels, CostLabels, SettleLabels, ReserveLabels, RentalLabels,
        StatusLabels, FinalLabels

\* The handlers after a step of one of them.
LEMMA HandlersKept ==
  ASSUME IInv, SInv, NEW w \in Workers, OthersStay(w), OwnRows(w),
         Finish(w) \/ (pc'[w] # "idle" /\ ctx'[w].user = ctx[w].user /\ LocalOK(w)')
  PROVE  OnePerUser' /\ \A v \in Workers : LocalOK(v)'
  BY OtherLocals, UserStays, OverLocal

\* Rows of other users.
LEMMA NothingWritten ==
  ASSUME NEW w, UNCHANGED <<accounts, reservations, rentals, settled>>
  PROVE  OwnRows(w)
  BY DEF OwnRows

\* Rows that stay: accounts do not go away, reservations keep their columns.
LEMMA RowsKept ==
  ASSUME IInv, SInv, \A u \in Users : accounts[u] # NoAccount => accounts'[u] # NoAccount,
         \A id \in ReservationIds :
           /\ reservations'[id].user = reservations[id].user
           /\ reservations[id].released => reservations'[id].released
           /\ settled'[id] = settled[id]
  PROVE  RowsOK'
<1>1. \A id \in ReservationIds : Exists(reservations[id]) => reservations[id].user \in Users
  BY DEF IInv, TypeOK, Exists, NoRow, Reservation
<1> QED BY <1>1 DEF SInv, RowsOK, Exists

AccountsStay == \A u \in Users : AccountOf(u)' = AccountOf(u)

\* Steps that neither hold nor pay.
LEMMA MoneyStays ==
  ASSUME SInv, AccountsStay, UNCHANGED applied
  PROVE  MoneyOK'
  BY DEF SInv, MoneyOK, AccountsStay

\* reserved stays above the holds when neither moves against the other.
LEMMA HeldStep ==
  ASSUME IInv, IInv', SInv, NEW w \in Workers, OthersStay(w), pc[w] # "reserve_put", pc'[w] # "reserve_put",
         Shrinks,
         \A u \in Covered : \A k \in Int :
           HeldFor(u) <= AccountOf(u).reserved + k => HeldFor(u)' <= AccountOf(u)'.reserved + k
  PROVE  HeldOK'
<1> SUFFICES ASSUME NEW u \in Covered'
             PROVE  /\ (\A v \in Workers : ctx'[v].user = u => pc'[v] # "reserve_put")
                       => HeldFor(u)' <= AccountOf(u)'.reserved
                    /\ \A v \in Workers : ctx'[v].user = u /\ pc'[v] = "reserve_put"
                       => HeldFor(u)' <= AccountOf(u)'.reserved + ctx'[v].amount
  BY DEF HeldOK
<1>1. u \in Covered /\ u \in Users
  BY CoveredUsers DEF Shrinks
<1>2. /\ (\A v \in Workers : ctx[v].user = u => pc[v] # "reserve_put")
         => HeldFor(u) <= AccountOf(u).reserved
      /\ \A v \in Workers : ctx[v].user = u /\ pc[v] = "reserve_put"
         => HeldFor(u) <= AccountOf(u).reserved + ctx[v].amount
  BY <1>1 DEF SInv, HeldOK
<1>3. AccountOf(u).reserved \in Nat /\ AccountOf(u)'.reserved \in Nat
  BY <1>1 DEF IInv, TypeOK, AccountOf, NewAccount, Account
<1>4. CASE \A v \in Workers : ctx'[v].user = u => pc'[v] # "reserve_put"
  <2>1. \A v \in Workers : ctx[v].user = u => pc[v] # "reserve_put"
    BY <1>4 DEF OthersStay
  <2>2. HeldFor(u) <= AccountOf(u).reserved + 0
    BY <1>2, <1>3, <2>1
  <2>3. HeldFor(u)' <= AccountOf(u)'.reserved + 0
    BY <1>1, <2>2
  <2> QED BY <1>3, <1>4, <2>3
<1>5. ASSUME NEW v \in Workers, ctx'[v].user = u, pc'[v] = "reserve_put"
      PROVE  HeldFor(u)' <= AccountOf(u)'.reserved + ctx'[v].amount
  <2>1. v # w /\ ctx'[v] = ctx[v] /\ pc[v] = "reserve_put"
    BY <1>5 DEF OthersStay
  <2>2. ctx[v].amount \in Int
    BY <2>1 DEF IInv, CtxOK
  <2> QED BY <1>1, <1>2, <1>5, <2>1, <2>2
<1> QED BY <1>4, <1>5

\* Steps that leave reserved and the holds alone.
LEMMA HeldStays ==
  ASSUME IInv, IInv', SInv, NEW w \in Workers, OthersStay(w), pc[w] # "reserve_put", pc'[w] # "reserve_put",
         Shrinks, HoldsStay, \A u \in Users : AccountOf(u)'.reserved = AccountOf(u).reserved
  PROVE  HeldOK'
  BY HeldSame, HeldStep, CoveredUsers

-----------------------------------------------------------------------------
(* Steps that the ledger does not see.                                     *)

Unseen == UNCHANGED Abstract!vars

\* Neither balances nor holds change.
LEMMA Stutter ==
  ASSUME \A u \in Users : /\ AccountOf(u)'.balance = AccountOf(u).balance
                          /\ AccountOf(u)'.spent = AccountOf(u).spent,
         HoldsStay, UNCHANGED failed
  PROVE  Unseen
  BY DEF Unseen, Abstract!vars, HoldsStay

LEMMA HoldsUntouched ==
  ASSUME NEW w \in Workers, OthersStay(w), UNCHANGED <<reservations, settled>>,
         pc[w] \notin {"settle_get", "settle_put"}, pc'[w] \notin {"settle_get", "settle_put"}
  PROVE  HoldsStay
<1> SUFFICES ASSUME NEW id \in ReservationIds PROVE HoldOf(id)' = HoldOf(id)
  BY DEF HoldsStay
<1>1. BeingSettled(id)' <=> BeingSettled(id)
  BY SettlingKept DEF Settling
<1> QED BY <1>1, HoldKept

\* A step of a handler on nothing but rentals, events and its own variables.
LEMMA ReadStep ==
  ASSUME IInv, IInv', SInv, Shrinks, NEW w \in Workers, OthersStay(w),
         UNCHANGED <<accounts, reservations, settled, applied, failed>>,
         \A r \in RentalIds : Exists(rentals[r]) /\ rentals[r].user # ctx[w].user => rentals'[r] = rentals[r],
         Finish(w) \/ (pc'[w] # "idle" /\ ctx'[w].user = ctx[w].user /\ LocalOK(w)'),
         {pc[w], pc'[w]} \cap {"settle_get", "settle_put", "reserve_put"} = {}
  PROVE  SInv' /\ Unseen
<1>1. OwnRows(w)
  BY DEF OwnRows
<1>2. AccountsStay /\ \A u \in Users : AccountOf(u)' = AccountOf(u)
  BY DEF AccountsStay, AccountOf
<1>3. HoldsStay
  BY HoldsUntouched
<1>4. RowsOK'
  BY RowsKept
<1>5. HeldOK'
  BY <1>2, <1>3, HeldStays
<1> QED BY <1>1, <1>2, <1>3, <1>4, <1>5, HandlersKept, MoneyStays, Stutter DEF SInv

\* The rental a handler writes is its user's.
LEMMA WriteOwn ==
  ASSUME IInv, SInv, NEW w \in Workers, pc[w] \in RentalLabels, WriteRental(w)
  PROVE  /\ \A r \in RentalIds : Exists(rentals[r]) /\ rentals[r].user # ctx[w].user => rentals'[r] = rentals[r]
         /\ rentals'[ctx[w].rental].user = ctx[w].user
         /\ rentals'[ctx[w].rental].state = ctx[w].state
         /\ UNCHANGED <<accounts, reservations, settled, applied, failed>>
<1> DEFINE r == ctx[w].rental
<1>1. r \in RentalIds /\ Exists(rentals[r])
  BY DEF IInv, CtxOK, RentalLabels
<1>2. rentals[r].user = ctx[w].user
  BY DEF SInv, LocalOK
<1>3. rentals[r] \in Rental /\ ctx[w].state \in RentalStates
  BY <1>1 DEF IInv, TypeOK, Exists, NoRow, Ctx
<1>4. rentals' = [rentals EXCEPT ![r] = [rentals[r] EXCEPT !.state = ctx[w].state]]
  BY DEF WriteRental
<1>5. rentals'[r].user = rentals[r].user /\ rentals'[r].state = ctx[w].state
  BY <1>1, <1>3, <1>4 DEF IInv, TypeOK, Rental
<1>6. \A q \in RentalIds \ {r} : rentals'[q] = rentals[q]
  BY <1>4 DEF IInv, TypeOK
<1> QED BY <1>2, <1>5, <1>6 DEF WriteRental, history

\* UpdateRentalStatus.
LEMMA StatusSerial ==
  ASSUME IInv, IInv', SInv, Shrinks, NEW w \in Workers,
         StatusGet(w) \/ StatusPut(w) \/ StatusReread(w) \/ StatusRewrite(w) \/ StatusEvent(w)
  PROVE  SInv' /\ Unseen
<1> USE DEF CopyLabels, CostLabels, SettleLabels, ReserveLabels, RentalLabels, StatusLabels, FinalLabels
<1>1. /\ pc \in [Workers -> Labels] /\ ctx \in [Workers -> Ctx]
      /\ LocalOK(w) /\ CtxOK(w)
  BY DEF IInv, TypeOK, SInv
<1>2. CASE StatusGet(w)
  <2>1. OthersStay(w) /\ UNCHANGED <<accounts, reservations, rentals, settled, applied, failed>>
        /\ pc[w] = "status_get"
    BY <1>1, <1>2 DEF StatusGet, OthersStay, Goto, Finish, db, history
  <2>2. \/ Finish(w)
        \/ /\ CanTransition(rentals[ctx[w].rental].state, ctx[w].state)
           /\ pc'[w] = "status_put" /\ ctx'[w] = ctx[w]
    BY <1>1, <1>2 DEF StatusGet, Goto
  <2>3. Finish(w) \/ (pc'[w] # "idle" /\ ctx'[w].user = ctx[w].user /\ LocalOK(w)')
    BY <1>1, <2>1, <2>2 DEF LocalOK
  <2>4. pc'[w] \in {"idle", "status_put"}
    BY <1>1, <2>2 DEF Finish
  <2> QED BY <2>1, <2>3, <2>4, ReadStep
<1>3. CASE StatusPut(w) \/ StatusRewrite(w)
  <2>1. /\ WriteRental(w) /\ pc[w] \in {"status_put", "status_rewrite"}
        /\ pc'[w] \in {"status_reread", "status_event"} /\ ctx' = ctx /\ OthersStay(w)
    BY <1>1, <1>3 DEF StatusPut, StatusRewrite, OthersStay, Goto
  <2>2. pc[w] \in RentalLabels
    BY <2>1
  <2>3. pc'[w] # "idle" /\ ctx'[w].user = ctx[w].user /\ LocalOK(w)'
    BY <2>1, <2>2, WriteOwn DEF LocalOK
  <2> QED BY <2>1, <2>2, <2>3, WriteOwn, ReadStep
<1>4. CASE StatusReread(w)
  <2>1. /\ pc[w] = "status_reread" /\ pc'[w] = "status_rewrite"
        /\ ctx' = [ctx EXCEPT ![w].state = rentals[ctx[w].rental].state]
        /\ UNCHANGED <<accounts, reservations, rentals, settled, applied, failed>>
        /\ \A v \in Workers \ {w} : pc'[v] = pc[v]
    BY <1>1, <1>4 DEF StatusReread, ReadRental, Goto, db, history
  <2>2. rentals[ctx[w].rental].state \in RentalStates
    BY <1>1, <2>1 DEF CtxOK, Moved, Exists, IInv, TypeOK, NoRow, Rental
  <2>3. /\ ctx'[w].state = rentals[ctx[w].rental].state /\ ctx'[w].user = ctx[w].user
        /\ ctx'[w].rental = ctx[w].rental /\ \A v \in Workers \ {w} : ctx'[v] = ctx[v]
    BY <1>1, <2>1, <2>2, SetState
  <2>4. pc'[w] # "idle" /\ ctx'[w].user = ctx[w].user /\ LocalOK(w)' /\ OthersStay(w)
    BY <1>1, <2>1, <2>3 DEF LocalOK, OthersStay
  <2> QED BY <2>1, <2>4, ReadStep
<1>5. CASE StatusEvent(w)
  <2>1. /\ pc[w] = "status_event" /\ Finish(w) /\ OthersStay(w) /\ pc'[w] = "idle"
        /\ UNCHANGED <<accounts, reservations, rentals, settled, applied, failed>>
    BY <1>1, <1>5 DEF StatusEvent, OthersStay, Finish, history
  <2> QED BY <2>1, ReadStep
<1> QED BY <1>2, <1>3, <1>4, <1>5

\* FinalizeRental, but for the charge.
LEMMA FinalSerial ==
  ASSUME IInv, IInv', SInv, Shrinks, NEW w \in Workers,
         FinalGet(w) \/ FinalPut(w) \/ FinalFind(w) \/ FinalReread(w) \/ FinalRewrite(w) \/ ChargeGet(w)
  PROVE  SInv' /\ Unseen
<1> USE DEF CopyLabels, CostLabels, SettleLabels, ReserveLabels, RentalLabels, StatusLabels, FinalLabels
<1>1. /\ pc \in [Workers -> Labels] /\ ctx \in [Workers -> Ctx]
      /\ LocalOK(w) /\ CtxOK(w)
  BY DEF IInv, TypeOK, SInv
<1>2. CASE FinalGet(w)
  <2>1. /\ pc[w] = "final_get" /\ \A v \in Workers \ {w} : pc'[v] = pc[v]
        /\ UNCHANGED <<accounts, reservations, rentals, settled, applied, failed>>
    BY <1>1, <1>2 DEF FinalGet, ReadRental, Goto, Finish, db, history
  <2>2. \/ Finish(w)
        \/ /\ Finalizable(rentals[ctx[w].rental].state)
           /\ pc'[w] = "final_put" /\ ctx' = [ctx EXCEPT ![w].state = "Completed"]
    BY <1>1, <1>2 DEF FinalGet, ReadRental, Goto
  <2>3. CASE Finish(w)
    <3>1. OthersStay(w) /\ pc'[w] = "idle"
      BY <1>1, <2>3 DEF OthersStay, Finish
    <3> QED BY <2>1, <2>3, <3>1, ReadStep
  <2>4. CASE /\ Finalizable(rentals[ctx[w].rental].state)
             /\ pc'[w] = "final_put" /\ ctx' = [ctx EXCEPT ![w].state = "Completed"]
    <3>1. "Completed" \in RentalStates
      BY DEF RentalStates
    <3>2. /\ ctx'[w].state = "Completed" /\ ctx'[w].user = ctx[w].user /\ ctx'[w].amount = ctx[w].amount
          /\ ctx'[w].rental = ctx[w].rental /\ \A v \in Workers \ {w} : ctx'[v] = ctx[v]
      BY <1>1, <2>4, <3>1, SetState
    <3>3. LocalOK(w)' /\ OthersStay(w)
      BY <1>1, <2>1, <2>4, <3>2 DEF LocalOK, OthersStay
    <3> QED BY <2>1, <2>4, <3>2, <3>3, ReadStep
  <2> QED BY <2>2, <2>3, <2>4
<1>3. CASE FinalPut(w)
  <2>1. /\ WriteRental(w) /\ pc[w] = "final_put"
        /\ pc'[w] = "final_find" /\ ctx' = ctx /\ OthersStay(w)
    BY <1>1, <1>3 DEF FinalPut, OthersStay, Goto
  <2>2. pc[w] \in RentalLabels
    BY <2>1
  <2>3. pc'[w] # "idle" /\ ctx'[w].user = ctx[w].user /\ LocalOK(w)'
    BY <1>1, <2>1, <2>2, WriteOwn DEF LocalOK
  <2> QED BY <2>1, <2>2, <2>3, WriteOwn, ReadStep
<1>4. CASE FinalFind(w)
  <2>1. /\ pc[w] = "final_find" /\ \A v \in Workers \ {w} : pc'[v] = pc[v]
        /\ UNCHANGED <<accounts, reservations, rentals, settled, applied, failed>>
    BY <1>1, <1>4 DEF FinalFind, Goto, db, history
  <2>2. CASE ctx' = ctx /\ pc'[w] = "charge_get"
    <3>1. OthersStay(w) /\ LocalOK(w)'
      BY <1>1, <2>1, <2>2 DEF OthersStay, LocalOK
    <3> QED BY <2>1, <2>2, <3>1, ReadStep
  <2>3. CASE \E id \in ReservationIds : /\ reservations[id].user = ctx[w].user
                                        /\ ctx' = [ctx EXCEPT ![w].res = id] /\ pc'[w] = "settle_read"
    <3>1. PICK id \in ReservationIds : /\ reservations[id].user = ctx[w].user
                                       /\ ctx' = [ctx EXCEPT ![w].res = id] /\ pc'[w] = "settle_read"
      BY <2>3
    <3>2. /\ ctx'[w].res = id /\ ctx'[w].user = ctx[w].user /\ ctx'[w].amount = ctx[w].amount
          /\ ctx'[w].rental = ctx[w].rental /\ \A v \in Workers \ {w} : ctx'[v] = ctx[v]
      BY <1>1, <3>1, SetRes
    <3>3. LocalOK(w)' /\ OthersStay(w)
      BY <1>1, <2>1, <3>1, <3>2 DEF LocalOK, OthersStay
    <3> QED BY <2>1, <3>1, <3>2, <3>3, ReadStep
  <2> QED BY <1>1, <1>4, <2>2, <2>3 DEF FinalFind, ActiveFor, Goto
<1>5. CASE FinalReread(w)
  <2>1. /\ pc[w] = "final_reread" /\ pc'[w] = "final_rewrite"
        /\ ctx' = [ctx EXCEPT ![w].state = rentals[ctx[w].rental].state]
        /\ UNCHANGED <<accounts, reservations, rentals, settled, applied, failed>>
        /\ \A v \in Workers \ {w} : pc'[v] = pc[v]
    BY <1>1, <1>5 DEF FinalReread, ReadRental, Goto, db, history
  <2>2. rentals[ctx[w].rental].state \in RentalStates
    BY <1>1, <2>1 DEF CtxOK, Moved, Exists, IInv, TypeOK, NoRow, Rental
  <2>3. /\ ctx'[w].state = rentals[ctx[w].rental].state /\ ctx'[w].user = ctx[w].user
        /\ ctx'[w].rental = ctx[w].rental /\ \A v \in Workers \ {w} : ctx'[v] = ctx[v]
    BY <1>1, <2>1, <2>2, SetState
  <2>4. pc'[w] # "idle" /\ ctx'[w].user = ctx[w].user /\ LocalOK(w)' /\ OthersStay(w)
    BY <1>1, <2>1, <2>3 DEF LocalOK, OthersStay
  <2> QED BY <2>1, <2>4, ReadStep
<1>6. CASE FinalRewrite(w)
  <2>1. /\ pc[w] = "final_rewrite" /\ WriteRental(w) /\ Finish(w) /\ OthersStay(w) /\ pc'[w] = "idle"
    BY <1>1, <1>6 DEF FinalRewrite, OthersStay, Finish
  <2>2. pc[w] \in RentalLabels
    BY <2>1
  <2> QED BY <2>1, <2>2, WriteOwn, ReadStep
<1>7. CASE ChargeGet(w)
  <2>1. /\ pc[w] = "charge_get" /\ \A v \in Workers \ {w} : pc'[v] = pc[v]
        /\ UNCHANGED <<accounts, reservations, rentals, settled, applied, failed>>
    BY <1>1, <1>7 DEF ChargeGet, Goto, Finish, db, history
  <2>2. CASE Finish(w)
    <3>1. OthersStay(w) /\ pc'[w] = "idle"
      BY <1>1, <2>2 DEF OthersStay, Finish
    <3> QED BY <2>1, <2>2, <3>1, ReadStep
  <2>3. CASE /\ accounts[ctx[w].user] # NoAccount
             /\ pc'[w] = "charge_put" /\ ctx' = [ctx EXCEPT ![w].acct = accounts[ctx[w].user]]
    <3>1. accounts[ctx[w].user] \in Account
      BY <1>1, <2>1, <2>3 DEF CtxOK, IInv, TypeOK
    <3>2. /\ ctx'[w].acct = accounts[ctx[w].user] /\ ctx'[w].user = ctx[w].user
          /\ ctx'[w].amount = ctx[w].amount
          /\ ctx'[w].rental = ctx[w].rental /\ \A v \in Workers \ {w} : ctx'[v] = ctx[v]
      BY <1>1, <2>3, <3>1, SetAcct
    <3>3. LocalOK(w)' /\ OthersStay(w)
      BY <1>1, <2>1, <2>3, <3>2 DEF LocalOK, OthersStay
    <3> QED BY <2>1, <2>3, <3>2, <3>3, ReadStep
  <2> QED BY <1>1, <1>7, <2>2, <2>3 DEF ChargeGet, Goto
<1> QED BY <1>2, <1>3, <1>4, <1>5, <1>6, <1>7

\* TrackRental's own statements, and the check of charge_from_reservation.
LEMMA TrackSerial ==
  ASSUME IInv, IInv', SInv, Shrinks, NEW w \in Workers, TrackCreate(w) \/ TrackEvent(w) \/ SettleRead(w)
  PROVE  SInv' /\ Unseen
<1> USE DEF CopyLabels, CostLabels, SettleLabels, ReserveLabels, RentalLabels, StatusLabels, FinalLabels
<1>1. /\ pc \in [Workers -> Labels] /\ ctx \in [Workers -> Ctx] /\ rentals \in [RentalIds -> Rental \cup {NoRow}]
      /\ LocalOK(w) /\ CtxOK(w)
  BY DEF IInv, TypeOK, SInv
<1>2. CASE TrackCreate(w)
  <2>1. PICK r \in RentalIds :
          /\ pc[w] = "track_create" /\ ~Exists(rentals[r])
          /\ rentals' = [rentals EXCEPT ![r] = [user |-> ctx[w].user, state |-> "Pending"]]
          /\ IF ctx[w].after = "idle"
             THEN Finish(w)
             ELSE ctx' = [ctx EXCEPT ![w].rental = r] /\ Goto(w, "reserve_get")
          /\ UNCHANGED <<accounts, reservations, settled, applied, failed>>
    BY <1>2 DEF TrackCreate, history
  <2>2. \A q \in RentalIds : Exists(rentals[q]) => rentals'[q] = rentals[q]
    BY <1>1, <2>1
  <2>3. CASE Finish(w)
    <3>1. OthersStay(w) /\ pc'[w] = "idle"
      BY <1>1, <2>3 DEF OthersStay, Finish
    <3> QED BY <2>1, <2>2, <2>3, <3>1, ReadStep
  <2>4. CASE ctx' = [ctx EXCEPT ![w].rental = r] /\ Goto(w, "reserve_get")
    <3>1. /\ ctx'[w].user = ctx[w].user /\ ctx'[w].amount = ctx[w].amount
          /\ \A v \in Workers \ {w} : ctx'[v] = ctx[v]
      BY <1>1, <2>4, SetRental
    <3>2. pc'[w] = "reserve_get" /\ OthersStay(w)
      BY <1>1, <2>4, <3>1 DEF Goto, OthersStay
    <3>3. LocalOK(w)'
      BY <1>1, <2>1, <3>1, <3>2 DEF LocalOK
    <3> QED BY <2>1, <2>2, <3>1, <3>2, <3>3, ReadStep
  <2> QED BY <2>1, <2>3, <2>4
<1>3. CASE TrackEvent(w)
  <2>1. /\ pc[w] = "track_event" /\ Finish(w) /\ OthersStay(w) /\ pc'[w] = "idle"
        /\ UNCHANGED <<accounts, reservations, rentals, settled, applied, failed>>
    BY <1>1, <1>3 DEF TrackEvent, OthersStay, Finish, history
  <2> QED BY <2>1, ReadStep
<1>4. CASE SettleRead(w)
  <2>1. /\ pc[w] = "settle_read" /\ OthersStay(w)
        /\ UNCHANGED <<accounts, reservations, rentals, settled, applied, failed>>
    BY <1>1, <1>4 DEF SettleRead, OthersStay, Goto, Finish, db, history
  <2>2. \/ Finish(w)
        \/ ~reservations[ctx[w].res].released /\ pc'[w] = "settle_mark" /\ ctx'[w] = ctx[w]
    BY <1>1, <1>4 DEF SettleRead, Goto
  <2>3. Finish(w) \/ (pc'[w] # "idle" /\ ctx'[w].user = ctx[w].user /\ LocalOK(w)')
    BY <1>1, <2>1, <2>2 DEF LocalOK
  <2>4. pc'[w] \in {"idle", "settle_mark"}
    BY <1>1, <2>2 DEF Finish
  <2> QED BY <2>1, <2>3, <2>4, ReadStep
<1> QED BY <1>2, <1>3, <1>4

\* get_or_create_account, and GetBalance.
LEMMA GetSerial ==
  ASSUME IInv, IInv', SInv, Shrinks, NEW w \in Workers, ApplyGet(w) \/ ReserveGet(w) \/ BalanceGet(w)
  PROVE  SInv' /\ Unseen
<1> USE DEF CopyLabels, CostLabels, SettleLabels, ReserveLabels, RentalLabels, StatusLabels, FinalLabels
<1> DEFINE u == ctx[w].user
<1>1. /\ pc \in [Workers -> Labels] /\ ctx \in [Workers -> Ctx]
      /\ accounts \in [Users -> Account \cup {NoAccount}] /\ LocalOK(w) /\ CtxOK(w)
      /\ pc[w] \in {"apply_get", "reserve_get", "balance_get"} /\ u \in Users
  BY DEF IInv, TypeOK, SInv, CtxOK, ApplyGet, ReserveGet, BalanceGet
<1>2. AccountOf(u) \in Account /\ NoAccount \notin Account
  BY <1>1, BillingAssumption DEF AccountOf, NewAccount, Account
<1>3. /\ accounts' = [accounts EXCEPT ![u] = AccountOf(u)]
      /\ UNCHANGED <<reservations, rentals, settled, applied, failed>>
      /\ \A v \in Workers \ {w} : pc'[v] = pc[v]
  BY <1>1 DEF ApplyGet, ReserveGet, BalanceGet, GetOrCreateAccount, AccountOf, Goto, Finish, history
<1>4. accounts'[u] = AccountOf(u) /\ \A t \in Users \ {u} : accounts'[t] = accounts[t]
  BY <1>1, <1>3
<1>5. AccountsStay /\ \A t \in Users : AccountOf(t)' = AccountOf(t)
  BY <1>2, <1>4 DEF AccountsStay, AccountOf
<1>6. OwnRows(w)
  BY <1>3, <1>4 DEF OwnRows
<1>7. \A t \in Users : accounts[t] # NoAccount => accounts'[t] # NoAccount
  BY <1>2, <1>4
<1>8. RowsOK'
  BY <1>3, <1>7, RowsKept
<1>9. /\ OthersStay(w) /\ pc'[w] \in {"idle", "apply_put", "reserve_insert"}
      /\ Finish(w) \/ (pc'[w] # "idle" /\ ctx'[w].user = ctx[w].user /\ LocalOK(w)')
  <2>1. CASE Finish(w)
    BY <1>1, <2>1 DEF Finish, OthersStay
  <2>2. CASE pc'[w] \in {"apply_put", "reserve_insert"} /\ ctx' = [ctx EXCEPT ![w].acct = AccountOf(u)]
    <3>1. /\ ctx'[w].acct = AccountOf(u) /\ ctx'[w].user = u /\ ctx'[w].amount = ctx[w].amount
          /\ \A v \in Workers \ {w} : ctx'[v] = ctx[v]
      BY <1>1, <1>2, <2>2, SetAcct
    <3>2. pc'[w] = "reserve_insert" => pc[w] = "reserve_get"
      BY <1>1, <2>2 DEF ApplyGet, ReserveGet, BalanceGet, Goto, Finish
    <3>3. LocalOK(w)'
      BY <1>1, <1>4, <2>2, <3>1, <3>2 DEF LocalOK
    <3> QED BY <1>3, <2>2, <3>1, <3>3 DEF OthersStay
  <2> QED BY <1>1, <2>1, <2>2 DEF ApplyGet, ReserveGet, BalanceGet, GetOrCreateAccount, AccountOf, Goto
<1>10. HoldsStay
  BY <1>1, <1>3, <1>9, HoldsUntouched
<1>11. HeldOK'
  BY <1>1, <1>3, <1>5, <1>9, <1>10, HeldStays
<1> QED BY <1>3, <1>5, <1>6, <1>8, <1>9, <1>10, <1>11, HandlersKept, MoneyStays, Stutter DEF SInv

\* The UPDATE that marks the reservation: the hold stays open, now by its handler.
LEMMA MarkSerial ==
  ASSUME IInv, IInv', SInv, Shrinks, NEW w \in Workers, SettleMark(w)
  PROVE  SInv' /\ Unseen
<1> USE DEF CopyLabels, CostLabels, SettleLabels, ReserveLabels, RentalLabels, StatusLabels, FinalLabels
<1> PICK e : e = ctx[w].res
  OBVIOUS
<1>1. /\ pc \in [Workers -> Labels] /\ ctx \in [Workers -> Ctx]
      /\ reservations \in [ReservationIds -> Reservation \cup {NoRow}]
      /\ LocalOK(w) /\ CtxOK(w) /\ pc[w] = "settle_mark"
  BY DEF IInv, TypeOK, SInv, SettleMark
<1>2. /\ e \in ReservationIds /\ Exists(reservations[e]) /\ reservations[e].user = ctx[w].user
      /\ ~reservations[e].released
  BY <1>1 DEF CtxOK, LocalOK
<1>3. reservations[e] \in Reservation
  BY <1>1, <1>2 DEF Exists, NoRow
<1>4. /\ reservations' = [reservations EXCEPT ![e] = [reservations[e] EXCEPT !.released = TRUE]]
      /\ UNCHANGED <<accounts, rentals, settled, applied, failed>>
      /\ ctx' = ctx /\ pc'[w] = "settle_get" /\ OthersStay(w)
  BY <1>1 DEF SettleMark, Goto, OthersStay, history
<1>5. /\ reservations'[e].user = reservations[e].user /\ reservations'[e].amount = reservations[e].amount
      /\ reservations'[e].released
      /\ \A id \in ReservationIds \ {e} : reservations'[id] = reservations[id]
  BY <1>1, <1>2, <1>3, <1>4 DEF Reservation
<1>6. settled[e] = 0
  BY <1>2 DEF SInv, RowsOK, IInv, TypeOK
<1>7. HoldsStay
  <2> SUFFICES ASSUME NEW id \in ReservationIds PROVE HoldOf(id)' = HoldOf(id)
    BY DEF HoldsStay
  <2>1. CASE id = e
    <3>1. BeingSettled(e)'
      BY <1>4 DEF BeingSettled
    <3>2. HoldState(e) = "open"
      BY <1>2, <1>6, HoldFacts
    <3>3. HoldState(e)' = "open"
      BY <1>4, <1>6, <3>1 DEF HoldState
    <3>4. HoldOf(e)' = [HoldOf(e) EXCEPT !.state = "open"]
      BY <1>2, <1>5, <3>3, HoldMoves
    <3>5. HoldOf(e) = [state |-> "open", user |-> reservations[e].user, amount |-> reservations[e].amount]
      BY <1>2, <3>2, HoldFacts
    <3> QED BY <2>1, <3>4, <3>5
  <2>2. CASE id # e
    <3>1. Settling(w, id)' <=> Settling(w, id)
      BY <1>1, <1>4, <2>2 DEF Settling
    <3>2. BeingSettled(id)' <=> BeingSettled(id)
      BY <1>4, <3>1, SettlingKept
    <3> QED BY <1>4, <1>5, <2>2, <3>2, HoldKept
  <2> QED BY <2>1, <2>2
<1>8. OwnRows(w)
  BY <1>2, <1>4, <1>5 DEF OwnRows
<1>9. LocalOK(w)'
  BY <1>1, <1>4, <1>5, <1>6 DEF LocalOK
<1>10. AccountsStay /\ \A t \in Users : AccountOf(t)' = AccountOf(t)
  BY <1>4 DEF AccountsStay, AccountOf
<1>11. RowsOK'
  BY <1>4, <1>5, RowsKept
<1>12. HeldOK'
  BY <1>1, <1>4, <1>7, <1>10, HeldStays
<1> QED BY <1>4, <1>7, <1>8, <1>9, <1>10, <1>11, <1>12, HandlersKept, MoneyStays, Stutter DEF SInv

\* expires_at passes.
LEMMA ExpireSerial ==
  ASSUME IInv, IInv', SInv, Shrinks, NEW e \in ReservationIds, Expire(e)
  PROVE  SInv' /\ Unseen
<1>1. reservations \in [ReservationIds -> Reservation \cup {NoRow}] /\ reservations[e] \in Reservation
  BY DEF IInv, TypeOK, Expire, Exists, NoRow
<1>2. /\ reservations' = [reservations EXCEPT ![e] = [reservations[e] EXCEPT !.expired = TRUE]]
      /\ UNCHANGED <<accounts, rentals, pc, ctx, settled, applied, failed>>
  BY DEF Expire, history
<1>3. \A id \in ReservationIds :
        /\ reservations'[id].user = reservations[id].user /\ reservations'[id].amount = reservations[id].amount
        /\ reservations'[id].released = reservations[id].released
  BY <1>1, <1>2 DEF Reservation
<1>4. HoldsStay
  BY <1>2, <1>3, HoldKept DEF HoldsStay, BeingSettled
<1>5. AccountsStay /\ \A t \in Users : AccountOf(t)' = AccountOf(t)
  BY <1>2 DEF AccountsStay, AccountOf
<1>6. RowsOK'
  BY <1>2, <1>3, RowsKept
<1>7. OnePerUser' /\ HeldOK'
  <2>1. OnePerUser'
    BY <1>2 DEF SInv, OnePerUser
  <2>2. \A t \in Covered : HeldFor(t)' = HeldFor(t) /\ AccountOf(t)' = AccountOf(t)
    BY <1>4, <1>5, HeldSame, CoveredUsers
  <2>3. HeldOK'
    BY <1>2, <2>2 DEF SInv, HeldOK, Shrinks
  <2> QED BY <2>1, <2>3
<1>8. ASSUME NEW v \in Workers PROVE LocalOK(v)'
  <2>1. LocalOK(v) /\ CtxOK(v)
    BY DEF SInv, IInv
  <2>2. pc[v] \in {"settle_mark", "settle_get", "settle_put"} => pc[v] \in SettleLabels
    BY DEF SettleLabels
  <2> QED BY <1>2, <1>3, <2>1, <2>2 DEF LocalOK, CtxOK
<1> QED BY <1>2, <1>4, <1>5, <1>6, <1>7, <1>8, MoneyStays, Stutter DEF SInv

\* A request arrives for a user without one.
LEMMA BeginSerial ==
  ASSUME Serialise, IInv, IInv', SInv, Shrinks, NEW w \in Workers, NEW u \in Users, NEW l, NEW c, Begin(w, u, l, c),
         c.user = u, l \notin {"idle", "settle_get", "settle_put", "reserve_put"}, LocalOK(w)'
  PROVE  SInv' /\ Unseen
<1>1. /\ pc[w] = "idle" /\ pc'[w] = l /\ ctx'[w] = c /\ OthersStay(w)
      /\ UNCHANGED <<accounts, reservations, rentals, settled, applied, failed>>
      /\ \A v \in Workers : ctx[v].user # u
  BY DEF Begin, IInv, TypeOK, OthersStay, db, history
<1>2. OnePerUser'
  BY <1>1 DEF SInv, OnePerUser, OthersStay
<1>3. \A v \in Workers : LocalOK(v)'
  BY <1>1, NothingWritten, OtherLocals
<1>4. AccountsStay /\ \A t \in Users : AccountOf(t)' = AccountOf(t)
  BY <1>1 DEF AccountsStay, AccountOf
<1>5. HoldsStay
  BY <1>1, HoldsUntouched
<1>6. RowsOK'
  BY <1>1, RowsKept
<1>7. HeldOK'
  BY <1>1, <1>4, <1>5, HeldStays
<1> QED BY <1>1, <1>2, <1>3, <1>4, <1>5, <1>6, <1>7, MoneyStays, Stutter DEF SInv

\* Every request.
LEMMA RequestSerial ==
  ASSUME Serialise, IInv, IInv', SInv, Shrinks, NEW w \in Workers, Request(w)
  PROVE  SInv' /\ Unseen
<1> USE DEF CopyLabels, CostLabels, SettleLabels, ReserveLabels, RentalLabels, StatusLabels, FinalLabels
<1>0. NoCtx \in Ctx /\ NoCtx.after = "idle"
  BY NoCtxFields
<1>1. CASE \E u \in Users, x \in ApplyAmounts : ApplyCredits(w, u, x)
  <2> PICK u \in Users, x \in ApplyAmounts : ApplyCredits(w, u, x)
    BY <1>1
  <2> DEFINE c == [NoCtx EXCEPT !.user = u, !.amount = x]
  <2>1. c.user = u
    BY <1>0 DEF Ctx
  <2> HIDE DEF c
  <2>2. Begin(w, u, "apply_get", c)
    BY DEF ApplyCredits, c
  <2>3. LocalOK(w)'
    BY <2>2, BeginLands DEF LocalOK
  <2> QED BY <2>1, <2>2, <2>3, BeginSerial
<1>2. CASE \E u \in Users, x \in Costs, r \in RentalIds \cup {NoId} : ReserveCredits(w, u, x, r)
  <2> PICK u \in Users, x \in Costs, r \in RentalIds \cup {NoId} : ReserveCredits(w, u, x, r)
    BY <1>2
  <2> DEFINE c == [NoCtx EXCEPT !.user = u, !.amount = x, !.rental = r]
  <2>1. c.user = u /\ c.amount = x
    BY <1>0 DEF Ctx
  <2> HIDE DEF c
  <2>2. Begin(w, u, "reserve_get", c)
    BY DEF ReserveCredits, c
  <2>3. LocalOK(w)'
    BY <2>1, <2>2, BeginLands DEF LocalOK
  <2> QED BY <2>1, <2>2, <2>3, BeginSerial
<1>3. CASE \E u \in Users, x \in Costs, d \in HasDuration : TrackRental(w, u, x, d)
  <2> PICK u \in Users, x \in Costs, d \in HasDuration : TrackRental(w, u, x, d)
    BY <1>3
  <2> DEFINE c == [NoCtx EXCEPT !.user = u, !.amount = x, !.after = IF d THEN "track_event" ELSE "idle"]
  <2>1. c.user = u /\ c.amount = x
    BY <1>0 DEF Ctx
  <2> HIDE DEF c
  <2>2. Begin(w, u, "track_create", c)
    BY DEF TrackRental, c
  <2>3. LocalOK(w)'
    BY <2>1, <2>2, BeginLands DEF LocalOK
  <2> QED BY <2>1, <2>2, <2>3, BeginSerial
<1>4. CASE \E u \in Users : GetBalance(w, u)
  <2> PICK u \in Users : GetBalance(w, u)
    BY <1>4
  <2> DEFINE c == [NoCtx EXCEPT !.user = u]
  <2>1. c.user = u
    BY <1>0 DEF Ctx
  <2> HIDE DEF c
  <2>2. Begin(w, u, "balance_get", c)
    BY DEF GetBalance, c
  <2>3. LocalOK(w)'
    BY <2>2, BeginLands DEF LocalOK
  <2> QED BY <2>1, <2>2, <2>3, BeginSerial
<1>5. CASE \E id \in ReservationIds, x \in Costs : ReleaseReservation(w, id, x)
  <2> PICK id \in ReservationIds, x \in Costs : ReleaseReservation(w, id, x)
    BY <1>5
  <2> DEFINE u == reservations[id].user
             c == [NoCtx EXCEPT !.user = u, !.amount = x, !.res = id]
  <2>1. c.user = u /\ c.amount = x /\ c.res = id /\ c.after = "idle"
    BY <1>0 DEF Ctx
  <2>2. u \in Users
    BY DEF ReleaseReservation, IInv, TypeOK, Exists, NoRow, Reservation
  <2> HIDE DEF c
  <2>3. Begin(w, u, "settle_read", c)
    BY DEF ReleaseReservation, c
  <2>4. LocalOK(w)'
    BY <2>1, <2>3, BeginLands DEF LocalOK, db
  <2> QED BY <2>1, <2>2, <2>3, <2>4, BeginSerial
<1>6. CASE \E r \in RentalIds, s \in RequestedStates : UpdateRentalStatus(w, r, s)
  <2> PICK r \in RentalIds, s \in RequestedStates : UpdateRentalStatus(w, r, s)
    BY <1>6
  <2> DEFINE u == rentals[r].user
             c == [NoCtx EXCEPT !.user = u, !.rental = r, !.state = s]
  <2>1. c.user = u /\ c.rental = r
    BY <1>0 DEF Ctx
  <2>2. u \in Users
    BY DEF UpdateRentalStatus, IInv, TypeOK, Exists, NoRow, Rental
  <2> HIDE DEF c
  <2>3. Begin(w, u, "status_get", c)
    BY DEF UpdateRentalStatus, c
  <2>4. LocalOK(w)'
    BY <2>1, <2>3, BeginLands DEF LocalOK, db
  <2> QED BY <2>1, <2>2, <2>3, <2>4, BeginSerial
<1>7. CASE \E r \in RentalIds, x \in Costs : FinalizeRental(w, r, x)
  <2> PICK r \in RentalIds, x \in Costs : FinalizeRental(w, r, x)
    BY <1>7
  <2> DEFINE u == rentals[r].user
             c == [NoCtx EXCEPT !.user = u, !.rental = r, !.amount = x, !.after = "final_reread"]
  <2>1. c.user = u /\ c.rental = r /\ c.amount = x
    BY <1>0 DEF Ctx
  <2>2. u \in Users
    BY DEF FinalizeRental, IInv, TypeOK, Exists, NoRow, Rental
  <2> HIDE DEF c
  <2>3. Begin(w, u, "final_get", c)
    BY DEF FinalizeRental, c
  <2>4. LocalOK(w)'
    BY <2>1, <2>3, BeginLands DEF LocalOK, db
  <2> QED BY <2>1, <2>2, <2>3, <2>4, BeginSerial
<1> QED BY <1>1, <1>2, <1>3, <1>4, <1>5, <1>6, <1>7 DEF Request

-----------------------------------------------------------------------------
(* Steps of the ledger.                                                    *)

LedgerStep == [Abstract!Next]_(Abstract!vars)

\* What the ledger does not see is a step of it that changes nothing.
LEMMA UnseenStep == ASSUME Unseen PROVE LedgerStep
  BY DEF Unseen, LedgerStep

\* The sum in Ledger is the sum over the rows.
LEMMA SameSum ==
  ASSUME NEW f, NEW S
  PROVE  Abstract!SumFunctionOnSet(f, S) = SumFunctionOnSet(f, S)
<1>1. Abstract!SumFunctionOnSet(f, S) = (CHOOSE g : IsSumGraph(g, f, S))[S]
  BY DEF Abstract!SumFunctionOnSet, Abstract!FoldFunctionOnSet, Abstract!MapThenFoldSet, IsSumGraph, Pick
<1> QED BY <1>1, SumIsGraphValue

LEMMA HeldIs == ASSUME NEW u PROVE Abstract!Held(u) = HeldFor(u)
<1>1. \A id \in ReservationIds : Abstract!HeldBy(u, id) = HeldOf(u, id)
  BY DEF Abstract!HeldBy, Abstract!IsOpen, HeldOf
<1>2. [id \in ReservationIds |-> Abstract!HeldBy(u, id)] = [id \in ReservationIds |-> HeldOf(u, id)]
  BY <1>1
<1>3. Abstract!Held(u) = SumFunctionOnSet([id \in ReservationIds |-> Abstract!HeldBy(u, id)], ReservationIds)
  BY SameSum DEF Abstract!Held
<1> QED BY <1>2, <1>3, Zenon DEF HeldFor

\* A negative reservation is a negative hold.
SetOffBy(u) ==
  \E id \in ReservationIds :
    Exists(reservations[id]) /\ reservations[id].user = u /\ reservations[id].amount < 0

LEMMA SetOffIs == ASSUME IInv, NEW u, SetOffBy(u) PROVE Abstract!SetOff(u)
<1>1. PICK id \in ReservationIds :
        Exists(reservations[id]) /\ reservations[id].user = u /\ reservations[id].amount < 0
  BY DEF SetOffBy
<1>2. HoldOf(id).user = u /\ HoldOf(id).amount < 0 /\ HoldOf(id).state # "none"
  BY <1>1, HoldFacts
<1> QED BY <1>2 DEF Abstract!SetOff, Abstract!NoHold

\* The account of u has balance b and lifetime_spent s now, the others are as they were.
MoneyMoves(u, b, s) ==
  \A t \in Users : /\ AccountOf(t)'.balance = IF t = u THEN b ELSE AccountOf(t).balance
                   /\ AccountOf(t)'.spent = IF t = u THEN s ELSE AccountOf(t).spent

MoneyRests ==
  \A t \in Users : /\ AccountOf(t)'.balance = AccountOf(t).balance
                   /\ AccountOf(t)'.spent = AccountOf(t).spent

HoldsRest(e) == \A id \in ReservationIds \ {e} : HoldOf(id)' = HoldOf(id)

LEMMA IsApply ==
  ASSUME NEW u \in Users, NEW x \in ApplyAmounts, AccountOf(u).balance + x >= 0,
         MoneyMoves(u, AccountOf(u).balance + x, AccountOf(u).spent), HoldsStay, UNCHANGED failed
  PROVE  LedgerStep
<1>1. Abstract!Apply(u, x)
  BY DEF Abstract!Apply, MoneyMoves, HoldsStay
<1> QED BY <1>1 DEF LedgerStep, Abstract!Next

LEMMA IsCharge ==
  ASSUME NEW u \in Users, NEW x \in Costs, x <= AccountOf(u).balance,
         MoneyMoves(u, AccountOf(u).balance - x, AccountOf(u).spent + x), HoldsStay, UNCHANGED failed
  PROVE  LedgerStep
<1>1. Abstract!Charge(u, x)
  BY DEF Abstract!Charge, Abstract!Pay, MoneyMoves, HoldsStay
<1> QED BY <1>1 DEF LedgerStep, Abstract!Next

LEMMA IsHold ==
  ASSUME NEW e \in ReservationIds, NEW u \in Users, NEW x \in Costs, HoldOf(e) = [state |-> "none"],
         IInv, u \in failed \/ SetOffBy(u) \/ x <= 0 \/ HeldFor(u) + x <= AccountOf(u).balance,
         HoldOf(e)' = [state |-> "open", user |-> u, amount |-> x],
         HoldsRest(e), MoneyRests, UNCHANGED failed
  PROVE  LedgerStep
<1>1. u \in failed \/ Abstract!SetOff(u) \/ x <= 0 \/ Abstract!Held(u) + x <= AccountOf(u).balance
  BY HeldIs, SetOffIs
<1>2. Abstract!Hold(e, u, x)
  BY <1>1 DEF Abstract!Hold, Abstract!NoHold, MoneyRests, HoldsRest
<1> QED BY <1>2 DEF LedgerStep, Abstract!Next

LEMMA IsSettle ==
  ASSUME NEW e \in ReservationIds, NEW u \in Users, NEW x \in Costs,
         HoldOf(e).state = "open", HoldOf(e).user = u, x <= AccountOf(u).balance,
         HoldOf(e)' = [HoldOf(e) EXCEPT !.state = "settled"], HoldsRest(e),
         MoneyMoves(u, AccountOf(u).balance - x, AccountOf(u).spent + x), UNCHANGED failed
  PROVE  LedgerStep
<1> DEFINE h == [id \in ReservationIds |-> HoldOf(id)]
           k == [id \in ReservationIds |-> HoldOf(id)']
<1>1. h[e].user = u /\ h[e].state = "open"
  OBVIOUS
<1>2. k = [h EXCEPT ![e].state = "settled"]
  BY DEF HoldsRest
<1>3. Abstract!IsOpen(e)
  BY DEF Abstract!IsOpen
<1>4. Abstract!Pay(u, x)
  BY DEF Abstract!Pay, MoneyMoves
<1>5. Abstract!Settle(e, x)
  BY <1>1, <1>2, <1>3, <1>4 DEF Abstract!Settle
<1> QED BY <1>5 DEF LedgerStep, Abstract!Next

LEMMA IsRefuse ==
  ASSUME NEW e \in ReservationIds, NEW u \in Users, NEW x \in Costs,
         HoldOf(e).state = "open", HoldOf(e).user = u, x > AccountOf(u).balance,
         HoldOf(e)' = [HoldOf(e) EXCEPT !.state = "void"], HoldsRest(e), MoneyRests, UNCHANGED failed
  PROVE  LedgerStep
<1>1. Abstract!Refuse(e, x)
  BY DEF Abstract!Refuse, Abstract!IsOpen, MoneyRests, HoldsRest
<1> QED BY <1>1 DEF LedgerStep, Abstract!Next

LEMMA IsCut ==
  ASSUME NEW u \in Users, failed' = failed \cup {u}, MoneyRests, HoldsStay
  PROVE  LedgerStep
<1>1. Abstract!Cut(u)
  BY DEF Abstract!Cut, MoneyRests, HoldsStay
<1> QED BY <1>1 DEF LedgerStep, Abstract!Next

LEMMA IsCutVoid ==
  ASSUME NEW u \in Users, failed' = failed \cup {u}, MoneyRests, NEW e \in ReservationIds,
         HoldOf(e).state = "open", HoldOf(e).user = u,
         HoldOf(e)' = [HoldOf(e) EXCEPT !.state = "void"], HoldsRest(e)
  PROVE  LedgerStep
<1> DEFINE h == [id \in ReservationIds |-> HoldOf(id)]
           k == [id \in ReservationIds |-> HoldOf(id)']
<1>1. Abstract!IsOpen(e) /\ h[e].user = u
  BY DEF Abstract!IsOpen
<1>2. k = [h EXCEPT ![e].state = "void"]
  BY DEF HoldsRest
<1>3. Abstract!Cut(u)
  <2>1. /\ [t \in Users |-> AccountOf(t).balance]' = [t \in Users |-> AccountOf(t).balance]
        /\ [t \in Users |-> AccountOf(t).spent]' = [t \in Users |-> AccountOf(t).spent]
    BY DEF MoneyRests
  <2> QED BY <1>1, <1>2, <2>1, Zenon DEF Abstract!Cut
<1> QED BY <1>3 DEF LedgerStep, Abstract!Next

-----------------------------------------------------------------------------
(* Statements that write accounts and holds.                               *)

\* update_account, on one row.
LEMMA WriteAccount ==
  ASSUME IInv, NEW u \in Users, NEW row \in Account, accounts' = [accounts EXCEPT ![u] = row]
  PROVE  /\ AccountOf(u)' = row
         /\ \A t \in Users \ {u} : accounts'[t] = accounts[t] /\ AccountOf(t)' = AccountOf(t)
         /\ \A t \in Users : accounts[t] # NoAccount => accounts'[t] # NoAccount
<1>1. row # NoAccount /\ accounts'[u] = row /\ \A t \in Users \ {u} : accounts'[t] = accounts[t]
  BY BillingAssumption DEF IInv, TypeOK, Account
<1> QED BY <1>1 DEF AccountOf

\* The copy a handler holds is the row it will overwrite.
LEMMA CopyIsRow ==
  ASSUME IInv, SInv, NEW w \in Workers, pc[w] \in CopyLabels
  PROVE  /\ ctx[w].user \in Users /\ ctx[w].acct \in Account
         /\ accounts[ctx[w].user] = ctx[w].acct
         /\ AccountOf(ctx[w].user) = ctx[w].acct
<1>1. ctx[w].user \in Users /\ ctx[w].acct \in Account
  BY DEF IInv, TypeOK, Ctx, CtxOK, CopyLabels
<1>2. accounts[ctx[w].user] = ctx[w].acct
  BY DEF SInv, LocalOK
<1> QED BY <1>1, <1>2, BillingAssumption DEF AccountOf, Account

\* The columns of a row that was charged.
LEMMA ChargedFields ==
  ASSUME NEW a \in Account, NEW x \in Int, CanCharge(a, x)
  PROVE  /\ Charged(a, x) \in Account
         /\ Charged(a, x).balance = a.balance - x
         /\ Charged(a, x).spent = a.spent + x
         /\ Charged(a, x).reserved = a.reserved
<1> DEFINE b == a.balance - x
           t == a.spent + x
<1>1. b \in Nat /\ t \in Int
  BY DEF CanCharge, Account
<1>2. Charged(a, x) = [a EXCEPT !.balance = b, !.spent = t]
  BY DEF Charged
<1> HIDE DEF b, t
<1>3. Charged(a, x) \in Account /\ Charged(a, x).balance = b /\ Charged(a, x).spent = t
      /\ Charged(a, x).reserved = a.reserved
  BY <1>1, <1>2 DEF Account
<1> QED BY <1>3 DEF b, t

\* A user's part of HeldOK.
HeldAt(u) ==
  /\ (\A w \in Workers : ctx[w].user = u => pc[w] # "reserve_put")
     => HeldFor(u) <= AccountOf(u).reserved
  /\ \A w \in Workers : ctx[w].user = u /\ pc[w] = "reserve_put"
     => HeldFor(u) <= AccountOf(u).reserved + ctx[w].amount

\* The users that a step is not about.
LEMMA HeldOthers ==
  ASSUME IInv, SInv, NEW w \in Workers, OthersStay(w), NEW t \in Covered, t # ctx[w].user,
         ctx'[w].user \in {ctx[w].user, NoId}, HeldFor(t)' = HeldFor(t),
         AccountOf(t)'.reserved = AccountOf(t).reserved
  PROVE  HeldAt(t)'
<1>1. HeldAt(t)
  BY DEF SInv, HeldOK, HeldAt
<1>2. ctx[w].user # t /\ ctx'[w].user # t
  BY BillingAssumption, CoveredUsers
<1>3. \A v \in Workers : ctx'[v].user = t <=> ctx[v].user = t
  BY <1>2 DEF OthersStay
<1>4. \A v \in Workers : ctx[v].user = t => pc'[v] = pc[v] /\ ctx'[v].amount = ctx[v].amount
  BY <1>2 DEF OthersStay
<1> QED BY <1>1, <1>3, <1>4 DEF HeldAt

\* An open hold of a user is not held by another.
LEMMA HeldElsewhere ==
  ASSUME IInv, IInv', NEW e \in ReservationIds, HoldsRest(e), NEW u, NEW t, t # u,
         HoldOf(e).state = "open" => HoldOf(e).user = u,
         HoldOf(e)'.state = "open" => HoldOf(e)'.user = u
  PROVE  HeldFor(t)' = HeldFor(t)
<1>1. HeldFor(t)' = HeldFor(t) + (HeldOf(t, e)' - HeldOf(t, e))
  BY HeldChange DEF HoldsRest
<1>2. HeldOf(t, e)' = 0 /\ HeldOf(t, e) = 0
  BY DEF HeldOf
<1>3. HeldFor(t) \in Int
  BY HeldType
<1> QED BY <1>1, <1>2, <1>3

\* ApplyCredits writes.
LEMMA ApplyPutSerial ==
  ASSUME IInv, IInv', SInv, Shrinks, NEW w \in Workers, ApplyPut(w)
  PROVE  SInv' /\ LedgerStep
<1> PICK u, x, a : u = ctx[w].user /\ x = ctx[w].amount /\ a = ctx[w].acct
  OBVIOUS
<1>1. /\ pc[w] = "apply_put" /\ Finish(w) /\ OthersStay(w) /\ pc'[w] = "idle"
      /\ UNCHANGED <<reservations, rentals, settled, failed>>
  BY DEF ApplyPut, Finish, OthersStay, IInv, TypeOK
<1>2. u \in Users /\ a \in Account /\ AccountOf(u) = a /\ x \in ApplyAmounts /\ x \in Int
  BY <1>1, CopyIsRow, BillingAssumption DEF CopyLabels, IInv, CtxOK
<1>3. HoldsStay
  BY <1>1, HoldsUntouched
<1>4. CASE a.balance + x >= 0
  <2> DEFINE row == [a EXCEPT !.balance = a.balance + x]
  <2>1. row \in Account /\ row.balance = a.balance + x /\ row.spent = a.spent /\ row.reserved = a.reserved
    BY <1>2, <1>4 DEF Account
  <2>2. row = WithCredits(a, x)
    BY DEF WithCredits
  <2> HIDE DEF row
  <2>3. accounts' = [accounts EXCEPT ![u] = row] /\ applied' = [applied EXCEPT ![u] = applied[u] + x]
    BY <1>4, <2>1, <2>2 DEF ApplyPut, UpdateAccount
  <2>4. /\ AccountOf(u)' = row
        /\ \A t \in Users \ {u} : accounts'[t] = accounts[t] /\ AccountOf(t)' = AccountOf(t)
        /\ \A t \in Users : accounts[t] # NoAccount => accounts'[t] # NoAccount
    BY <1>2, <2>1, <2>3, WriteAccount
  <2>5. OwnRows(w)
    BY <1>1, <2>4 DEF OwnRows
  <2>6. RowsOK'
    BY <1>1, <2>4, RowsKept
  <2>7. MoneyOK'
    <3> SUFFICES ASSUME NEW t \in Users PROVE Total(AccountOf(t)') = applied'[t]
      BY DEF MoneyOK, Total
    <3>1. Total(AccountOf(t)) = applied[t] /\ applied \in [Users -> Int]
      BY DEF SInv, MoneyOK, IInv, TypeOK
    <3>2. CASE t = u
      BY <1>2, <2>1, <2>3, <2>4, <3>1, <3>2 DEF Total, Account
    <3>3. CASE t # u
      BY <2>3, <2>4, <3>1, <3>3
    <3> QED BY <3>2, <3>3
  <2>8. \A t \in Users : AccountOf(t)'.reserved = AccountOf(t).reserved
    BY <1>2, <2>1, <2>4
  <2>9. HeldOK'
    BY <1>1, <1>3, <2>8, HeldStays
  <2>10. MoneyMoves(u, AccountOf(u).balance + x, AccountOf(u).spent)
    BY <1>2, <2>1, <2>4 DEF MoneyMoves
  <2>11. LedgerStep
    BY <1>1, <1>2, <1>3, <1>4, <2>10, IsApply
  <2> QED BY <1>1, <2>5, <2>6, <2>7, <2>9, <2>11, HandlersKept DEF SInv
<1>5. CASE ~(a.balance + x >= 0)
  <2>1. WithCredits(a, x).balance = a.balance + x
    BY <1>2 DEF WithCredits, Account
  <2>2. UNCHANGED <<accounts, applied>>
    BY <1>5, <2>1 DEF ApplyPut
  <2> QED BY <1>1, <2>2, ReadStep, UnseenStep
<1> QED BY <1>4, <1>5

\* charge_credits writes.
LEMMA ChargePutSerial ==
  ASSUME IInv, IInv', SInv, Shrinks, NEW w \in Workers, ChargePut(w)
  PROVE  SInv' /\ LedgerStep
<1> USE DEF CopyLabels, CostLabels, SettleLabels, ReserveLabels, RentalLabels, StatusLabels, FinalLabels
<1> PICK u, x, a : u = ctx[w].user /\ x = ctx[w].amount /\ a = ctx[w].acct
  OBVIOUS
<1>1. /\ pc[w] = "charge_put" /\ pc'[w] = "final_reread" /\ ctx' = ctx /\ OthersStay(w)
      /\ UNCHANGED <<reservations, rentals, settled, applied, failed>>
  BY DEF ChargePut, Goto, OthersStay, IInv, TypeOK, history
<1>2. u \in Users /\ a \in Account /\ AccountOf(u) = a
  BY <1>1, CopyIsRow
<1>3. CanCharge(a, x) /\ x \in Costs /\ x \in Int
  BY <1>1, BillingAssumption DEF IInv, CtxOK, SInv, LocalOK
<1>4. HoldsStay
  BY <1>1, HoldsUntouched
<1> PICK row : row = Charged(a, x)
  OBVIOUS
<1>5. /\ row \in Account /\ row.balance = a.balance - x /\ row.spent = a.spent + x
      /\ row.reserved = a.reserved
  BY <1>2, <1>3, ChargedFields
<1>7. accounts' = [accounts EXCEPT ![u] = row]
  BY DEF ChargePut, UpdateAccount
<1>8. /\ AccountOf(u)' = row
      /\ \A t \in Users \ {u} : accounts'[t] = accounts[t] /\ AccountOf(t)' = AccountOf(t)
      /\ \A t \in Users : accounts[t] # NoAccount => accounts'[t] # NoAccount
  BY <1>2, <1>5, <1>7, WriteAccount
<1>9. OwnRows(w)
  BY <1>1, <1>8 DEF OwnRows
<1>10. RowsOK'
  BY <1>1, <1>8, RowsKept
<1>11. MoneyOK'
  <2> SUFFICES ASSUME NEW t \in Users PROVE Total(AccountOf(t)') = applied[t]
    BY <1>1 DEF MoneyOK, Total
  <2>1. Total(AccountOf(t)) = applied[t]
    BY DEF SInv, MoneyOK
  <2> QED BY <1>2, <1>3, <1>5, <1>8, <2>1 DEF Total, Account
<1>12. \A t \in Users : AccountOf(t)'.reserved = AccountOf(t).reserved
  BY <1>2, <1>5, <1>8
<1>13. HeldOK'
  BY <1>1, <1>4, <1>12, HeldStays
<1>14. MoneyMoves(u, AccountOf(u).balance - x, AccountOf(u).spent + x)
  BY <1>2, <1>5, <1>8 DEF MoneyMoves
<1>15. x <= AccountOf(u).balance
  BY <1>2, <1>3 DEF CanCharge, Account
<1>16. LedgerStep
  BY <1>1, <1>2, <1>3, <1>4, <1>14, <1>15, IsCharge
<1>17. LocalOK(w)'
  <2>1. LocalOK(w)
    BY DEF SInv
  <2> QED BY <1>1, <2>1 DEF LocalOK
<1> QED BY <1>1, <1>9, <1>10, <1>11, <1>13, <1>16, <1>17, HandlersKept DEF SInv

-----------------------------------------------------------------------------
(* Statements on reservations.                                             *)

\* The INSERT of a reservation makes a hold that is covered.
LEMMA InsertSerial ==
  ASSUME IInv, IInv', SInv, Shrinks, NEW w \in Workers, ReserveInsert(w)
  PROVE  SInv' /\ LedgerStep
<1> USE DEF CopyLabels, CostLabels, SettleLabels, ReserveLabels, RentalLabels, StatusLabels, FinalLabels
<1> PICK u, x, a : u = ctx[w].user /\ x = ctx[w].amount /\ a = ctx[w].acct
  OBVIOUS
<1>1. /\ pc[w] = "reserve_insert"
      /\ UNCHANGED <<accounts, rentals, settled, applied, failed>>
      /\ pc \in [Workers -> Labels] /\ ctx \in [Workers -> Ctx]
      /\ reservations \in [ReservationIds -> Reservation \cup {NoRow}]
  BY DEF ReserveInsert, history, IInv, TypeOK
<1>2. u \in Users /\ a \in Account /\ AccountOf(u) = a /\ accounts[u] # NoAccount
  BY <1>1, CopyIsRow, BillingAssumption DEF Account
<1>3. x \in Costs /\ x \in Int
  BY <1>1, BillingAssumption DEF SInv, LocalOK
<1>4. CASE ~(AvailableBalance(a) >= x)
  <2>1. Finish(w) /\ UNCHANGED reservations
    BY <1>4 DEF ReserveInsert
  <2>2. OthersStay(w) /\ pc'[w] = "idle"
    BY <1>1, <2>1 DEF Finish, OthersStay
  <2> QED BY <1>1, <2>1, <2>2, ReadStep, UnseenStep
<1>5. CASE AvailableBalance(a) >= x
  <2>1. PICK e \in ReservationIds :
          /\ ~Exists(reservations[e])
          /\ reservations' = [reservations EXCEPT ![e] =
               [user |-> u, rental |-> ctx[w].rental, amount |-> x, released |-> FALSE, expired |-> FALSE]]
          /\ Goto(w, "reserve_put") /\ ctx' = ctx
    BY <1>5 DEF ReserveInsert
  <2>2. pc'[w] = "reserve_put" /\ OthersStay(w)
    BY <1>1, <2>1 DEF Goto, OthersStay
  <2>3. /\ reservations'[e].user = u /\ reservations'[e].amount = x /\ ~reservations'[e].released
        /\ Exists(reservations'[e])
        /\ \A id \in ReservationIds \ {e} : reservations'[id] = reservations[id]
    BY <1>1, <1>2, <2>1, BillingAssumption DEF Exists
  <2>4. settled[e] = 0
    BY <2>1 DEF SInv, RowsOK, IInv, TypeOK
  <2>5. HoldOf(e) = [state |-> "none"]
    BY <2>1, HoldFacts
  <2>6. HoldOf(e)' = [state |-> "open", user |-> u, amount |-> x]
    <3>1. HoldState(e)' = "open"
      BY <1>1, <2>3, <2>4 DEF HoldState
    <3> QED BY <2>3, <3>1 DEF HoldOf
  <2>7. HoldsRest(e)
    <3> SUFFICES ASSUME NEW id \in ReservationIds \ {e} PROVE HoldOf(id)' = HoldOf(id)
      BY DEF HoldsRest
    <3>1. Settling(w, id)' <=> Settling(w, id)
      BY <1>1, <2>2 DEF Settling
    <3>2. BeingSettled(id)' <=> BeingSettled(id)
      BY <2>2, <3>1, SettlingKept
    <3> QED BY <1>1, <2>3, <3>2, HoldKept
  <2>8. OwnRows(w)
    BY <1>1, <2>1, <2>3 DEF OwnRows
  <2>9. LocalOK(w)'
    <3>1. LocalOK(w)
      BY DEF SInv
    <3> QED BY <1>1, <2>1, <2>2, <3>1 DEF LocalOK
  <2>10. AccountsStay /\ MoneyRests /\ \A t \in Users : AccountOf(t)' = AccountOf(t)
    BY <1>1 DEF AccountsStay, AccountOf, MoneyRests
  <2>11. RowsOK'
    BY <1>1, <1>2, <2>3, <2>4 DEF SInv, RowsOK
  <2>12. u \in Covered => HeldFor(u) <= a.reserved
    <3>1. \A v \in Workers : ctx[v].user = u => pc[v] # "reserve_put"
      BY <1>1, <1>2, BillingAssumption DEF SInv, OnePerUser
    <3> QED BY <1>2, <3>1 DEF SInv, HeldOK
  <2>13. HeldFor(u) \in Int /\ HeldFor(u)' = HeldFor(u) + x
    <3>1. HeldFor(u)' = HeldFor(u) + (HeldOf(u, e)' - HeldOf(u, e))
      BY <2>7, HeldChange DEF HoldsRest
    <3>2. HeldOf(u, e)' = x /\ HeldOf(u, e) = 0
      BY <2>5, <2>6 DEF HeldOf
    <3>3. HeldFor(u) \in Int
      BY HeldType
    <3> QED BY <1>3, <3>1, <3>2, <3>3
  <2>14. HeldOK'
    <3> SUFFICES ASSUME NEW t \in Covered PROVE HeldAt(t)'
      BY DEF HeldOK, HeldAt, Shrinks
    <3>1. CASE t = u
      <4>1. HeldFor(t)' <= AccountOf(t)'.reserved + x
        BY <1>2, <1>3, <2>10, <2>12, <2>13, <3>1 DEF Account
      <4>2. ASSUME NEW v \in Workers, ctx'[v].user = t PROVE v = w
        BY <1>2, <2>1, <3>1, <4>2, BillingAssumption DEF SInv, OnePerUser
      <4> QED BY <2>1, <2>2, <3>1, <4>1, <4>2 DEF HeldAt
    <3>2. CASE t # u
      <4>1. HeldFor(t)' = HeldFor(t)
        BY <2>5, <2>6, <2>7, <3>2, HeldElsewhere
      <4> QED BY <2>1, <2>2, <2>10, <3>2, <4>1, HeldOthers, CoveredUsers
    <3> QED BY <3>1, <3>2
  <2>15. u \in failed \/ SetOffBy(u) \/ x <= 0 \/ HeldFor(u) + x <= AccountOf(u).balance
    <3>1. CASE u \notin Covered
      <4>1. u \in failed \/ SetOffBy(u)
        <5>1. \A id \in ReservationIds : Exists(reservations[id]) => reservations[id].amount \in Int
          BY HoldFacts
        <5> QED BY <1>2, <3>1, <5>1 DEF Covered, SetOffBy
      <4> QED BY <4>1
    <3>2. CASE u \in Covered
      BY <1>2, <1>3, <1>5, <2>12, <2>13, <3>2 DEF AvailableBalance, Account
    <3> QED BY <3>1, <3>2
  <2>16. LedgerStep
    BY <1>1, <1>2, <1>3, <2>5, <2>6, <2>7, <2>10, <2>15, IsHold
  <2> QED BY <1>1, <2>1, <2>2, <2>8, <2>9, <2>10, <2>11, <2>14, <2>16, HandlersKept, MoneyStays DEF SInv
<1> QED BY <1>4, <1>5

\* The UPDATE that adds the reservation to reserved.
LEMMA ReservePutSerial ==
  ASSUME IInv, IInv', SInv, Shrinks, NEW w \in Workers, ReservePut(w)
  PROVE  SInv' /\ LedgerStep
<1> USE DEF CopyLabels, CostLabels, SettleLabels, ReserveLabels, RentalLabels, StatusLabels, FinalLabels
<1> PICK u, x, a : u = ctx[w].user /\ x = ctx[w].amount /\ a = ctx[w].acct
  OBVIOUS
<1>1. /\ pc[w] = "reserve_put"
      /\ UNCHANGED <<reservations, rentals, settled, applied, failed>>
      /\ pc \in [Workers -> Labels] /\ ctx \in [Workers -> Ctx]
  BY DEF ReservePut, history, IInv, TypeOK
<1>2. u \in Users /\ a \in Account /\ AccountOf(u) = a /\ x \in Int
  BY <1>1, CopyIsRow DEF IInv, CtxOK
<1>3. /\ OthersStay(w) /\ pc'[w] \in {"idle", "track_event"} /\ ctx'[w].user \in {u, NoId}
      /\ Finish(w) \/ (pc'[w] # "idle" /\ ctx' = ctx)
  BY <1>1 DEF ReservePut, Finish, Goto, OthersStay, IInv, CtxOK, NoCtx
<1> DEFINE row == [a EXCEPT !.reserved = a.reserved + x]
<1>4. /\ row.balance = a.balance /\ row.spent = a.spent /\ row.reserved = a.reserved + x
      /\ row.reserved >= 0 => row \in Account
  BY <1>2 DEF Account
<1>5. row = WithReserved(a, x)
  BY DEF WithReserved
<1> HIDE DEF row
<1>6. /\ row.reserved >= 0 => accounts' = [accounts EXCEPT ![u] = row]
      /\ ~(row.reserved >= 0) => UNCHANGED accounts
  BY <1>5 DEF ReservePut, UpdateAccount
<1>7. /\ AccountOf(u)' = IF row.reserved >= 0 THEN row ELSE a
      /\ \A t \in Users \ {u} : accounts'[t] = accounts[t] /\ AccountOf(t)' = AccountOf(t)
      /\ \A t \in Users : accounts[t] # NoAccount => accounts'[t] # NoAccount
  <2>1. CASE row.reserved >= 0
    BY <1>2, <1>4, <1>6, <2>1, WriteAccount
  <2>2. CASE ~(row.reserved >= 0)
    BY <1>2, <1>6, <2>2 DEF AccountOf
  <2> QED BY <2>1, <2>2
<1>8. HoldsStay
  BY <1>1, <1>3, HoldsUntouched
<1>9. OwnRows(w)
  BY <1>1, <1>7 DEF OwnRows
<1>10. RowsOK'
  BY <1>1, <1>7, RowsKept
<1>11. MoneyRests
  BY <1>2, <1>4, <1>7 DEF MoneyRests
<1>12. MoneyOK'
  BY <1>1, <1>11 DEF SInv, MoneyOK, MoneyRests, Total
<1>13. HeldOK'
  <2> SUFFICES ASSUME NEW t \in Covered PROVE HeldAt(t)'
    BY DEF HeldOK, HeldAt, Shrinks
  <2>1. CASE t = u
    <3>1. HeldFor(u) <= a.reserved + x
      BY <1>1, <1>2, <2>1 DEF SInv, HeldOK
    <3>2. HeldFor(u)' <= AccountOf(u)'.reserved
      <4>1. HeldFor(u)' = HeldFor(u) /\ HeldFor(u) \in Int /\ a.reserved \in Nat
        BY <1>2, <1>8, HeldSame, HeldType DEF Account
      <4> QED BY <1>2, <1>4, <1>7, <3>1, <4>1
    <3>3. ASSUME NEW v \in Workers, ctx'[v].user = u PROVE v = w
      BY <1>2, <1>3, <3>3, BillingAssumption DEF SInv, OnePerUser, OthersStay
    <3> QED BY <1>3, <2>1, <3>2, <3>3 DEF HeldAt
  <2>2. CASE t # u
    BY <1>3, <1>7, <1>8, <2>2, HeldSame, HeldOthers, CoveredUsers
  <2> QED BY <2>1, <2>2
<1>14. Finish(w) \/ (pc'[w] # "idle" /\ ctx'[w].user = ctx[w].user /\ LocalOK(w)')
  BY <1>3 DEF LocalOK
<1>15. LedgerStep
  BY <1>1, <1>8, <1>11, Stutter, UnseenStep DEF MoneyRests
<1> QED BY <1>3, <1>9, <1>10, <1>12, <1>13, <1>14, <1>15, HandlersKept DEF SInv

\* A handler stops settling its reservation.
LEMMA SettlerLeaves ==
  ASSUME IInv, SInv, NEW w \in Workers, OthersStay(w), NEW e, e = ctx[w].res,
         pc[w] \in {"settle_get", "settle_put"}, pc'[w] \notin {"settle_get", "settle_put"},
         UNCHANGED reservations, \A id \in ReservationIds \ {e} : settled'[id] = settled[id]
  PROVE  /\ e \in ReservationIds /\ Exists(reservations[e]) /\ reservations[e].user = ctx[w].user
         /\ reservations[e].released /\ settled[e] = 0
         /\ HoldOf(e).state = "open" /\ HoldOf(e).user = ctx[w].user
         /\ HoldOf(e).amount = reservations[e].amount
         /\ settled'[e] = 0 => HoldOf(e)' = [HoldOf(e) EXCEPT !.state = "void"]
         /\ settled'[e] > 0 => HoldOf(e)' = [HoldOf(e) EXCEPT !.state = "settled"]
         /\ HoldsRest(e)
<1>1. /\ e \in ReservationIds /\ Exists(reservations[e]) /\ reservations[e].user = ctx[w].user
      /\ reservations[e].released /\ settled[e] = 0
  BY DEF IInv, CtxOK, SInv, LocalOK, SettleLabels
<1>2. Settling(w, e)
  BY DEF Settling
<1>3. BeingSettled(e)
  BY <1>2 DEF BeingSettled, Settling
<1>4. HoldState(e) = "open"
  BY <1>1, <1>3, HoldFacts
<1>5. HoldOf(e).state = "open" /\ HoldOf(e).user = ctx[w].user /\ HoldOf(e).amount = reservations[e].amount
  BY <1>1, <1>4, HoldFacts
<1>6. \A v \in Workers : v # w => ~Settling(v, e)
  BY <1>2, OneSettles
<1>7. ~BeingSettled(e)'
  BY <1>6 DEF BeingSettled, Settling, OthersStay
<1>8. HoldOf(e)' = [HoldOf(e) EXCEPT !.state = HoldState(e)']
  BY <1>1, HoldMoves
<1>9. settled'[e] = 0 => HoldState(e)' = "void"
  BY <1>1, <1>7 DEF HoldState
<1>10. settled'[e] > 0 => HoldState(e)' = "settled"
  BY DEF HoldState
<1>11. HoldsRest(e)
  <2> SUFFICES ASSUME NEW id \in ReservationIds \ {e} PROVE HoldOf(id)' = HoldOf(id)
    BY DEF HoldsRest
  <2>1. Settling(w, id)' <=> Settling(w, id)
    BY DEF Settling
  <2>2. BeingSettled(id)' <=> BeingSettled(id)
    BY <2>1, SettlingKept
  <2> QED BY <2>2, HoldKept
<1>12. settled'[e] = 0 => HoldOf(e)' = [HoldOf(e) EXCEPT !.state = "void"]
  BY <1>8, <1>9
<1>13. settled'[e] > 0 => HoldOf(e)' = [HoldOf(e) EXCEPT !.state = "settled"]
  BY <1>8, <1>10
<1> QED BY <1>1, <1>5, <1>11, <1>12, <1>13

\* What a hold that is closed no longer holds.
LEMMA HoldCloses ==
  ASSUME IInv, IInv', NEW e \in ReservationIds, HoldsRest(e), NEW u, HoldOf(e).user = u,
         HoldOf(e).state = "open", HoldOf(e)'.state # "open"
  PROVE  /\ HeldFor(u) \in Int /\ HeldFor(u)' \in Int
         /\ HeldFor(u)' = HeldFor(u) - HoldOf(e).amount
         /\ HoldOf(e).amount \in Int
         /\ \A t : t # u => HeldFor(t)' = HeldFor(t)
<1>1. HeldFor(u)' = HeldFor(u) + (HeldOf(u, e)' - HeldOf(u, e))
  BY HeldChange DEF HoldsRest
<1>2. HeldOf(u, e)' = 0 /\ HeldOf(u, e) = HoldOf(e).amount
  BY DEF HeldOf
<1>3. HeldFor(u) \in Int /\ HeldOf(u, e) \in Int
  BY HeldType
<1>4. \A t : t # u => HeldFor(t)' = HeldFor(t)
  BY HeldElsewhere
<1> QED BY <1>1, <1>2, <1>3, <1>4

\* The read of the account: charge_from_reservation may be refused now.
LEMMA SettleGetSerial ==
  ASSUME IInv, IInv', SInv, Shrinks, NEW w \in Workers, SettleGet(w)
  PROVE  SInv' /\ LedgerStep
<1> USE DEF CopyLabels, CostLabels, SettleLabels, ReserveLabels, RentalLabels, StatusLabels, FinalLabels
<1> PICK u, x, e : u = ctx[w].user /\ x = ctx[w].amount /\ e = ctx[w].res
  OBVIOUS
<1>1. /\ pc[w] = "settle_get" /\ \A v \in Workers \ {w} : pc'[v] = pc[v]
      /\ UNCHANGED <<accounts, reservations, rentals, settled, applied, failed>>
      /\ pc \in [Workers -> Labels] /\ ctx \in [Workers -> Ctx]
  BY DEF SettleGet, Goto, Finish, db, history, IInv, TypeOK
<1>2. /\ u \in Users /\ x \in Costs /\ x \in Int /\ e \in ReservationIds
      /\ Exists(reservations[e]) /\ reservations[e].user = u
  BY <1>1, BillingAssumption DEF IInv, CtxOK, SInv, LocalOK
<1>3. accounts[u] # NoAccount /\ accounts[u] \in Account /\ AccountOf(u) = accounts[u]
  BY <1>2 DEF SInv, RowsOK, IInv, TypeOK, AccountOf
<1>4. AccountsStay /\ MoneyRests /\ \A t \in Users : AccountOf(t)' = AccountOf(t)
  BY <1>1 DEF AccountsStay, MoneyRests, AccountOf
<1>5. OwnRows(w) /\ RowsOK' /\ MoneyOK'
  BY <1>1, <1>4, NothingWritten, RowsKept, MoneyStays
<1>6. CASE CanCharge(accounts[u], x)
  <2>1. ctx' = [ctx EXCEPT ![w].acct = accounts[u]] /\ pc'[w] = "settle_put"
    BY <1>1, <1>3, <1>6 DEF SettleGet, Goto
  <2>2. /\ ctx'[w].acct = accounts[u] /\ ctx'[w].user = u /\ ctx'[w].amount = x /\ ctx'[w].res = e
        /\ ctx'[w].rental = ctx[w].rental /\ ctx'[w].after = ctx[w].after
        /\ \A v \in Workers \ {w} : ctx'[v] = ctx[v]
    BY <1>1, <1>3, <2>1, SetAcct
  <2>3. OthersStay(w)
    BY <1>1, <2>2 DEF OthersStay
  <2>4. LocalOK(w)'
    <3>1. LocalOK(w)
      BY DEF SInv
    <3> QED BY <1>1, <2>1, <2>2, <3>1 DEF LocalOK
  <2>5. HoldsStay
    <3> SUFFICES ASSUME NEW id \in ReservationIds PROVE HoldOf(id)' = HoldOf(id)
      BY DEF HoldsStay
    <3>1. Settling(w, id)' <=> Settling(w, id)
      BY <1>1, <2>1, <2>2 DEF Settling
    <3>2. BeingSettled(id)' <=> BeingSettled(id)
      BY <2>3, <3>1, SettlingKept
    <3> QED BY <1>1, <3>2, HoldKept
  <2>6. HeldOK'
    BY <1>1, <1>4, <2>1, <2>3, <2>5, HeldStays
  <2>7. LedgerStep
    BY <1>1, <1>4, <2>5, Stutter, UnseenStep
  <2> QED BY <1>5, <2>1, <2>2, <2>3, <2>4, <2>6, <2>7, HandlersKept DEF SInv
<1>7. CASE ~CanCharge(accounts[u], x)
  <2>1. Finish(w)
    BY <1>7 DEF SettleGet
  <2>2. OthersStay(w) /\ pc'[w] = "idle"
    BY <1>1, <2>1 DEF Finish, OthersStay
  <2>3. /\ HoldOf(e).state = "open" /\ HoldOf(e).user = u /\ HoldsRest(e)
        /\ HoldOf(e)' = [HoldOf(e) EXCEPT !.state = "void"]
    BY <1>1, <2>2, SettlerLeaves
  <2>4. HoldOf(e)'.state # "open"
    <3>1. HoldOf(e) = [state |-> HoldState(e), user |-> reservations[e].user, amount |-> reservations[e].amount]
      BY <1>2, HoldFacts
    <3> QED BY <2>3, <3>1
  <2>5. /\ HeldFor(u) \in Int /\ HeldFor(u)' \in Int
        /\ u \in Covered => HeldFor(u)' <= HeldFor(u)
        /\ \A t : t # u => HeldFor(t)' = HeldFor(t)
    <3>1. /\ HeldFor(u) \in Int /\ HeldFor(u)' \in Int /\ HoldOf(e).amount \in Int
          /\ HeldFor(u)' = HeldFor(u) - HoldOf(e).amount
          /\ \A t : t # u => HeldFor(t)' = HeldFor(t)
      BY <1>2, <2>3, <2>4, HoldCloses
    <3>2. HoldOf(e).amount = reservations[e].amount
      BY <1>2, HoldFacts
    <3>3. u \in Covered => HoldOf(e).amount >= 0
      BY <1>2, <3>2 DEF Covered
    <3> QED BY <3>1, <3>3
  <2>6. HeldOK'
    <3>1. \A t \in Covered : \A k \in Int :
            HeldFor(t) <= AccountOf(t).reserved + k => HeldFor(t)' <= AccountOf(t)'.reserved + k
      <4> SUFFICES ASSUME NEW t \in Covered, t \in Users, NEW k \in Int, HeldFor(t) <= AccountOf(t).reserved + k
                   PROVE  HeldFor(t)' <= AccountOf(t)'.reserved + k
        BY DEF Covered
      <4>1. AccountOf(t).reserved \in Nat
        BY DEF IInv, TypeOK, AccountOf, NewAccount, Account
      <4> QED BY <1>4, <2>5, <4>1
    <3> QED BY <1>1, <2>2, <3>1, HeldStep
  <2>7. x > AccountOf(u).balance
    BY <1>2, <1>3, <1>7 DEF CanCharge, Account
  <2>8. LedgerStep
    BY <1>1, <1>2, <1>4, <2>3, <2>7, IsRefuse
  <2> QED BY <1>5, <2>1, <2>2, <2>6, <2>8, HandlersKept DEF SInv
<1> QED BY <1>6, <1>7

\* The UPDATE of the account settles the hold.
LEMMA SettlePutSerial ==
  ASSUME IInv, IInv', SInv, Shrinks, NEW w \in Workers, SettlePut(w)
  PROVE  SInv' /\ LedgerStep
<1> USE DEF CopyLabels, CostLabels, SettleLabels, ReserveLabels, RentalLabels, StatusLabels, FinalLabels
<1> PICK u, x, a, e : u = ctx[w].user /\ x = ctx[w].amount /\ a = ctx[w].acct /\ e = ctx[w].res
  OBVIOUS
<1>1. /\ pc[w] = "settle_put" /\ UNCHANGED <<reservations, rentals, applied, failed>>
      /\ pc \in [Workers -> Labels] /\ ctx \in [Workers -> Ctx] /\ settled \in [ReservationIds -> Nat]
      /\ LocalOK(w) /\ CtxOK(w)
  BY DEF SettlePut, IInv, TypeOK, SInv
<1>2. u \in Users /\ a \in Account /\ AccountOf(u) = a
  BY <1>1, CopyIsRow
<1>3. /\ x \in Costs /\ x \in Int /\ CanCharge(a, x) /\ e \in ReservationIds
      /\ Exists(reservations[e]) /\ reservations[e].user = u /\ reservations[e].released
  BY <1>1, BillingAssumption DEF CtxOK, LocalOK
<1>4. /\ OthersStay(w) /\ pc'[w] \in {"idle", "final_reread"}
      /\ Finish(w) \/ (pc'[w] = ctx[w].after /\ pc'[w] = "final_reread" /\ ctx' = ctx)
  BY <1>1 DEF SettlePut, Finish, Goto, OthersStay, CtxOK
<1>5. settled' = [settled EXCEPT ![e] = settled[e] + 1]
  BY DEF SettlePut
<1>6. settled'[e] > 0 /\ \A id \in ReservationIds \ {e} : settled'[id] = settled[id]
  BY <1>1, <1>3, <1>5
<1>7. /\ HoldOf(e).state = "open" /\ HoldOf(e).user = u /\ HoldsRest(e)
      /\ HoldOf(e).amount = reservations[e].amount
      /\ HoldOf(e)' = [HoldOf(e) EXCEPT !.state = "settled"]
  BY <1>1, <1>4, <1>6, SettlerLeaves
<1>8. HoldOf(e)'.state # "open"
  <2>1. HoldOf(e) = [state |-> HoldState(e), user |-> reservations[e].user, amount |-> reservations[e].amount]
    BY <1>3, HoldFacts
  <2> QED BY <1>7, <2>1
<1> PICK h : h = reservations[e].amount
  OBVIOUS
<1>9. /\ HeldFor(u) \in Int /\ HeldFor(u)' = HeldFor(u) - h /\ h \in Int
      /\ \A t : t # u => HeldFor(t)' = HeldFor(t)
  <2>1. /\ HeldFor(u) \in Int /\ HeldFor(u)' = HeldFor(u) - HoldOf(e).amount
        /\ HoldOf(e).amount \in Int
        /\ \A t : t # u => HeldFor(t)' = HeldFor(t)
    <3>1. e \in ReservationIds /\ HoldsRest(e) /\ HoldOf(e).user = u /\ HoldOf(e).state = "open"
      BY <1>3, <1>7
    <3> QED BY <1>8, <3>1, HoldCloses
  <2> QED BY <1>7, <2>1
<1> PICK b : b = WithReleased(a, h)
  OBVIOUS
<1>10. b \in Account /\ b.balance = a.balance /\ b.spent = a.spent
  BY <1>2, <1>9, ReleasedAccount
<1>11. b.reserved = IF a.reserved >= h THEN a.reserved - h ELSE 0
  BY <1>2, <1>9 DEF WithReleased, Account
<1> PICK row : row = Charged(b, x)
  OBVIOUS
<1>12. /\ row \in Account /\ row.balance = a.balance - x /\ row.spent = a.spent + x
       /\ row.reserved = b.reserved
  BY <1>3, <1>10, ChargedFields DEF CanCharge
<1>13. accounts' = [accounts EXCEPT ![u] = row]
  BY DEF SettlePut, UpdateAccount
<1>14. /\ AccountOf(u)' = row
       /\ \A t \in Users \ {u} : accounts'[t] = accounts[t] /\ AccountOf(t)' = AccountOf(t)
       /\ \A t \in Users : accounts[t] # NoAccount => accounts'[t] # NoAccount
  BY <1>2, <1>12, <1>13, WriteAccount
<1>15. OwnRows(w)
  BY <1>1, <1>3, <1>6, <1>14 DEF OwnRows
<1>16. RowsOK'
  <2>1. \A id \in ReservationIds : Exists(reservations[id]) => reservations[id].user \in Users
    BY DEF IInv, TypeOK, Exists, NoRow, Reservation
  <2> QED BY <1>1, <1>3, <1>6, <1>14, <2>1 DEF SInv, RowsOK
<1>17. MoneyOK'
  <2> SUFFICES ASSUME NEW t \in Users PROVE Total(AccountOf(t)') = applied[t]
    BY <1>1 DEF MoneyOK, Total
  <2>1. Total(AccountOf(t)) = applied[t]
    BY DEF SInv, MoneyOK
  <2> QED BY <1>2, <1>3, <1>12, <1>14, <2>1 DEF Total, Account
<1>18. HeldOK'
  <2>1. \A t \in Covered : \A k \in Int :
          HeldFor(t) <= AccountOf(t).reserved + k => HeldFor(t)' <= AccountOf(t)'.reserved + k
    <3> SUFFICES ASSUME NEW t \in Covered, t \in Users, NEW k \in Int, HeldFor(t) <= AccountOf(t).reserved + k
                 PROVE  HeldFor(t)' <= AccountOf(t)'.reserved + k
      BY DEF Covered
    <3>1. CASE t = u
      <4>1. a.reserved \in Nat
        BY <1>2 DEF Account
      <4> QED BY <1>2, <1>9, <1>11, <1>12, <1>14, <3>1, <4>1
    <3>2. CASE t # u
      BY <1>9, <1>14, <3>2
    <3> QED BY <3>1, <3>2
  <2> QED BY <1>1, <1>4, <2>1, HeldStep
<1>19. MoneyMoves(u, AccountOf(u).balance - x, AccountOf(u).spent + x)
  BY <1>2, <1>12, <1>14 DEF MoneyMoves
<1>20. x <= AccountOf(u).balance
  BY <1>2, <1>3 DEF CanCharge, Account
<1>21. LedgerStep
  BY <1>1, <1>2, <1>3, <1>7, <1>19, <1>20, IsSettle
<1>22. Finish(w) \/ (pc'[w] # "idle" /\ ctx'[w].user = ctx[w].user /\ LocalOK(w)')
  BY <1>1, <1>4 DEF LocalOK
<1> QED BY <1>4, <1>15, <1>16, <1>17, <1>18, <1>21, <1>22, HandlersKept DEF SInv

\* A handler ends at an await: a hold that it was settling is void.
LEMMA FailSerial ==
  ASSUME IInv, IInv', SInv, Shrinks, NEW w \in Workers, Fail(w)
  PROVE  SInv' /\ LedgerStep
<1> PICK u, e : u = ctx[w].user /\ e = ctx[w].res
  OBVIOUS
<1>1. /\ pc[w] # "idle" /\ Finish(w) /\ failed' = failed \cup {u}
      /\ UNCHANGED <<accounts, reservations, rentals, settled, applied>>
      /\ OthersStay(w) /\ pc'[w] = "idle" /\ ctx'[w].user = NoId
  BY DEF Fail, Finish, db, OthersStay, IInv, TypeOK, NoCtx
<1>2. u \in Users
  BY <1>1 DEF IInv, CtxOK
<1>3. AccountsStay /\ MoneyRests /\ \A t \in Users : AccountOf(t)' = AccountOf(t)
  BY <1>1 DEF AccountsStay, MoneyRests, AccountOf
<1>4. OwnRows(w) /\ RowsOK' /\ MoneyOK'
  BY <1>1, <1>3, NothingWritten, RowsKept, MoneyStays
<1>5. LedgerStep /\ \A t \in Users : t # u => HeldFor(t)' = HeldFor(t)
  <2>1. CASE pc[w] \in {"settle_get", "settle_put"}
    <3>1. /\ e \in ReservationIds /\ HoldOf(e).state = "open" /\ HoldOf(e).user = u /\ HoldsRest(e)
          /\ HoldOf(e)' = [HoldOf(e) EXCEPT !.state = "void"] /\ Exists(reservations[e])
      BY <1>1, <2>1, SettlerLeaves
    <3>2. HoldOf(e)'.state # "open"
      <4>1. HoldOf(e) = [state |-> HoldState(e), user |-> reservations[e].user, amount |-> reservations[e].amount]
        BY <3>1, HoldFacts
      <4> QED BY <3>1, <4>1
    <3>3. LedgerStep
      BY <1>1, <1>2, <1>3, <3>1, IsCutVoid
    <3> QED BY <3>1, <3>2, <3>3, HoldCloses
  <2>2. CASE pc[w] \notin {"settle_get", "settle_put"}
    <3>1. HoldsStay
      BY <1>1, <2>2, HoldsUntouched
    <3> QED BY <1>1, <1>2, <1>3, <3>1, IsCut, HeldSame
  <2> QED BY <2>1, <2>2
<1>6. HeldOK'
  <2> SUFFICES ASSUME NEW t \in Covered' PROVE HeldAt(t)'
    BY DEF HeldOK, HeldAt
  <2>1. t \in Covered /\ t # u
    BY <1>1 DEF Shrinks, Covered
  <2> QED BY <1>1, <1>3, <1>5, <2>1, HeldOthers, CoveredUsers
<1> QED BY <1>1, <1>4, <1>5, <1>6, HandlersKept DEF SInv

-----------------------------------------------------------------------------
(* Every step.                                                             *)

\* A request writes nothing when it arrives.
LEMMA RequestQuiet ==
  ASSUME NEW w \in Workers, Request(w)
  PROVE  UNCHANGED <<reservations, failed>>
  BY DEF Request, ApplyCredits, ReserveCredits, TrackRental, GetBalance, ReleaseReservation,
     UpdateRentalStatus, FinalizeRental, Begin, db, history

\* Rows of reservations keep their user and their amount.
RowsLast ==
  /\ failed \subseteq failed'
  /\ \A id \in ReservationIds : Exists(reservations[id]) =>
       /\ Exists(reservations'[id])
       /\ reservations'[id].user = reservations[id].user
       /\ reservations'[id].amount = reservations[id].amount

LEMMA NextShrinks ==
  ASSUME IInv, [Next]_vars
  PROVE  Shrinks
<1>0. reservations \in [ReservationIds -> Reservation \cup {NoRow}]
  BY DEF IInv, TypeOK
<1>1. ASSUME NEW w \in Workers, Request(w) PROVE RowsLast
  BY <1>1, RequestQuiet DEF RowsLast
<1>2. ASSUME NEW w \in Workers, Statement(w) PROVE RowsLast
  <2>1. CASE ReserveInsert(w)
    <3>1. UNCHANGED failed
      BY <2>1 DEF ReserveInsert, history
    <3>2. UNCHANGED reservations \/ \E id \in ReservationIds : \E row :
             ~Exists(reservations[id]) /\ reservations' = [reservations EXCEPT ![id] = row]
      BY <2>1 DEF ReserveInsert
    <3> QED BY <1>0, <3>1, <3>2 DEF RowsLast
  <2>2. CASE SettleMark(w)
    <3>1. UNCHANGED failed /\ reservations' = [reservations EXCEPT ![ctx[w].res].released = TRUE]
      BY <2>2 DEF SettleMark, history
    <3>2. \A id \in ReservationIds : Exists(reservations[id]) => reservations[id] \in Reservation
      BY <1>0 DEF Exists, NoRow
    <3> QED BY <1>0, <3>1, <3>2 DEF RowsLast, Exists, Reservation
  <2>3. CASE ~ReserveInsert(w) /\ ~SettleMark(w)
    <3>1. UNCHANGED <<reservations, failed>>
      BY <1>2, <2>3 DEF Statement, ApplyGet, ApplyPut, BalanceGet, ReserveGet, ReservePut, SettleRead,
         SettleGet, SettlePut, TrackCreate, TrackEvent, StatusGet, StatusPut, StatusReread,
         StatusRewrite, StatusEvent, FinalGet, FinalPut, FinalFind, ChargeGet, ChargePut,
         FinalReread, FinalRewrite, ReadRental, WriteRental, db, history
    <3> QED BY <3>1 DEF RowsLast
  <2> QED BY <2>1, <2>2, <2>3
<1>3. ASSUME NEW w \in Workers, Fail(w) PROVE RowsLast
  BY <1>3 DEF Fail, db, RowsLast
<1>4. ASSUME NEW e \in ReservationIds, Expire(e) PROVE RowsLast
  <2>1. UNCHANGED failed /\ reservations' = [reservations EXCEPT ![e].expired = TRUE]
    BY <1>4 DEF Expire, history
  <2>2. \A id \in ReservationIds : Exists(reservations[id]) => reservations[id] \in Reservation
    BY <1>0 DEF Exists, NoRow
  <2> QED BY <1>0, <2>1, <2>2 DEF RowsLast, Exists, Reservation
<1>5. ASSUME UNCHANGED vars PROVE RowsLast
  BY <1>5 DEF vars, db, history, RowsLast
<1>6. RowsLast
  BY <1>1, <1>2, <1>3, <1>4, <1>5 DEF Next
<1> QED BY <1>6 DEF RowsLast, Shrinks, Covered

\* When requests do not overlap, every statement, request, failure and expiry keeps
\* the invariant and is a step of the ledger or none.
LEMMA NextSerial ==
  ASSUME Serialise, IInv, IInv', SInv, [Next]_vars
  PROVE  SInv' /\ LedgerStep
<1>0. Shrinks
  BY NextShrinks
<1>1. ASSUME NEW w \in Workers, Request(w) PROVE SInv' /\ LedgerStep
  BY <1>0, <1>1, RequestSerial, UnseenStep
<1>2. ASSUME NEW w \in Workers, Statement(w) PROVE SInv' /\ LedgerStep
  <2>1. CASE ApplyGet(w) \/ ReserveGet(w) \/ BalanceGet(w)
    BY <1>0, <2>1, GetSerial, UnseenStep
  <2>2. CASE ApplyPut(w)
    BY <1>0, <2>2, ApplyPutSerial
  <2>3. CASE ReserveInsert(w)
    BY <1>0, <2>3, InsertSerial
  <2>4. CASE ReservePut(w)
    BY <1>0, <2>4, ReservePutSerial
  <2>5. CASE SettleMark(w)
    BY <1>0, <2>5, MarkSerial, UnseenStep
  <2>6. CASE SettleGet(w)
    BY <1>0, <2>6, SettleGetSerial
  <2>7. CASE SettlePut(w)
    BY <1>0, <2>7, SettlePutSerial
  <2>8. CASE TrackCreate(w) \/ TrackEvent(w) \/ SettleRead(w)
    BY <1>0, <2>8, TrackSerial, UnseenStep
  <2>9. CASE StatusGet(w) \/ StatusPut(w) \/ StatusReread(w) \/ StatusRewrite(w) \/ StatusEvent(w)
    BY <1>0, <2>9, StatusSerial, UnseenStep
  <2>10. CASE FinalGet(w) \/ FinalPut(w) \/ FinalFind(w) \/ FinalReread(w) \/ FinalRewrite(w) \/ ChargeGet(w)
    BY <1>0, <2>10, FinalSerial, UnseenStep
  <2>11. CASE ChargePut(w)
    BY <1>0, <2>11, ChargePutSerial
  <2> QED BY <1>2, <2>1, <2>2, <2>3, <2>4, <2>5, <2>6, <2>7, <2>8, <2>9, <2>10, <2>11 DEF Statement
<1>3. ASSUME NEW w \in Workers, Fail(w) PROVE SInv' /\ LedgerStep
  BY <1>0, <1>3, FailSerial
<1>4. ASSUME NEW id \in ReservationIds, Expire(id) PROVE SInv' /\ LedgerStep
  BY <1>0, <1>4, ExpireSerial, UnseenStep
<1>5. CASE UNCHANGED vars
  <2>1. UNCHANGED <<accounts, reservations, rentals, pc, ctx, settled, applied, failed>>
    BY <1>5 DEF vars, db, history
  <2>2. HoldsStay
    BY <2>1, HoldKept DEF HoldsStay, BeingSettled
  <2>3. AccountsStay /\ \A t \in Users : AccountOf(t)' = AccountOf(t)
    BY <2>1 DEF AccountsStay, AccountOf
  <2>4. OnePerUser' /\ HeldOK'
    <3>1. OnePerUser'
      BY <2>1 DEF SInv, OnePerUser
    <3>2. \A t \in Covered : HeldFor(t)' = HeldFor(t) /\ AccountOf(t)' = AccountOf(t)
      BY <2>2, <2>3, HeldSame, CoveredUsers
    <3>3. HeldOK'
      BY <1>0, <2>1, <3>2 DEF SInv, HeldOK, Shrinks
    <3> QED BY <3>1, <3>3
  <2>5. \A w \in Workers : LocalOK(w)'
    BY <2>1 DEF SInv, LocalOK
  <2>6. RowsOK' /\ MoneyOK'
    BY <2>1, <2>3, RowsKept, MoneyStays
  <2> QED BY <2>1, <2>2, <2>3, <2>4, <2>5, <2>6, Stutter, UnseenStep DEF SInv
<1> QED BY <1>1, <1>2, <1>3, <1>4, <1>5 DEF Next

\* Nothing is held and nothing was spent at first.
LEMMA InitMaps == ASSUME Init PROVE Abstract!Init
<1>1. \A u \in Users : AccountOf(u).balance = 0 /\ AccountOf(u).spent = 0
  BY DEF Init, AccountOf, NewAccount
<1>2. \A id \in ReservationIds : HoldOf(id) = [state |-> "none"]
  BY DEF Init, HoldOf, Exists, NoRow
<1> QED BY <1>1, <1>2 DEF Init, Abstract!Init, Abstract!NoHold

\* The invariants hold throughout.
LEMMA SerialInvariance ==
  ASSUME Serialise = TRUE
  PROVE  Spec => [](IInv /\ SInv)
<1>1. Init => SInv
  BY InitSerial
<1>2. IInv /\ IInv' /\ SInv /\ [Next]_vars => SInv'
  BY NextSerial
<1> QED BY <1>1, <1>2, Invariance, PTL DEF Spec

\* When the callers never overlap requests of a user, balance plus lifetime_spent is
\* what ApplyCredits wrote, debits included, whichever handlers failed at whichever
\* await and however the handlers of different users interleave.
THEOREM CreditIsConserved ==
  ASSUME Serialise = TRUE
  PROVE  Spec => []Conserved
<1>1. SInv => Conserved
  BY DEF SInv, MoneyOK, Conserved, AccountOf
<1> QED BY <1>1, SerialInvariance, PTL

\* The ledger is implemented: seen by a user whose requests do not overlap, the
\* statements of the handlers on accounts and reservations are single steps of Ledger.
THEOREM LedgerImplemented ==
  ASSUME Serialise = TRUE
  PROVE  Spec => ImplementsLedger
<1>1. Init => Abstract!Init
  BY InitMaps
<1>2. IInv /\ IInv' /\ SInv /\ [Next]_vars => [Abstract!Next]_(Abstract!vars)
  BY NextSerial DEF LedgerStep
<1> QED BY <1>1, <1>2, SerialInvariance, PTL DEF Spec, ImplementsLedger, Abstract!Spec

\* What a step may do to a rental that is Completed or Failed.
LEMMA TerminalStep ==
  ASSUME IInv, SInv, [Next]_vars, NEW r \in RentalIds, StateOf(rentals[r]) \in {"Completed", "Failed"}
  PROVE  rentals'[r] = rentals[r]
<1>1. /\ Exists(rentals[r]) /\ rentals[r].state \in {"Completed", "Failed"}
      /\ rentals \in [RentalIds -> Rental \cup {NoRow}] /\ rentals[r] \in Rental
  BY DEF StateOf, IInv, TypeOK, Exists, NoRow
<1>2. ASSUME NEW w \in Workers, WriteRental(w),
             pc[w] \in {"status_put", "status_rewrite", "final_put", "final_rewrite"}
      PROVE  rentals'[r] = rentals[r]
  <2>1. rentals' = [rentals EXCEPT ![ctx[w].rental] = [rentals[ctx[w].rental] EXCEPT !.state = ctx[w].state]]
    BY <1>2 DEF WriteRental
  <2>2. CASE ctx[w].rental # r
    BY <1>1, <2>1, <2>2
  <2>3. CASE ctx[w].rental = r
    <3>1. LocalOK(w)
      BY DEF SInv
    <3>2. pc[w] # "status_put"
      BY <1>1, <2>3, <3>1 DEF LocalOK, CanTransition
    <3>3. pc[w] = "final_put" => ctx[w].state = rentals[r].state
      BY <1>1, <2>3, <3>1 DEF LocalOK, Finalizable
    <3>4. ctx[w].state = rentals[r].state
      BY <1>2, <2>3, <3>1, <3>2, <3>3 DEF LocalOK
    <3>5. [rentals[r] EXCEPT !.state = rentals[r].state] = rentals[r]
      BY <1>1 DEF Rental
    <3> QED BY <1>1, <2>1, <2>3, <3>4, <3>5
  <2> QED BY <2>2, <2>3
<1>3. ASSUME NEW w \in Workers, Statement(w) PROVE rentals'[r] = rentals[r]
  <2>1. CASE StatusPut(w) \/ StatusRewrite(w) \/ FinalPut(w) \/ FinalRewrite(w)
    BY <1>2, <2>1 DEF StatusPut, StatusRewrite, FinalPut, FinalRewrite
  <2>2. CASE TrackCreate(w)
    BY <1>1, <2>2 DEF TrackCreate
  <2>3. CASE UNCHANGED rentals
    BY <2>3
  <2>4. \/ StatusPut(w) \/ StatusRewrite(w) \/ FinalPut(w) \/ FinalRewrite(w)
        \/ TrackCreate(w) \/ UNCHANGED rentals
    BY <1>3 DEF Statement, ApplyGet, ApplyPut, BalanceGet, ReserveGet, ReserveInsert, ReservePut,
       SettleRead, SettleMark, SettleGet, SettlePut, TrackEvent, StatusGet, StatusReread, StatusEvent,
       FinalGet, FinalFind, ChargeGet, ChargePut, FinalReread, ReadRental, db
  <2> QED BY <2>1, <2>2, <2>3, <2>4
<1>4. ASSUME NEW w \in Workers, Request(w) PROVE rentals' = rentals
  <2>1. \E u, l, c : Begin(w, u, l, c)
    BY <1>4, Zenon DEF Request, ApplyCredits, ReserveCredits, TrackRental, GetBalance, ReleaseReservation,
       UpdateRentalStatus, FinalizeRental
  <2> QED BY <2>1 DEF Begin, db
<1>5. ASSUME NEW w \in Workers, Fail(w) PROVE rentals' = rentals
  BY <1>5 DEF Fail, db
<1>6. ASSUME NEW id \in ReservationIds, Expire(id) PROVE rentals' = rentals
  BY <1>6 DEF Expire
<1>7. CASE UNCHANGED vars
  BY <1>7 DEF vars, db
<1> QED BY <1>3, <1>4, <1>5, <1>6, <1>7 DEF Next

\* Without overlapping requests of a user a rental that is Completed or Failed keeps
\* its row: neither a status update nor the second writes of UpdateRentalStatus and
\* FinalizeRental move it on.
THEOREM TerminalStays ==
  ASSUME Serialise = TRUE
  PROVE  Spec => TerminalIsFinal
<1>1. IInv /\ SInv /\ [Next]_vars
      => [\A r \in RentalIds : StateOf(rentals[r]) \in {"Completed", "Failed"}
                               => rentals'[r] = rentals[r]]_vars
  BY TerminalStep
<1> QED BY <1>1, SerialInvariance, PTL DEF Spec, TerminalIsFinal

=============================================================================
