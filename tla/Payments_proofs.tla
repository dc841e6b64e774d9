-------------------------- MODULE Payments_proofs --------------------------
(***************************************************************************)
(* The payments service, for any number of instances, users, blocks and    *)
(* failures.                                                               *)
(*                                                                         *)
(* A hotkey is generated before its account is inserted, a block is        *)
(* compared with accounts read earlier, and a dispatcher works on rows it  *)
(* claimed earlier.  The invariant says what of this is still true when it *)
(* is used, and counts the credits that a row's claims can still cause.    *)
(* The last section is about the price oracle that dispatchers call.       *)
(***************************************************************************)
EXTENDS Payments, FiniteSetTheorems, TLAPS

Steps == {"next", "apply", "mark"}
Batch == [batch: SUBSET Blocks, cur: Blocks \cup {NoBlock}, step: Steps]

Typed == TypeOK /\ disp \in [Dispatchers -> Batch]

\* A hotkey belongs to one call or to one user, and was generated.
AccountsOK ==
  /\ \A u \in Users : accounts[u] # NoAccount => accounts[u] <= generated
  /\ \A u, v \in Users : accounts[u] # NoAccount /\ accounts[u] = accounts[v] => u = v

HandlersOK ==
  /\ \A h \in Handlers : handler[h] # NoCall =>
       /\ handler[h].account <= generated
       /\ \A u \in Users : accounts[u] # handler[h].account
  /\ \A h, k \in Handlers :
       handler[h] # NoCall /\ handler[k] # NoCall /\ handler[h].account = handler[k].account
       => h = k

\* What a monitor knows is stored; only finalized transfers have rows.
MonitorsOK ==
  /\ \A m \in Monitors : monitor[m].known \subseteq StoredAccounts
  /\ \A m \in Monitors : monitor[m].phase = "up" => monitor[m].next >= 1

RowsOK ==
  /\ \A b \in Blocks : IsRow(b) => b <= height /\ dest[b] # NoAccount
  /\ QueuedWithObserved
  /\ DispatchedWasApplied

\* A dispatcher about to mark a row had it credited.
MarkersOK == \A d \in Dispatchers : disp[d].step = "mark" => applied[disp[d].cur] >= 1

\* Dispatchers that have the row in their batch and may still credit it.
Pending(b) ==
  {d \in Dispatchers : b \in disp[d].batch /\ ~(disp[d].step = "mark" /\ disp[d].cur = b)}

Live(b) == IF IsRow(b) /\ outbox[b].claim = "live" THEN 1 ELSE 0

\* Every claim allows one credit, and there is one claim more than leases that ran
\* out only while one is live.
LeasesOK ==
  \A b \in Blocks : applied[b] + Cardinality(Pending(b)) <= lapses[b] + Live(b)

IInv ==
  /\ Typed
  /\ AccountsOK
  /\ HandlersOK
  /\ AddressStable
  /\ MonitorsOK
  /\ RowsOK
  /\ MarkersOK
  /\ LeasesOK

-----------------------------------------------------------------------------
(* Initially nothing exists.                                               *)

\* The initial state satisfies the invariant.
LEMMA InitInv == Init => IInv
<1> SUFFICES ASSUME Init PROVE IInv
  OBVIOUS
<1>1. Typed
  BY PaymentsAssumption DEF Init, Typed, TypeOK, MonitorDown, NoBatch, NoCall, Batch, Steps,
     Blocks, AccountIds
<1>2. AccountsOK /\ HandlersOK /\ AddressStable
  BY DEF Init, AccountsOK, HandlersOK, AddressStable
<1>3. MonitorsOK /\ RowsOK /\ MarkersOK
  BY DEF Init, MonitorsOK, MonitorDown, RowsOK, MarkersOK, NoBatch, IsRow, QueuedWithObserved,
     DispatchedWasApplied
<1>4. \A b \in Blocks : Pending(b) = {}
  BY DEF Init, Pending, NoBatch
<1>5. LeasesOK
  <2>1. \A b \in Blocks : Cardinality(Pending(b)) = 0
    BY <1>4, FS_EmptySet
  <2>2. \A b \in Blocks : applied[b] = 0 /\ lapses[b] = 0
    BY DEF Init
  <2>3. \A b \in Blocks : Live(b) \in {0, 1}
    BY DEF Live
  <2> QED BY <2>1, <2>2, <2>3 DEF LeasesOK
<1> QED BY <1>1, <1>2, <1>3, <1>5 DEF IInv

-----------------------------------------------------------------------------
(* Types.                                                                  *)

\* Rows, once made, stay; so a batch keeps to rows.
RowsStay == \A b \in Blocks : IsRow(b) => IsRow(b)'

\* The record that NewRow makes, for an account that some user has.
LEMMA NewRowType ==
  ASSUME NEW b, \E u \in Users : accounts[u] = dest[b]
  PROVE  /\ NewRow(b) \in Row /\ ~NewRow(b).dispatched /\ NewRow(b).claim = "none"
         /\ NewRow(b).user \in Users /\ accounts[NewRow(b).user] = dest[b]
<1>1. OwnerOf(dest[b]) \in Users /\ accounts[OwnerOf(dest[b])] = dest[b]
  BY DEF OwnerOf
<1> QED BY <1>1 DEF NewRow, Row

\* A failed step keeps the number of failures within its bound.
LEMMA FailureType ==
  ASSUME failures \in 0 .. MaxFailures, Failure
  PROVE  failures' \in 0 .. MaxFailures
  BY PaymentsAssumption DEF Failure

\* A block that a monitor processes is finalized, and one it records is owned.
LEMMA ProcessedBlock ==
  ASSUME IInv, NEW m \in Monitors, ProcessBlock(m)
  PROVE  /\ monitor[m].next \in Blocks /\ monitor[m].next <= height
         /\ monitor[m].known \subseteq StoredAccounts
         /\ dest[monitor[m].next] \in monitor[m].known =>
              \E u \in Users : accounts[u] = dest[monitor[m].next]
<1>1. monitor[m].next \in Nat /\ monitor[m].next >= 1 /\ monitor[m].next <= height
      /\ height \in 0 .. MaxBlocks /\ monitor[m].known \subseteq StoredAccounts
  BY DEF IInv, Typed, TypeOK, MonitorsOK, ProcessBlock
<1> QED BY <1>1, PaymentsAssumption DEF Blocks, StoredAccounts

\* The row after a block was recorded.
LEMMA RecordedRow ==
  ASSUME IInv, NEW b \in Blocks, Record(b), \E u \in Users : accounts[u] = dest[b]
  PROVE  /\ outbox' \in [Blocks -> Row \cup {NoRow}]
         /\ observed' \in [Blocks -> {"none", "FINALIZED", "CREDITED"}]
         /\ outbox'[b] = IF IsRow(b) THEN outbox[b] ELSE NewRow(b)
         /\ outbox'[b] \in Row /\ outbox'[b] # NoRow
         /\ observed'[b] = IF observed[b] = "none" THEN "FINALIZED" ELSE observed[b]
         /\ \A c \in Blocks \ {b} : outbox'[c] = outbox[c] /\ observed'[c] = observed[c]
<1>1. NewRow(b) \in Row
  BY NewRowType
<1>2. /\ outbox \in [Blocks -> Row \cup {NoRow}]
      /\ observed \in [Blocks -> {"none", "FINALIZED", "CREDITED"}]
  BY DEF IInv, Typed, TypeOK
<1>3. Enqueued(b) \in Row
  BY <1>1, <1>2 DEF Enqueued, IsRow
<1>4. NoRow \notin Row
  BY PaymentsAssumption DEF Row
<1> QED BY <1>1, <1>2, <1>3, <1>4 DEF Record, Enqueued

\* The part of the types that concerns a dispatcher's step on its own record.
LEMMA DispatcherType ==
  ASSUME IInv, RowsStay, NEW d \in Dispatchers, NEW l \in Batch,
         disp' = [disp EXCEPT ![d] = l],
         l.batch \subseteq {b \in Blocks : IsRow(b)'},
         IF l.step = "next" THEN l.cur = NoBlock ELSE l.cur \in l.batch
  PROVE  /\ disp' \in [Dispatchers -> Batch]
         /\ \A e \in Dispatchers :
              /\ disp'[e].batch \subseteq {b \in Blocks : IsRow(b)'}
              /\ disp'[e].step \in {"next", "apply", "mark"}
              /\ IF disp'[e].step = "next" THEN disp'[e].cur = NoBlock
                 ELSE disp'[e].cur \in disp'[e].batch
<1>1. disp \in [Dispatchers -> Batch]
  BY DEF IInv, Typed
<1>2. \A e \in Dispatchers :
        /\ disp[e].batch \subseteq {b \in Blocks : IsRow(b)}
        /\ IF disp[e].step = "next" THEN disp[e].cur = NoBlock ELSE disp[e].cur \in disp[e].batch
  BY DEF IInv, Typed, TypeOK
<1>3. disp' \in [Dispatchers -> Batch]
  BY <1>1
<1>4. \A e \in Dispatchers : disp'[e] = IF e = d THEN l ELSE disp[e]
  BY <1>1
<1>5. \A e \in Dispatchers : disp'[e].step \in Steps
  BY <1>3 DEF Batch
<1> QED BY <1>2, <1>3, <1>4, <1>5 DEF RowsStay, Steps

\* Calls of CreateDepositAccount.
LEMMA HandlerTypes ==
  ASSUME IInv, hung' \subseteq Dispatchers, NEW h \in Handlers,
         (\E u \in Users : CreateDepositAccount(h, u)) \/ InsertDepositAccount(h)
  PROVE  Typed'
<1> USE DEF dbvars
<1>1. /\ accounts \in [Users -> AccountIds \cup {NoAccount}] /\ generated \in 0 .. MaxAccounts
      /\ handler \in [Handlers -> [user: Users, account: AccountIds] \cup {NoCall}]
      /\ promised \subseteq Users \X AccountIds /\ failures \in 0 .. MaxFailures
  BY DEF IInv, Typed, TypeOK
<1>2. UNCHANGED <<observed, outbox, height, dest, monitor, disp, applied, lapses>>
  BY DEF CreateDepositAccount, InsertDepositAccount
<1>3. CASE \E u \in Users : CreateDepositAccount(h, u)
  <2> PICK u \in Users : CreateDepositAccount(h, u)
    BY <1>3
  <2>1. CASE accounts[u] # NoAccount
    <3>1. <<u, accounts[u]>> \in Users \X AccountIds
      BY <1>1, <2>1
    <3> QED BY <1>1, <1>2, <2>1, <3>1 DEF CreateDepositAccount, IInv, Typed, TypeOK, IsRow
  <2>2. CASE accounts[u] = NoAccount
    <3>1. /\ generated' = generated + 1 /\ generated < MaxAccounts
          /\ handler' = [handler EXCEPT ![h] = [user |-> u, account |-> generated + 1]]
          /\ UNCHANGED <<accounts, promised, failures>>
      BY <2>2 DEF CreateDepositAccount
    <3>2. generated' \in 0 .. MaxAccounts /\ generated + 1 \in AccountIds
      BY <1>1, <3>1, PaymentsAssumption DEF AccountIds
    <3>3. handler' \in [Handlers -> [user: Users, account: AccountIds] \cup {NoCall}]
      BY <1>1, <3>1, <3>2
    <3> QED BY <1>1, <1>2, <3>1, <3>2, <3>3 DEF IInv, Typed, TypeOK, IsRow
  <2> QED BY <2>1, <2>2
<1>4. CASE InsertDepositAccount(h)
  <2>1. handler[h] # NoCall /\ handler[h] \in [user: Users, account: AccountIds]
    BY <1>1, <1>4 DEF InsertDepositAccount
  <2>2. handler' = [handler EXCEPT ![h] = NoCall] /\ UNCHANGED generated
    BY <1>4 DEF InsertDepositAccount
  <2>3. /\ accounts' \in {accounts, [accounts EXCEPT ![handler[h].user] = handler[h].account]}
        /\ promised' \in {promised, promised \cup {<<handler[h].user, handler[h].account>>}}
    BY <1>4 DEF InsertDepositAccount
  <2>4. failures' \in 0 .. MaxFailures
    BY <1>1, <1>4, FailureType DEF InsertDepositAccount
  <2>5. <<handler[h].user, handler[h].account>> \in Users \X AccountIds
    BY <2>1
  <2>6. accounts' \in [Users -> AccountIds \cup {NoAccount}] /\ promised' \subseteq Users \X AccountIds
    BY <1>1, <2>1, <2>3, <2>5
  <2>7. handler' \in [Handlers -> [user: Users, account: AccountIds] \cup {NoCall}]
    BY <1>1, <2>2
  <2> QED BY <1>1, <1>2, <2>2, <2>4, <2>6, <2>7 DEF IInv, Typed, TypeOK, IsRow
<1> QED BY <1>3, <1>4

\* The chain.
LEMMA FinalizeTypes ==
  ASSUME IInv, hung' \subseteq Dispatchers, NEW a \in AccountIds \cup {NoAccount}, Finalize(a)
  PROVE  Typed'
<1>1. /\ height \in 0 .. MaxBlocks /\ dest \in [Blocks -> AccountIds \cup {NoAccount}]
  BY DEF IInv, Typed, TypeOK
<1>2. height' \in 0 .. MaxBlocks
  BY <1>1, PaymentsAssumption DEF Finalize
<1>3. dest' \in [Blocks -> AccountIds \cup {NoAccount}]
  BY <1>1 DEF Finalize
<1> QED BY <1>2, <1>3 DEF Finalize, IInv, Typed, TypeOK, IsRow, dbvars

MonitorRecord == [phase: {"down", "loaded", "up"}, known: SUBSET AccountIds, next: Nat]

\* What deposit_accounts holds are account ids.
LEMMA StoredType == ASSUME IInv PROVE StoredAccounts \in SUBSET AccountIds
  BY DEF IInv, Typed, TypeOK, StoredAccounts


\* A monitor's steps on its own record.
LEMMA LoadValue ==
  ASSUME IInv, NEW m \in Monitors, MonitorLoad(m)
  PROVE  \E r \in MonitorRecord : /\ r.known = StoredAccounts /\ r.phase = "loaded"
                                  /\ monitor' = [monitor EXCEPT ![m] = r]
<1>1. [phase |-> "loaded", known |-> StoredAccounts, next |-> 0] \in MonitorRecord
  BY StoredType DEF MonitorRecord
<1> QED BY <1>1 DEF MonitorLoad

LEMMA SubscribeValue ==
  ASSUME IInv, NEW m \in Monitors, MonitorSubscribe(m)
  PROVE  \E r \in MonitorRecord : /\ r.known = monitor[m].known /\ r.next >= 1
                                  /\ monitor' = [monitor EXCEPT ![m] = r]
<1>1. monitor \in [Monitors -> MonitorRecord] /\ height \in Nat
  BY DEF IInv, Typed, TypeOK, MonitorRecord
<1>2. PICK n \in {height, height + 1} \ {0} :
        monitor' = [monitor EXCEPT ![m].phase = "up", ![m].next = n]
  BY DEF MonitorSubscribe
<1>3. n \in Nat /\ n >= 1 /\ monitor[m] \in MonitorRecord /\ monitor[m].known \in SUBSET AccountIds
  BY <1>1 DEF MonitorRecord
<1> DEFINE r == [monitor[m] EXCEPT !.phase = "up", !.next = n]
<1>4. monitor' = [monitor EXCEPT ![m] = r]
  BY <1>1, <1>2, Zenon
<1>5. r \in MonitorRecord
  BY <1>3 DEF MonitorRecord
<1>6. r.known = monitor[m].known
  BY <1>3 DEF MonitorRecord
<1>7. r.next = n
  BY <1>3 DEF MonitorRecord
<1> HIDE DEF r
<1> QED BY <1>3, <1>4, <1>5, <1>6, <1>7

LEMMA StopValue ==
  ASSUME IInv, NEW m \in Monitors, MonitorStop(m)
  PROVE  \E r \in MonitorRecord : /\ r.known = {} /\ r.phase = "down"
                                  /\ monitor' = [monitor EXCEPT ![m] = r]
  BY DEF MonitorStop, MonitorDown, MonitorRecord

LEMMA ProcessValue ==
  ASSUME IInv, NEW m \in Monitors, ProcessBlock(m)
  PROVE  \E r \in MonitorRecord : /\ r.known \in {StoredAccounts, monitor[m].known}
                                  /\ r.next >= 1
                                  /\ monitor' = [monitor EXCEPT ![m] = r]
<1>1. monitor \in [Monitors -> MonitorRecord]
  BY DEF IInv, Typed, TypeOK, MonitorRecord
<1>2. monitor[m] \in MonitorRecord /\ monitor[m].next \in Nat /\ monitor[m].next >= 1
      /\ monitor[m].known \in SUBSET AccountIds
  BY <1>1, ProcessedBlock DEF MonitorRecord, Blocks
<1> DEFINE n == monitor[m].next + 1
<1>3. n \in Nat /\ n >= 1
  BY <1>2
<1>4. monitor' = [monitor EXCEPT ![m].next = n] \/ BlockEnd(m)
  BY DEF ProcessBlock
<1>5. CASE monitor' = [monitor EXCEPT ![m].next = n]
  <2> DEFINE r == [monitor[m] EXCEPT !.next = n]
  <2>1. monitor' = [monitor EXCEPT ![m] = r]
    BY <1>1, <1>5, Zenon
  <2> HIDE DEF n
  <2>2. r \in MonitorRecord
    BY <1>2, <1>3 DEF MonitorRecord
  <2>3. r.known = monitor[m].known
    BY <1>2, <1>3 DEF MonitorRecord
  <2>4. r.next = n
    BY <1>2, <1>3 DEF MonitorRecord
  <2> HIDE DEF r
  <2> QED BY <1>3, <2>1, <2>2, <2>3, <2>4
<1>6. CASE BlockEnd(m)
  <2> DEFINE k == IF monitor[m].next % RefreshEvery = 0 THEN StoredAccounts ELSE monitor[m].known
             r == [monitor[m] EXCEPT !.next = n, !.known = k]
  <2>1. monitor' = [monitor EXCEPT ![m] = r]
    BY <1>1, <1>6, Zenon DEF BlockEnd
  <2>2. k \in SUBSET AccountIds /\ k \in {StoredAccounts, monitor[m].known}
    BY <1>2, StoredType
  <2> HIDE DEF n, k
  <2>3. r \in MonitorRecord
    BY <1>2, <1>3, <2>2 DEF MonitorRecord
  <2>4. r.known = k
    BY <1>2, <1>3, <2>2 DEF MonitorRecord
  <2>5. r.next = n
    BY <1>2, <1>3, <2>2 DEF MonitorRecord
  <2> HIDE DEF r
  <2> QED BY <1>3, <2>1, <2>2, <2>3, <2>4, <2>5
<1> QED BY <1>4, <1>5, <1>6

\* The monitors.
LEMMA MonitorTypes ==
  ASSUME IInv, hung' \subseteq Dispatchers, NEW m \in Monitors,
         MonitorLoad(m) \/ MonitorSubscribe(m) \/ MonitorStop(m) \/ ProcessBlock(m)
  PROVE  Typed'
<1>1. monitor \in [Monitors -> MonitorRecord]
  BY DEF IInv, Typed, TypeOK, MonitorRecord
<1>2. monitor' \in [Monitors -> MonitorRecord]
  <2>1. \E r \in MonitorRecord : monitor' = [monitor EXCEPT ![m] = r]
    BY LoadValue, SubscribeValue, StopValue, ProcessValue
  <2> QED BY <1>1, <2>1
<1>3. failures' \in 0 .. MaxFailures
  <2>1. UNCHANGED failures \/ Failure
    BY DEF MonitorLoad, MonitorSubscribe, MonitorStop, ProcessBlock
  <2> QED BY <2>1, FailureType DEF IInv, Typed, TypeOK
<1>4. UNCHANGED <<accounts, generated, handler, promised, height, dest, disp, applied, lapses>>
  BY DEF MonitorLoad, MonitorSubscribe, MonitorStop, ProcessBlock, dbvars
<1>5. CASE MonitorLoad(m) \/ MonitorSubscribe(m) \/ MonitorStop(m)
  <2>1. UNCHANGED <<observed, outbox>>
    BY <1>5 DEF MonitorLoad, MonitorSubscribe, MonitorStop, dbvars
  <2> QED BY <1>2, <1>3, <1>4, <2>1 DEF IInv, Typed, TypeOK, IsRow, MonitorRecord
<1>6. CASE ProcessBlock(m)
  <2> DEFINE b == monitor[m].next
  <2>1. b \in Blocks
    BY <1>6, ProcessedBlock
  <2>2. UNCHANGED <<observed, outbox>> \/ (dest[b] \in monitor[m].known /\ Record(b))
    BY <1>6 DEF ProcessBlock
  <2>3. CASE UNCHANGED <<observed, outbox>>
    BY <1>2, <1>3, <1>4, <2>3 DEF IInv, Typed, TypeOK, IsRow, MonitorRecord
  <2>4. CASE dest[b] \in monitor[m].known /\ Record(b)
    <3>1. \E u \in Users : accounts[u] = dest[b]
      BY <1>6, <2>4, ProcessedBlock
    <3> HIDE DEF b
    <3>2. /\ outbox' \in [Blocks -> Row \cup {NoRow}]
          /\ observed' \in [Blocks -> {"none", "FINALIZED", "CREDITED"}]
          /\ \A c \in Blocks : IsRow(c) => outbox'[c] # NoRow
      BY <2>1, <2>4, <3>1, RecordedRow DEF IsRow
    <3> QED BY <1>2, <1>3, <1>4, <3>2 DEF IInv, Typed, TypeOK, IsRow, MonitorRecord
  <2> QED BY <2>2, <2>3, <2>4
<1> QED BY <1>5, <1>6

-----------------------------------------------------------------------------
(* What a step of a dispatcher or of the clock does to rows and batches.   *)

\* Rows keep their user and whether they are dispatched.
RowsKept ==
  /\ outbox' \in [Blocks -> Row \cup {NoRow}]
  /\ \A b \in Blocks : /\ IsRow(b)' <=> IsRow(b)
                       /\ IsRow(b) => /\ outbox'[b].user = outbox[b].user
                                      /\ outbox'[b].dispatched = outbox[b].dispatched

ClaimsKept == \A b \in Blocks : IsRow(b) => outbox'[b].claim = outbox[b].claim

\* A row that is there is one of Row.
LEMMA RowType ==
  ASSUME IInv
  PROVE  /\ outbox \in [Blocks -> Row \cup {NoRow}] /\ NoRow \notin Row
         /\ \A b \in Blocks : IsRow(b) <=> outbox[b] \in Row
  BY PaymentsAssumption DEF IInv, Typed, TypeOK, Row, IsRow

\* Rows with a column changed.
LEMMA RowUpdate ==
  ASSUME NEW r \in Row, NEW c \in {"none", "live", "stale"}, NEW x \in BOOLEAN
  PROVE  /\ [r EXCEPT !.claim = c] \in Row /\ [r EXCEPT !.claim = c].claim = c
         /\ [r EXCEPT !.claim = c].user = r.user /\ [r EXCEPT !.claim = c].dispatched = r.dispatched
         /\ [r EXCEPT !.due = x] \in Row /\ [r EXCEPT !.due = x].claim = r.claim
         /\ [r EXCEPT !.due = x].user = r.user /\ [r EXCEPT !.due = x].dispatched = r.dispatched
         /\ [r EXCEPT !.dispatched = x] \in Row /\ [r EXCEPT !.dispatched = x].claim = r.claim
         /\ [r EXCEPT !.dispatched = x].user = r.user
         /\ [r EXCEPT !.dispatched = x].dispatched = x
  BY DEF Row

\* backoff and the clock.
LEMMA DueKeeps ==
  ASSUME IInv, NEW b \in Blocks, IsRow(b), NEW x \in BOOLEAN,
         outbox' = [outbox EXCEPT ![b].due = x]
  PROVE  RowsKept /\ ClaimsKept
<1> DEFINE r == [outbox[b] EXCEPT !.due = x]
<1>1. outbox \in [Blocks -> Row \cup {NoRow}] /\ NoRow \notin Row /\ outbox[b] \in Row
  BY RowType
<1>2. outbox' = [outbox EXCEPT ![b] = r]
  BY <1>1, Zenon
<1>3. r \in Row
  BY <1>1 DEF Row
<1>4. r.claim = outbox[b].claim /\ r.user = outbox[b].user /\ r.dispatched = outbox[b].dispatched
  BY <1>1 DEF Row
<1> HIDE DEF r
<1> QED BY <1>1, <1>2, <1>3, <1>4 DEF RowsKept, ClaimsKept, IsRow

LEMMA BackoffKeeps ==
  ASSUME IInv, NEW b \in Blocks, IsRow(b), TryBackoff(b)
  PROVE  RowsKept /\ ClaimsKept
<1>1. CASE Backoff(b)
  BY <1>1, DueKeeps DEF Backoff
<1>2. CASE UNCHANGED outbox
  BY <1>2, RowType DEF RowsKept, ClaimsKept, IsRow
<1> QED BY <1>1, <1>2 DEF TryBackoff

LEMMA LeaseKeeps ==
  ASSUME IInv, NEW b \in Blocks, LeaseExpires(b)
  PROVE  /\ RowsKept /\ IsRow(b) /\ outbox[b].claim = "live" /\ outbox'[b].claim = "stale"
         /\ \A c \in Blocks \ {b} : outbox'[c] = outbox[c]
<1> DEFINE r == [outbox[b] EXCEPT !.claim = "stale"]
<1>1. outbox \in [Blocks -> Row \cup {NoRow}] /\ NoRow \notin Row /\ outbox[b] \in Row
  BY RowType DEF LeaseExpires
<1>2. outbox' = [outbox EXCEPT ![b] = r]
  BY <1>1, Zenon DEF LeaseExpires
<1>3. r \in Row /\ r.claim = "stale"
      /\ r.user = outbox[b].user /\ r.dispatched = outbox[b].dispatched
  BY <1>1, RowUpdate
<1>4. IsRow(b) /\ outbox[b].claim = "live"
  BY DEF LeaseExpires
<1> HIDE DEF r
<1> QED BY <1>1, <1>2, <1>3, <1>4 DEF RowsKept, IsRow

\* mark_dispatched_tx and mark_credited_tx.
LEMMA MarkRows ==
  ASSUME IInv, NEW b \in Blocks, IsRow(b), MarkCredited(b)
  PROVE  /\ outbox' \in [Blocks -> Row \cup {NoRow}]
         /\ observed' \in [Blocks -> {"none", "FINALIZED", "CREDITED"}]
         /\ ClaimsKept
         /\ \A c \in Blocks : (IsRow(c)' <=> IsRow(c)) /\ (IsRow(c) => outbox'[c].user = outbox[c].user)
         /\ outbox'[b].dispatched /\ observed'[b] = "CREDITED"
         /\ \A c \in Blocks \ {b} : outbox'[c] = outbox[c] /\ observed'[c] = observed[c]
<1> DEFINE r == [outbox[b] EXCEPT !.dispatched = TRUE]
<1>1. outbox \in [Blocks -> Row \cup {NoRow}] /\ NoRow \notin Row /\ outbox[b] \in Row
      /\ observed \in [Blocks -> {"none", "FINALIZED", "CREDITED"}]
  BY RowType DEF IInv, Typed, TypeOK
<1>2. outbox' = [outbox EXCEPT ![b] = r] /\ observed' = [observed EXCEPT ![b] = "CREDITED"]
  BY <1>1, Zenon DEF MarkCredited
<1>3. r \in Row /\ r.claim = outbox[b].claim /\ r.user = outbox[b].user /\ r.dispatched = TRUE
  BY <1>1, RowUpdate
<1> HIDE DEF r
<1> QED BY <1>1, <1>2, <1>3 DEF ClaimsKept, IsRow

\* The local state of a dispatcher after a step.
BecomesBatch(d, step, cur, batch) ==
  \E l \in Batch : /\ l.step = step /\ l.cur = cur /\ l.batch = batch
                   /\ disp' = [disp EXCEPT ![d] = l]

\* A dispatcher's local state, and the row in hand.
LEMMA LocalFacts ==
  ASSUME IInv, NEW d \in Dispatchers
  PROVE  /\ disp \in [Dispatchers -> Batch] /\ disp[d] \in Batch
         /\ disp[d].batch \in SUBSET Blocks /\ disp[d].step \in Steps
         /\ \A b \in disp[d].batch : b \in Blocks /\ IsRow(b)
         /\ disp[d].step = "next" => disp[d].cur = NoBlock
         /\ disp[d].step # "next" => disp[d].cur \in disp[d].batch
  BY DEF IInv, Typed, TypeOK, Batch

LEMMA FinishBecomes ==
  ASSUME IInv, NEW d \in Dispatchers, FinishRow(d)
  PROVE  BecomesBatch(d, "next", NoBlock, disp[d].batch \ {disp[d].cur})
<1> DEFINE B == disp[d].batch \ {disp[d].cur}
           l == [disp[d] EXCEPT !.batch = B, !.step = "next", !.cur = NoBlock]
<1>1. disp \in [Dispatchers -> Batch] /\ disp[d] \in Batch /\ B \in SUBSET Blocks
  BY LocalFacts
<1>2. disp' = [disp EXCEPT ![d] = l]
  BY <1>1, Zenon DEF FinishRow
<1> HIDE DEF B
<1>3. l \in Batch
  BY <1>1 DEF Batch, Steps
<1>4. l.step = "next" /\ l.cur = NoBlock
  BY <1>1 DEF Batch
<1>5. l.batch = B
  BY <1>1 DEF Batch
<1> HIDE DEF l
<1> QED BY <1>2, <1>3, <1>4, <1>5 DEF BecomesBatch, B

LEMMA NoBatchBecomes ==
  ASSUME NEW d \in Dispatchers, disp' = [disp EXCEPT ![d] = NoBatch]
  PROVE  BecomesBatch(d, "next", NoBlock, {})
  BY DEF BecomesBatch, NoBatch, Batch, Steps

\* claim_batch
LEMMA ClaimFacts ==
  ASSUME IInv, NEW d \in Dispatchers, ClaimBatch(d)
  PROVE  \E rows \in SUBSET Blocks :
           /\ BecomesBatch(d, "next", NoBlock, rows) /\ disp[d].batch = {} /\ RowsKept
           /\ \A b \in rows : IsRow(b) /\ outbox[b].claim # "live" /\ outbox'[b].claim = "live"
           /\ \A b \in Blocks \ rows : outbox'[b] = outbox[b]
<1> DEFINE ready == {b \in Blocks : Claimable(b)}
           rows == {b \in ready : Cardinality({c \in ready : c < b}) < BatchSize}
           l == [disp[d] EXCEPT !.batch = rows]
<1>1. /\ outbox' = [b \in Blocks |-> IF b \in rows THEN [outbox[b] EXCEPT !.claim = "live"] ELSE outbox[b]]
      /\ disp' = [disp EXCEPT ![d].batch = rows] /\ disp[d].step = "next" /\ disp[d].batch = {}
  BY Zenon DEF ClaimBatch
<1>2. rows \in SUBSET Blocks /\ \A b \in rows : IsRow(b) /\ outbox[b].claim # "live"
  BY DEF Claimable
<1> HIDE DEF rows
<1>3. disp \in [Dispatchers -> Batch] /\ disp[d] \in Batch /\ disp[d].cur = NoBlock
  BY <1>1, LocalFacts
<1>4. disp' = [disp EXCEPT ![d] = l]
  BY <1>1, <1>3, Zenon
<1>5. l \in Batch
  BY <1>2, <1>3 DEF Batch
<1>6. l.step = "next" /\ l.cur = NoBlock
  BY <1>1, <1>3 DEF Batch
<1>7. l.batch = rows
  BY <1>3 DEF Batch
<1> HIDE DEF l
<1>8. BecomesBatch(d, "next", NoBlock, rows)
  BY <1>4, <1>5, <1>6, <1>7 DEF BecomesBatch
<1>9. ASSUME NEW b \in rows
      PROVE  /\ b \in Blocks /\ outbox'[b] \in Row /\ outbox'[b].claim = "live"
             /\ outbox'[b].user = outbox[b].user /\ outbox'[b].dispatched = outbox[b].dispatched
  <2>1. b \in Blocks /\ outbox[b] \in Row /\ outbox'[b] = [outbox[b] EXCEPT !.claim = "live"]
    BY <1>1, <1>2, RowType
  <2> DEFINE r == [outbox[b] EXCEPT !.claim = "live"]
  <2>2. r \in Row
    BY <2>1 DEF Row
  <2>3. r.claim = "live" /\ r.user = outbox[b].user /\ r.dispatched = outbox[b].dispatched
    BY <2>1 DEF Row
  <2> HIDE DEF r
  <2> QED BY <2>1, <2>2, <2>3 DEF r
<1>10. \A b \in Blocks \ rows : outbox'[b] = outbox[b]
  BY <1>1
<1>11. outbox' \in [Blocks -> Row \cup {NoRow}]
  <2>1. \A b \in Blocks : outbox'[b] \in Row \cup {NoRow}
    BY <1>9, <1>10, RowType
  <2>2. outbox' = [b \in Blocks |-> outbox'[b]]
    BY <1>1
  <2> QED BY <2>1, <2>2
<1>12. RowsKept
  BY <1>2, <1>9, <1>10, <1>11, RowType DEF RowsKept, IsRow
<1> QED BY <1>1, <1>2, <1>8, <1>9, <1>10, <1>12

\* tao_to_credits
LEMMA ConvertFacts ==
  ASSUME IInv, NEW d \in Dispatchers, Convert(d)
  PROVE  \E b \in disp[d].batch :
           /\ b \in Blocks /\ IsRow(b)
           /\ \/ BecomesBatch(d, "apply", b, disp[d].batch) /\ UNCHANGED <<outbox, failures>>
              \/ BecomesBatch(d, "next", NoBlock, disp[d].batch \ {b}) /\ Failure /\ TryBackoff(b)
<1>1. disp[d].step = "next"
  BY DEF Convert
<1>2. disp \in [Dispatchers -> Batch] /\ disp[d] \in Batch /\ disp[d].cur = NoBlock
      /\ disp[d].batch \in SUBSET Blocks
  BY <1>1, LocalFacts
<1>3. PICK b \in disp[d].batch :
        \/ /\ disp' = [disp EXCEPT ![d].step = "apply", ![d].cur = b]
           /\ UNCHANGED <<outbox, failures>>
        \/ /\ Failure /\ TryBackoff(b)
           /\ disp' = [disp EXCEPT ![d].batch = @ \ {b}]
  BY Zenon DEF Convert
<1>4. b \in Blocks /\ IsRow(b)
  BY LocalFacts
<1>5. CASE /\ disp' = [disp EXCEPT ![d].step = "apply", ![d].cur = b]
           /\ UNCHANGED <<outbox, failures>>
  <2> DEFINE l == [disp[d] EXCEPT !.step = "apply", !.cur = b]
  <2>1. disp' = [disp EXCEPT ![d] = l]
    BY <1>2, <1>5, Zenon
  <2>2. l \in Batch
    BY <1>2, <1>4 DEF Batch, Steps
  <2>3. l.step = "apply" /\ l.cur = b
    BY <1>2, <1>4 DEF Batch
  <2>4. l.batch = disp[d].batch
    BY <1>2, <1>4 DEF Batch
  <2> HIDE DEF l
  <2>5. BecomesBatch(d, "apply", b, disp[d].batch)
    BY <2>1, <2>2, <2>3, <2>4 DEF BecomesBatch
  <2> QED BY <1>4, <1>5, <2>5
<1>6. CASE /\ Failure /\ TryBackoff(b)
           /\ disp' = [disp EXCEPT ![d].batch = @ \ {b}]
  <2> DEFINE B == disp[d].batch \ {b}
             l == [disp[d] EXCEPT !.batch = B]
  <2>1. disp' = [disp EXCEPT ![d] = l]
    BY <1>2, <1>6, Zenon
  <2>2. B \in SUBSET Blocks
    BY <1>2
  <2> HIDE DEF B
  <2>3. l \in Batch
    BY <1>2, <2>2 DEF Batch
  <2>4. l.step = "next" /\ l.cur = NoBlock
    BY <1>1, <1>2 DEF Batch
  <2>5. l.batch = B
    BY <1>2 DEF Batch
  <2> HIDE DEF l
  <2>6. BecomesBatch(d, "next", NoBlock, disp[d].batch \ {b})
    BY <2>1, <2>3, <2>4, <2>5 DEF BecomesBatch, B
  <2> QED BY <1>4, <1>6, <2>6
<1> QED BY <1>3, <1>4, <1>5, <1>6

\* apply_credits: a credit and on to mark, or an error.
LEMMA ApplyFacts ==
  ASSUME IInv, NEW d \in Dispatchers, ApplyCredits(d)
  PROVE  LET b == disp[d].cur IN
         /\ b \in Blocks /\ b \in disp[d].batch /\ IsRow(b) /\ disp[d].step = "apply"
         /\ \/ /\ applied' = [applied EXCEPT ![b] = @ + 1]
               /\ BecomesBatch(d, "mark", b, disp[d].batch)
               /\ UNCHANGED <<outbox, failures>>
            \/ /\ applied' \in {applied, [applied EXCEPT ![b] = @ + 1]} /\ Failure
               /\ TryBackoff(b)
               /\ \/ BecomesBatch(d, "next", NoBlock, disp[d].batch \ {b})
                  \/ BecomesBatch(d, "next", NoBlock, {})
<1> DEFINE b == disp[d].cur
<1>1. disp[d].step = "apply"
  BY DEF ApplyCredits
<1>2. disp \in [Dispatchers -> Batch] /\ disp[d] \in Batch
      /\ b \in Blocks /\ b \in disp[d].batch /\ IsRow(b)
  BY <1>1, LocalFacts
<1>3. \/ /\ applied' = [applied EXCEPT ![b] = @ + 1] /\ UNCHANGED <<outbox, failures>>
         /\ disp' = [disp EXCEPT ![d].step = "mark"]
      \/ /\ applied' \in {applied, [applied EXCEPT ![b] = @ + 1]} /\ Failure /\ TryBackoff(b)
         /\ FinishRow(d) \/ disp' = [disp EXCEPT ![d] = NoBatch]
  BY Zenon DEF ApplyCredits, IsCredited, TryBackoff
<1>4. ASSUME disp' = [disp EXCEPT ![d].step = "mark"]
      PROVE  BecomesBatch(d, "mark", b, disp[d].batch)
  <2> DEFINE l == [disp[d] EXCEPT !.step = "mark"]
  <2>1. disp' = [disp EXCEPT ![d] = l]
    BY <1>2, <1>4, Zenon
  <2>2. l \in Batch
    BY <1>2 DEF Batch, Steps
  <2>3. l.step = "mark" /\ l.cur = b
    BY <1>2 DEF Batch
  <2>4. l.batch = disp[d].batch
    BY <1>2 DEF Batch
  <2> HIDE DEF l
  <2> QED BY <2>1, <2>2, <2>3, <2>4 DEF BecomesBatch
<1> QED BY <1>1, <1>2, <1>3, <1>4, FinishBecomes, NoBatchBecomes

\* The row in hand is marked, or not, and left behind.
LEMMA MarkFacts ==
  ASSUME IInv, NEW d \in Dispatchers, Mark(d)
  PROVE  LET b == disp[d].cur IN
         /\ b \in Blocks /\ b \in disp[d].batch /\ IsRow(b) /\ disp[d].step = "mark"
         /\ BecomesBatch(d, "next", NoBlock, disp[d].batch \ {b})
         /\ UNCHANGED failures \/ Failure
         /\ MarkCredited(b) \/ (TryBackoff(b) /\ UNCHANGED observed)
<1>1. disp[d].step = "mark" /\ FinishRow(d)
  BY DEF Mark
<1>2. disp[d].cur \in Blocks /\ disp[d].cur \in disp[d].batch /\ IsRow(disp[d].cur)
  BY <1>1, LocalFacts
<1> QED BY <1>1, <1>2, FinishBecomes, Zenon DEF Mark

\* The types after a step of a dispatcher that only touches its own local state and
\* rows that stay.
LEMMA BatchTypes ==
  ASSUME IInv, hung' \subseteq Dispatchers, NEW d \in Dispatchers, NEW s, NEW c, NEW B \in SUBSET Blocks,
         BecomesBatch(d, s, c, B), \A b \in B : IsRow(b)',
         RowsStay, outbox' \in [Blocks -> Row \cup {NoRow}],
         IF s = "next" THEN c = NoBlock ELSE c \in B,
         observed' \in [Blocks -> {"none", "FINALIZED", "CREDITED"}],
         applied' \in [Blocks -> Nat], failures' \in 0 .. MaxFailures,
         UNCHANGED <<accounts, generated, handler, promised, height, dest, monitor, lapses>>
  PROVE  Typed'
<1>1. PICK l \in Batch : l.step = s /\ l.cur = c /\ l.batch = B /\ disp' = [disp EXCEPT ![d] = l]
  BY DEF BecomesBatch
<1>2. /\ disp' \in [Dispatchers -> Batch]
      /\ \A e \in Dispatchers :
           /\ disp'[e].batch \subseteq {b \in Blocks : IsRow(b)'}
           /\ disp'[e].step \in {"next", "apply", "mark"}
           /\ IF disp'[e].step = "next" THEN disp'[e].cur = NoBlock
              ELSE disp'[e].cur \in disp'[e].batch
  BY <1>1, DispatcherType
<1> QED BY <1>2 DEF IInv, Typed, TypeOK, IsRow

\* What stays the same in every step of a dispatcher.
LEMMA DispatcherFrame ==
  ASSUME NEW d \in Dispatchers, ClaimBatch(d) \/ Convert(d) \/ ApplyCredits(d) \/ Mark(d) \/ Crash(d)
  PROVE  /\ UNCHANGED <<accounts, generated, handler, promised, height, dest, monitor, lapses>>
         /\ ~Mark(d) => UNCHANGED observed
         /\ ~ApplyCredits(d) => UNCHANGED applied
  BY DEF ClaimBatch, Convert, ApplyCredits, Mark, Crash, dbvars

\* Rows that are kept stay.
LEMMA KeptStay == RowsKept => RowsStay /\ outbox' \in [Blocks -> Row \cup {NoRow}]
  BY DEF RowsKept, RowsStay

\* The dispatchers.
LEMMA DispatcherTypes ==
  ASSUME IInv, hung' \subseteq Dispatchers, NEW d \in Dispatchers,
         ClaimBatch(d) \/ Convert(d) \/ ApplyCredits(d) \/ Mark(d) \/ Crash(d)
  PROVE  Typed'
<1>1. /\ observed \in [Blocks -> {"none", "FINALIZED", "CREDITED"}] /\ applied \in [Blocks -> Nat]
      /\ failures \in 0 .. MaxFailures /\ outbox \in [Blocks -> Row \cup {NoRow}]
  BY DEF IInv, Typed, TypeOK
<1>2. UNCHANGED outbox => RowsStay /\ outbox' \in [Blocks -> Row \cup {NoRow}]
  BY <1>1 DEF RowsStay, IsRow
<1>3. disp[d].batch \in SUBSET Blocks /\ \A b \in disp[d].batch : b \in Blocks /\ IsRow(b)
  BY LocalFacts
<1>4. UNCHANGED <<accounts, generated, handler, promised, height, dest, monitor, lapses>>
  BY DispatcherFrame
<1>5. CASE ClaimBatch(d)
  <2>1. PICK rows \in SUBSET Blocks :
          BecomesBatch(d, "next", NoBlock, rows) /\ RowsKept /\ \A b \in rows : IsRow(b)
    BY <1>5, ClaimFacts
  <2>2. UNCHANGED <<observed, applied, failures>>
    BY <1>5 DEF ClaimBatch
  <2>3. RowsStay /\ outbox' \in [Blocks -> Row \cup {NoRow}] /\ \A b \in rows : IsRow(b)'
    BY <2>1, KeptStay DEF RowsStay
  <2> QED BY <1>1, <1>4, <2>1, <2>2, <2>3, BatchTypes
<1>6. CASE Convert(d)
  <2>1. PICK b \in disp[d].batch :
          /\ b \in Blocks /\ IsRow(b)
          /\ \/ BecomesBatch(d, "apply", b, disp[d].batch) /\ UNCHANGED <<outbox, failures>>
             \/ BecomesBatch(d, "next", NoBlock, disp[d].batch \ {b}) /\ Failure /\ TryBackoff(b)
    BY <1>6, ConvertFacts
  <2>2. UNCHANGED <<observed, applied>>
    BY <1>6 DEF Convert
  <2>3. CASE BecomesBatch(d, "apply", b, disp[d].batch) /\ UNCHANGED <<outbox, failures>>
    <3>1. \A x \in disp[d].batch : IsRow(x)'
      BY <1>2, <1>3, <2>3 DEF RowsStay
    <3> QED BY <1>1, <1>2, <1>3, <1>4, <2>2, <2>3, <3>1, BatchTypes
  <2>4. CASE BecomesBatch(d, "next", NoBlock, disp[d].batch \ {b}) /\ Failure /\ TryBackoff(b)
    <3>1. RowsStay /\ outbox' \in [Blocks -> Row \cup {NoRow}] /\ failures' \in 0 .. MaxFailures
      BY <1>1, <2>1, <2>4, BackoffKeeps, KeptStay, FailureType
    <3>2. \A x \in disp[d].batch \ {b} : IsRow(x)'
      BY <1>3, <3>1 DEF RowsStay
    <3>3. disp[d].batch \ {b} \in SUBSET Blocks
      BY <1>3
    <3> QED BY <1>1, <1>4, <2>2, <2>4, <3>1, <3>2, <3>3, BatchTypes
  <2> QED BY <2>1, <2>3, <2>4
<1>7. CASE ApplyCredits(d)
  <2> DEFINE b == disp[d].cur
  <2>1. /\ b \in Blocks /\ b \in disp[d].batch /\ IsRow(b)
        /\ \/ /\ applied' = [applied EXCEPT ![b] = @ + 1]
              /\ BecomesBatch(d, "mark", b, disp[d].batch)
              /\ UNCHANGED <<outbox, failures>>
           \/ /\ applied' \in {applied, [applied EXCEPT ![b] = @ + 1]} /\ Failure
              /\ TryBackoff(b)
              /\ \/ BecomesBatch(d, "next", NoBlock, disp[d].batch \ {b})
                 \/ BecomesBatch(d, "next", NoBlock, {})
    BY <1>7, ApplyFacts
  <2>2. UNCHANGED observed /\ applied' \in [Blocks -> Nat]
    <3>1. applied' \in {applied, [applied EXCEPT ![b] = @ + 1]}
      BY <2>1
    <3> QED BY <1>1, <1>7, <2>1, <3>1 DEF ApplyCredits
  <2> HIDE DEF b
  <2>3. CASE BecomesBatch(d, "mark", b, disp[d].batch) /\ UNCHANGED <<outbox, failures>>
    <3>1. \A x \in disp[d].batch : IsRow(x)'
      BY <1>2, <1>3, <2>3 DEF RowsStay
    <3> QED BY <1>1, <1>2, <1>3, <1>4, <2>1, <2>2, <2>3, <3>1, BatchTypes
  <2>4. CASE /\ Failure /\ TryBackoff(b)
             /\ \/ BecomesBatch(d, "next", NoBlock, disp[d].batch \ {b})
                \/ BecomesBatch(d, "next", NoBlock, {})
    <3>1. RowsStay /\ outbox' \in [Blocks -> Row \cup {NoRow}] /\ failures' \in 0 .. MaxFailures
      BY <1>1, <2>1, <2>4, BackoffKeeps, KeptStay, FailureType
    <3>2. PICK B \in {disp[d].batch \ {b}, {}} : BecomesBatch(d, "next", NoBlock, B)
      BY <2>4
    <3>3. B \in SUBSET Blocks /\ \A x \in B : IsRow(x)'
      BY <1>3, <3>1 DEF RowsStay
    <3> QED BY <1>1, <1>4, <2>2, <3>1, <3>2, <3>3, BatchTypes
  <2> QED BY <2>1, <2>3, <2>4
<1>8. CASE Mark(d)
  <2> DEFINE b == disp[d].cur
  <2>1. /\ b \in Blocks /\ IsRow(b) /\ BecomesBatch(d, "next", NoBlock, disp[d].batch \ {b})
        /\ UNCHANGED failures \/ Failure
        /\ MarkCredited(b) \/ (TryBackoff(b) /\ UNCHANGED observed)
    BY <1>8, MarkFacts
  <2> HIDE DEF b
  <2>2. /\ RowsStay /\ outbox' \in [Blocks -> Row \cup {NoRow}]
        /\ observed' \in [Blocks -> {"none", "FINALIZED", "CREDITED"}]
    <3>1. CASE MarkCredited(b)
      BY <2>1, <3>1, MarkRows DEF RowsStay
    <3>2. CASE TryBackoff(b) /\ UNCHANGED observed
      BY <1>1, <2>1, <3>2, BackoffKeeps, KeptStay
    <3> QED BY <2>1, <3>1, <3>2
  <2>3. failures' \in 0 .. MaxFailures /\ UNCHANGED applied
    BY <1>1, <1>8, <2>1, FailureType DEF Mark
  <2>4. disp[d].batch \ {b} \in SUBSET Blocks /\ \A x \in disp[d].batch \ {b} : IsRow(x)'
    BY <1>3, <2>2 DEF RowsStay
  <2> QED BY <1>1, <1>4, <2>1, <2>2, <2>3, <2>4, BatchTypes
<1>9. CASE Crash(d)
  <2>1. BecomesBatch(d, "next", NoBlock, {}) /\ UNCHANGED <<outbox, observed, applied>> /\ Failure
    BY <1>9, NoBatchBecomes DEF Crash, dbvars
  <2>2. failures' \in 0 .. MaxFailures
    BY <1>1, <2>1, FailureType
  <2> QED BY <1>1, <1>2, <1>4, <2>1, <2>2, BatchTypes
<1> QED BY <1>5, <1>6, <1>7, <1>8, <1>9

\* The clock.
LEMMA ClockTypes ==
  ASSUME IInv, hung' \subseteq Dispatchers, NEW b \in Blocks, LeaseExpires(b) \/ BackoffElapses(b)
  PROVE  Typed' /\ RowsKept
<1>1. UNCHANGED <<accounts, observed, generated, handler, promised, height, dest, monitor, disp, applied>>
  BY DEF LeaseExpires, BackoffElapses
<1>2. RowsKept
  BY LeaseKeeps, DueKeeps DEF BackoffElapses
<1>3. failures' \in 0 .. MaxFailures
  <2>1. UNCHANGED failures \/ Failure
    BY DEF LeaseExpires, BackoffElapses
  <2> QED BY <2>1, FailureType DEF IInv, Typed, TypeOK
<1>4. lapses' \in [Blocks -> Nat]
  <2>1. lapses' \in {lapses, [lapses EXCEPT ![b] = @ + 1]} /\ lapses \in [Blocks -> Nat]
    BY DEF LeaseExpires, BackoffElapses, IInv, Typed, TypeOK
  <2> QED BY <2>1
<1>5. RowsStay /\ outbox' \in [Blocks -> Row \cup {NoRow}]
  BY <1>2, KeptStay
<1> QED BY <1>1, <1>2, <1>3, <1>4, <1>5 DEF IInv, Typed, TypeOK, RowsStay

\* A dispatcher that hangs changes no other variable.
LEMMA HangFrame ==
  ASSUME NEW d \in Dispatchers, PriceHangs(d)
  PROVE  /\ UNCHANGED <<accounts, observed, outbox, generated, handler, promised, height, dest, monitor,
                         disp, applied, failures, processed, lapses>>
         /\ hung' = hung \cup {d}
  BY DEF PriceHangs, dbvars

\* Only dispatchers hang.
LEMMA HungType ==
  ASSUME IInv, [Next]_vars
  PROVE  hung' \subseteq Dispatchers
<1>1. hung \subseteq Dispatchers
  BY DEF IInv, Typed, TypeOK
<1>2. CASE \E d \in Dispatchers : PriceHangs(d) \/ Crash(d)
  BY <1>1, <1>2 DEF PriceHangs, Crash
<1>3. CASE ~\E d \in Dispatchers : PriceHangs(d) \/ Crash(d)
  <2>1. UNCHANGED hung
    BY <1>3 DEF Next, vars, CreateDepositAccount, InsertDepositAccount, Finalize, MonitorLoad,
       MonitorSubscribe, MonitorStop, ProcessBlock, ClaimBatch, Convert, ApplyCredits, Mark,
       LeaseExpires, BackoffElapses
  <2> QED BY <1>1, <2>1
<1> QED BY <1>2, <1>3

\* Every step keeps the types.
LEMMA TypesStep ==
  ASSUME IInv, [Next]_vars
  PROVE  Typed'
<1>1. CASE UNCHANGED vars
  BY <1>1 DEF vars, dbvars, IInv, Typed, TypeOK, IsRow
<1>2. CASE \E d \in Dispatchers : PriceHangs(d)
  BY <1>2, HungType, HangFrame DEF IInv, Typed, TypeOK, IsRow
<1> QED BY <1>1, <1>2, HungType, HandlerTypes, FinalizeTypes, MonitorTypes, DispatcherTypes, ClockTypes DEF Next

-----------------------------------------------------------------------------
(* Addresses.                                                              *)

\* The parts of the invariant about addresses, calls and what monitors know.
Addresses == AccountsOK /\ HandlersOK /\ AddressStable

\* A new hotkey.
LEMMA CreateAddresses ==
  ASSUME IInv, NEW h \in Handlers, NEW u \in Users, CreateDepositAccount(h, u)
  PROVE  Addresses' /\ UNCHANGED accounts
<1>1. /\ accounts \in [Users -> AccountIds \cup {NoAccount}] /\ generated \in Nat
      /\ handler \in [Handlers -> [user: Users, account: AccountIds] \cup {NoCall}]
      /\ NoAccount \notin AccountIds
  BY PaymentsAssumption DEF IInv, Typed, TypeOK, AccountIds
<1>2. AccountsOK /\ HandlersOK /\ AddressStable
  BY DEF IInv
<1>3. UNCHANGED accounts
  BY DEF CreateDepositAccount, dbvars
<1>4. CASE accounts[u] # NoAccount
  <2>1. promised' = promised \cup {<<u, accounts[u]>>} /\ UNCHANGED <<handler, generated>>
    BY <1>4 DEF CreateDepositAccount
  <2>2. AddressStable'
    BY <1>2, <1>3, <1>4, <2>1 DEF AddressStable, AccountsOK
  <2> QED BY <1>2, <1>3, <2>1, <2>2 DEF Addresses, AccountsOK, HandlersOK
<1>5. CASE accounts[u] = NoAccount
  <2> DEFINE c == [user |-> u, account |-> generated + 1]
  <2>1. /\ generated' = generated + 1 /\ UNCHANGED promised
        /\ handler' = [handler EXCEPT ![h] = c]
    BY <1>5 DEF CreateDepositAccount
  <2>2. \A v \in Users : accounts[v] # NoAccount => accounts[v] \in Nat /\ accounts[v] <= generated
    BY <1>1, <1>2 DEF AccountsOK, AccountIds
  <2>3. \A k \in Handlers : handler[k] # NoCall =>
          handler[k].account \in Nat /\ handler[k].account <= generated
    BY <1>1, <1>2 DEF HandlersOK, AccountIds
  <2>4. NoAccount # generated + 1
    <3>1. generated + 1 \in AccountIds
      BY <1>1, <1>5, PaymentsAssumption DEF CreateDepositAccount, AccountIds
    <3> QED BY <1>1, <3>1
  <2>5. handler'[h] = c /\ \A k \in Handlers \ {h} : handler'[k] = handler[k]
    BY <1>1, <2>1
  <2>6. AccountsOK'
    BY <1>1, <1>2, <1>3, <2>1, <2>2 DEF AccountsOK
  <2>7. \A v \in Users : accounts[v] # generated + 1
    BY <1>1, <2>2, <2>4
  <2>8. HandlersOK'
    <3>1. ASSUME NEW k \in Handlers, handler'[k] # NoCall
          PROVE  handler'[k].account <= generated' /\ \A v \in Users : accounts'[v] # handler'[k].account
      BY <1>1, <1>2, <1>3, <2>1, <2>3, <2>5, <2>7, <3>1 DEF HandlersOK
    <3>2. ASSUME NEW k \in Handlers, NEW j \in Handlers, handler'[k] # NoCall, handler'[j] # NoCall,
                 handler'[k].account = handler'[j].account
          PROVE  k = j
      BY <1>1, <1>2, <2>3, <2>5, <3>2 DEF HandlersOK
    <3> QED BY <3>1, <3>2 DEF HandlersOK
  <2> QED BY <1>2, <1>3, <2>1, <2>6, <2>8 DEF Addresses, AddressStable
<1> QED BY <1>3, <1>4, <1>5

\* The insert, or its failure.
LEMMA InsertAddresses ==
  ASSUME IInv, NEW h \in Handlers, InsertDepositAccount(h)
  PROVE  /\ Addresses'
         /\ \A u \in Users : accounts[u] # NoAccount => accounts'[u] = accounts[u]
<1> DEFINE c == handler[h]
<1>1. /\ accounts \in [Users -> AccountIds \cup {NoAccount}]
      /\ handler \in [Handlers -> [user: Users, account: AccountIds] \cup {NoCall}]
      /\ NoAccount \notin AccountIds
  BY PaymentsAssumption DEF IInv, Typed, TypeOK, AccountIds
<1>2. AccountsOK /\ HandlersOK /\ AddressStable
  BY DEF IInv
<1>3. c # NoCall /\ c \in [user: Users, account: AccountIds] /\ c.user \in Users /\ c.account \in AccountIds
  BY <1>1 DEF InsertDepositAccount
<1>4. handler' = [handler EXCEPT ![h] = NoCall] /\ UNCHANGED generated
  BY DEF InsertDepositAccount
<1>5. handler'[h] = NoCall /\ \A k \in Handlers \ {h} : handler'[k] = handler[k]
  BY <1>1, <1>4
<1>6. CASE UNCHANGED <<accounts, promised>>
  BY <1>2, <1>4, <1>5, <1>6 DEF Addresses, AccountsOK, HandlersOK, AddressStable
<1>7. CASE /\ accounts[c.user] = NoAccount /\ accounts' = [accounts EXCEPT ![c.user] = c.account]
           /\ promised' \in {promised, promised \cup {<<c.user, c.account>>}}
  <2>1. accounts'[c.user] = c.account /\ \A u \in Users \ {c.user} : accounts'[u] = accounts[u]
    <3> HIDE DEF c
    <3> QED BY <1>1, <1>3, <1>7
  <2>2. c.account <= generated /\ \A u \in Users : accounts[u] # c.account
    BY <1>2, <1>3 DEF HandlersOK
  <2> HIDE DEF c
  <2>3. AccountsOK'
    BY <1>2, <1>3, <1>4, <2>1, <2>2 DEF AccountsOK
  <2>4. HandlersOK'
    <3>1. \A k \in Handlers : handler'[k] # NoCall => k # h /\ handler'[k] = handler[k]
      BY <1>5
    <3>2. \A k \in Handlers : handler'[k] # NoCall => handler[k].account # c.account
      BY <1>2, <1>3, <3>1 DEF HandlersOK, c
    <3> QED BY <1>2, <1>3, <1>4, <2>1, <3>1, <3>2 DEF HandlersOK
  <2>5. AddressStable'
    <3>1. \A p \in promised : \A u \in Users : accounts[u] = p[2] <=> u = p[1]
      BY <1>2 DEF AddressStable
    <3>2. \A p \in promised : p \in Users \X AccountIds
      BY DEF IInv, Typed, TypeOK
    <3>3. \A p \in promised : accounts[p[1]] = p[2] /\ p[1] # c.user /\ p[2] # c.account
      BY <1>1, <1>7, <2>2, <3>1, <3>2
    <3>4. \A p \in promised : \A u \in Users : accounts'[u] = p[2] <=> u = p[1]
      BY <2>1, <3>1, <3>3
    <3>5. \A u \in Users : accounts'[u] = c.account <=> u = c.user
      BY <2>1, <2>2
    <3> QED BY <1>7, <3>4, <3>5 DEF AddressStable
  <2> QED BY <1>7, <2>1, <2>3, <2>4, <2>5 DEF Addresses
<1> QED BY <1>6, <1>7 DEF InsertDepositAccount, CanInsert

\* Every step keeps the addresses, and an account once stored stays.
LEMMA AddressStep ==
  ASSUME IInv, [Next]_vars
  PROVE  /\ Addresses'
         /\ \A u \in Users : accounts[u] # NoAccount => accounts'[u] = accounts[u]
<1>1. CASE UNCHANGED <<accounts, generated, handler, promised>>
  BY <1>1 DEF IInv, Addresses, AccountsOK, HandlersOK, AddressStable
<1>2. CASE \E h \in Handlers : (\E u \in Users : CreateDepositAccount(h, u)) \/ InsertDepositAccount(h)
  BY <1>2, CreateAddresses, InsertAddresses
<1>3. CASE \E a \in AccountIds \cup {NoAccount} : Finalize(a)
  BY <1>1, <1>3 DEF Finalize, dbvars
<1>4. CASE \E m \in Monitors : MonitorLoad(m) \/ MonitorSubscribe(m) \/ MonitorStop(m) \/ ProcessBlock(m)
  BY <1>1, <1>4 DEF MonitorLoad, MonitorSubscribe, MonitorStop, ProcessBlock, dbvars
<1>5. CASE \E d \in Dispatchers : ClaimBatch(d) \/ Convert(d) \/ ApplyCredits(d) \/ Mark(d) \/ Crash(d)
  BY <1>1, <1>5, DispatcherFrame
<1>6. CASE \E b \in Blocks : LeaseExpires(b) \/ BackoffElapses(b)
  BY <1>1, <1>6 DEF LeaseExpires, BackoffElapses
<1>7. CASE UNCHANGED vars
  BY <1>1, <1>7 DEF vars, dbvars
<1>8. CASE \E d \in Dispatchers : PriceHangs(d)
  BY <1>1, <1>8, HangFrame
<1> QED BY <1>2, <1>3, <1>4, <1>5, <1>6, <1>7, <1>8 DEF Next

-----------------------------------------------------------------------------
(* Monitors.                                                               *)

\* Accounts only become more, so what a monitor knows stays stored.
LEMMA StoredGrows ==
  ASSUME IInv, [Next]_vars
  PROVE  StoredAccounts \subseteq StoredAccounts'
<1>1. \A u \in Users : accounts[u] # NoAccount => accounts'[u] = accounts[u]
  BY AddressStep
<1> QED BY <1>1 DEF StoredAccounts

\* Every step keeps what is said of monitors.
LEMMA MonitorsStep ==
  ASSUME IInv, [Next]_vars
  PROVE  MonitorsOK'
<1>1. StoredAccounts \subseteq StoredAccounts'
  BY StoredGrows
<1>2. MonitorsOK
  BY DEF IInv
<1>3. CASE UNCHANGED monitor
  BY <1>1, <1>2, <1>3 DEF MonitorsOK
<1>4. CASE \E m \in Monitors : MonitorLoad(m) \/ MonitorSubscribe(m) \/ MonitorStop(m) \/ ProcessBlock(m)
  <2> PICK m \in Monitors : MonitorLoad(m) \/ MonitorSubscribe(m) \/ MonitorStop(m) \/ ProcessBlock(m)
    BY <1>4
  <2>1. PICK r \in MonitorRecord :
          /\ monitor' = [monitor EXCEPT ![m] = r]
          /\ r.known \subseteq StoredAccounts /\ (r.phase = "up" => r.next >= 1)
    <3>1. monitor[m].known \subseteq StoredAccounts
      BY <1>2 DEF MonitorsOK
    <3>2. CASE MonitorLoad(m)
      BY <3>2, LoadValue
    <3>3. CASE MonitorSubscribe(m)
      BY <3>1, <3>3, SubscribeValue
    <3>4. CASE MonitorStop(m)
      BY <3>4, StopValue
    <3>5. CASE ProcessBlock(m)
      BY <3>1, <3>5, ProcessValue
    <3> QED BY <3>2, <3>3, <3>4, <3>5
  <2>2. monitor \in [Monitors -> MonitorRecord]
    BY DEF IInv, Typed, TypeOK, MonitorRecord
  <2> QED BY <1>1, <1>2, <2>1, <2>2 DEF MonitorsOK
<1> QED BY <1>3, <1>4 DEF Next, vars, dbvars, CreateDepositAccount, InsertDepositAccount, Finalize,
        ClaimBatch, Convert, PriceHangs, ApplyCredits, Mark, Crash, LeaseExpires, BackoffElapses

-----------------------------------------------------------------------------
(* Rows, and credits that were given.                                      *)

\* No step takes a credit back, and a finalized block stays as it is.
LEMMA HistoryGrows ==
  ASSUME IInv, [Next]_vars
  PROVE  /\ \A b \in Blocks : applied'[b] >= applied[b]
         /\ \A b \in Blocks : IsRow(b) => b <= height' /\ dest'[b] = dest[b]
<1>1. applied \in [Blocks -> Nat] /\ height \in 0 .. MaxBlocks /\ dest \in [Blocks -> AccountIds \cup {NoAccount}]
  BY DEF IInv, Typed, TypeOK
<1>2. \A b \in Blocks : IsRow(b) => b <= height
  BY DEF IInv, RowsOK
<1>3. \A b \in Blocks : applied'[b] >= applied[b]
  <2>1. CASE UNCHANGED applied
    BY <1>1, <2>1
  <2>2. CASE \E d \in Dispatchers : ApplyCredits(d)
    <3> PICK d \in Dispatchers : ApplyCredits(d)
      BY <2>2
    <3>1. applied' \in {applied, [applied EXCEPT ![disp[d].cur] = @ + 1]}
      BY ApplyFacts
    <3> QED BY <1>1, <3>1
  <2> QED BY <2>1, <2>2, DispatcherFrame, HangFrame DEF Next, vars, dbvars, CreateDepositAccount, InsertDepositAccount,
          Finalize, MonitorLoad, MonitorSubscribe, MonitorStop, ProcessBlock, LeaseExpires, BackoffElapses
<1>4. \A b \in Blocks : IsRow(b) => b <= height' /\ dest'[b] = dest[b]
  <2>1. CASE UNCHANGED <<height, dest>>
    BY <1>2, <2>1
  <2>2. CASE \E a \in AccountIds \cup {NoAccount} : Finalize(a)
    <3>1. PICK a : height' = height + 1 /\ dest' = [dest EXCEPT ![height + 1] = a]
      BY <2>2 DEF Finalize
    <3> QED BY <1>1, <1>2, <3>1 DEF Blocks
  <2> QED BY <2>1, <2>2, DispatcherFrame, HangFrame DEF Next, vars, CreateDepositAccount, InsertDepositAccount,
          MonitorLoad, MonitorSubscribe, MonitorStop, ProcessBlock, LeaseExpires, BackoffElapses
<1> QED BY <1>3, <1>4

\* The user of a row keeps the account that was paid.
LEMMA OwnersStay ==
  ASSUME IInv, [Next]_vars, NEW b \in Blocks, IsRow(b)
  PROVE  /\ accounts'[outbox[b].user] = dest'[b] /\ dest'[b] # NoAccount /\ b <= height'
         /\ outbox[b].dispatched => applied'[b] >= 1
<1>1. outbox[b].user \in Users
  BY RowType DEF Row
<1>2. accounts[outbox[b].user] = dest[b] /\ dest[b] # NoAccount /\ (outbox[b].dispatched => applied[b] >= 1)
  BY DEF IInv, RowsOK, DispatchedWasApplied
<1>3. dest'[b] = dest[b] /\ b <= height' /\ applied'[b] >= applied[b]
  BY HistoryGrows
<1>4. applied[b] \in Nat /\ applied'[b] \in Nat
  BY TypesStep DEF IInv, Typed, TypeOK
<1> QED BY <1>1, <1>2, <1>3, <1>4, AddressStep

\* Steps that leave rows and observed deposits as they are.
LEMMA KeptRows ==
  ASSUME IInv, [Next]_vars, RowsKept, UNCHANGED observed
  PROVE  RowsOK'
<1>1. QueuedWithObserved
  BY DEF IInv, RowsOK
<1>2. QueuedWithObserved'
  BY <1>1 DEF QueuedWithObserved, RowsKept
<1> QED BY <1>2, OwnersStay DEF RowsOK, DispatchedWasApplied, RowsKept

\* The transaction that queues a deposit.
LEMMA RecordRows ==
  ASSUME IInv, [Next]_vars, NEW m \in Monitors, ProcessBlock(m),
         dest[monitor[m].next] \in monitor[m].known, Record(monitor[m].next)
  PROVE  RowsOK'
<1> DEFINE b == monitor[m].next
<1>1. b \in Blocks /\ b <= height /\ dest[b] \in StoredAccounts /\ \E u \in Users : accounts[u] = dest[b]
  BY ProcessedBlock
<1>2. UNCHANGED <<accounts, dest, height, applied>> /\ Record(b)
  BY DEF ProcessBlock
<1> HIDE DEF b
<1>3. /\ outbox'[b] = IF IsRow(b) THEN outbox[b] ELSE NewRow(b)
      /\ outbox'[b] # NoRow
      /\ observed'[b] = IF observed[b] = "none" THEN "FINALIZED" ELSE observed[b]
      /\ \A c \in Blocks \ {b} : outbox'[c] = outbox[c] /\ observed'[c] = observed[c]
  BY <1>1, <1>2, RecordedRow
<1>4. QueuedWithObserved /\ dest[b] # NoAccount
  BY <1>1 DEF IInv, RowsOK, StoredAccounts
<1>5. ~NewRow(b).dispatched /\ accounts[NewRow(b).user] = dest[b]
  BY <1>1, NewRowType
<1>6. QueuedWithObserved'
  BY <1>3, <1>4, <1>5 DEF QueuedWithObserved, IsRow
<1>7. ASSUME NEW c \in Blocks, IsRow(c)'
      PROVE  /\ c <= height' /\ dest'[c] # NoAccount /\ accounts'[outbox'[c].user] = dest'[c]
             /\ outbox'[c].dispatched => applied'[c] >= 1
  <2>1. CASE IsRow(c)
    <3>1. outbox'[c] = outbox[c]
      BY <1>3, <2>1
    <3> QED BY <2>1, <3>1, OwnersStay
  <2>2. CASE ~IsRow(c)
    <3>1. c = b /\ outbox'[c] = NewRow(b)
      BY <1>3, <1>7, <2>2 DEF IsRow
    <3> QED BY <1>1, <1>2, <1>4, <1>5, <3>1
  <2> QED BY <2>1, <2>2
<1> QED BY <1>6, <1>7 DEF RowsOK, DispatchedWasApplied

\* The transaction that marks a row.
LEMMA MarkedRows ==
  ASSUME IInv, [Next]_vars, NEW d \in Dispatchers, Mark(d), MarkCredited(disp[d].cur)
  PROVE  RowsOK'
<1> DEFINE b == disp[d].cur
<1>1. b \in Blocks /\ IsRow(b) /\ disp[d].step = "mark" /\ MarkCredited(b)
  BY MarkFacts
<1>2. applied[b] >= 1 /\ UNCHANGED applied
  BY <1>1 DEF IInv, MarkersOK, Mark
<1> HIDE DEF b
<1>3. /\ \A c \in Blocks : (IsRow(c)' <=> IsRow(c)) /\ (IsRow(c) => outbox'[c].user = outbox[c].user)
      /\ outbox'[b].dispatched /\ observed'[b] = "CREDITED"
      /\ \A c \in Blocks \ {b} : outbox'[c] = outbox[c] /\ observed'[c] = observed[c]
  BY <1>1, MarkRows
<1>4. QueuedWithObserved
  BY DEF IInv, RowsOK
<1>5. QueuedWithObserved'
  BY <1>1, <1>3, <1>4 DEF QueuedWithObserved
<1> QED BY <1>2, <1>3, <1>5, OwnersStay DEF RowsOK, DispatchedWasApplied

\* Rows that nobody touched.
LEMMA UntouchedRows ==
  ASSUME IInv, UNCHANGED outbox
  PROVE  RowsKept /\ ClaimsKept
  BY RowType DEF RowsKept, ClaimsKept, IsRow

\* Every step keeps what is said of rows.
LEMMA RowsStep ==
  ASSUME IInv, [Next]_vars
  PROVE  RowsOK'
<1>1. CASE UNCHANGED <<outbox, observed>>
  BY <1>1, UntouchedRows, KeptRows
<1>2. CASE \E m \in Monitors : ProcessBlock(m)
  <2> PICK m \in Monitors : ProcessBlock(m)
    BY <1>2
  <2>1. UNCHANGED <<outbox, observed>> \/ (dest[monitor[m].next] \in monitor[m].known /\ Record(monitor[m].next))
    BY DEF ProcessBlock
  <2> QED BY <1>1, <2>1, RecordRows
<1>3. CASE \E d \in Dispatchers : ClaimBatch(d) \/ Convert(d) \/ ApplyCredits(d) \/ Mark(d) \/ Crash(d)
  <2> PICK d \in Dispatchers : ClaimBatch(d) \/ Convert(d) \/ ApplyCredits(d) \/ Mark(d) \/ Crash(d)
    BY <1>3
  <2>1. CASE ClaimBatch(d)
    BY <2>1, ClaimFacts, KeptRows DEF ClaimBatch
  <2>2. CASE Convert(d)
    <3>1. RowsKept
      BY <2>2, ConvertFacts, BackoffKeeps, UntouchedRows
    <3> QED BY <2>2, <3>1, KeptRows DEF Convert
  <2>3. CASE ApplyCredits(d)
    <3>1. RowsKept
      BY <2>3, ApplyFacts, BackoffKeeps, UntouchedRows
    <3> QED BY <2>3, <3>1, KeptRows DEF ApplyCredits
  <2>4. CASE Mark(d)
    BY <2>4, MarkFacts, MarkedRows, BackoffKeeps, KeptRows
  <2>5. CASE Crash(d)
    BY <1>1, <2>5 DEF Crash, dbvars
  <2> QED BY <2>1, <2>2, <2>3, <2>4, <2>5
<1>4. CASE \E b \in Blocks : LeaseExpires(b) \/ BackoffElapses(b)
  BY <1>4, HungType, ClockTypes, KeptRows DEF LeaseExpires, BackoffElapses
<1> QED BY <1>1, <1>2, <1>3, <1>4, HangFrame DEF Next, vars, dbvars, CreateDepositAccount, InsertDepositAccount,
        Finalize, MonitorLoad, MonitorSubscribe, MonitorStop

-----------------------------------------------------------------------------
(* Dispatchers, and the credits they may still cause.                      *)

\* A dispatcher's step leaves the others alone.
LEMMA OthersStay ==
  ASSUME IInv, NEW d \in Dispatchers, NEW s, NEW c, NEW B, BecomesBatch(d, s, c, B)
  PROVE  /\ disp'[d].step = s /\ disp'[d].cur = c /\ disp'[d].batch = B
         /\ \A e \in Dispatchers \ {d} : disp'[e] = disp[e]
<1>1. disp \in [Dispatchers -> Batch]
  BY LocalFacts
<1> QED BY <1>1 DEF BecomesBatch

\* A dispatcher that goes on to mark has seen the credit.
LEMMA MarkersKept ==
  ASSUME IInv, [Next]_vars, NEW d \in Dispatchers, NEW s, NEW c, NEW B, BecomesBatch(d, s, c, B),
         s = "mark" => applied'[c] >= 1
  PROVE  MarkersOK'
<1>1. ASSUME NEW e \in Dispatchers, disp'[e].step = "mark"
      PROVE  applied'[disp'[e].cur] >= 1
  <2>1. CASE e = d
    BY <1>1, <2>1, OthersStay
  <2>2. CASE e # d
    <3>1. disp'[e] = disp[e]
      BY <2>2, OthersStay
    <3>2. disp[e].step = "mark" /\ disp[e].cur \in Blocks
      BY <1>1, <3>1, LocalFacts
    <3>3. applied[disp[e].cur] >= 1
      BY <3>2 DEF IInv, MarkersOK
    <3>4. applied[disp[e].cur] \in Nat /\ applied'[disp[e].cur] \in Nat
      BY <3>2, TypesStep DEF IInv, Typed, TypeOK
    <3> QED BY <3>1, <3>2, <3>3, <3>4, HistoryGrows
  <2> QED BY <2>1, <2>2
<1> QED BY <1>1 DEF MarkersOK

\* The dispatchers that may credit the row, after a step of one of them.
LEMMA PendingAfter ==
  ASSUME IInv, NEW d \in Dispatchers, NEW s, NEW c, NEW B, BecomesBatch(d, s, c, B), NEW b \in Blocks
  PROVE  /\ Pending(b)' \ {d} = Pending(b) \ {d}
         /\ d \in Pending(b)' <=> (b \in B /\ ~(s = "mark" /\ c = b))
  BY OthersStay DEF Pending

\* Pending is a finite set, before and after a step.
LEMMA PendingFinite ==
  ASSUME NEW b
  PROVE  /\ IsFiniteSet(Pending(b)) /\ Cardinality(Pending(b)) \in Nat
         /\ IsFiniteSet(Pending(b)') /\ Cardinality(Pending(b)') \in Nat
  BY PaymentsAssumption, FS_Subset, FS_CardinalityType DEF Pending

\* One more and one less.
LEMMA PendingCounts ==
  ASSUME NEW b, NEW d, Pending(b)' \ {d} = Pending(b) \ {d}
  PROVE  /\ Cardinality(Pending(b)') <= Cardinality(Pending(b)) + 1
         /\ (d \in Pending(b) \/ d \notin Pending(b)') => Cardinality(Pending(b)') <= Cardinality(Pending(b))
         /\ (d \in Pending(b) /\ d \notin Pending(b)') => Cardinality(Pending(b)') + 1 = Cardinality(Pending(b))
<1> DEFINE P == Pending(b)
           Q == Pending(b)'
<1>1. IsFiniteSet(P) /\ Cardinality(P) \in Nat /\ IsFiniteSet(Q) /\ Cardinality(Q) \in Nat
  BY PendingFinite
<1>2. P \ {d} = Q \ {d}
  OBVIOUS
<1> HIDE DEF P, Q
<1>3. /\ d \in P => Cardinality(P \ {d}) = Cardinality(P) - 1
      /\ d \in Q => Cardinality(Q \ {d}) = Cardinality(Q) - 1
  BY <1>1, FS_RemoveElement
<1>4. /\ d \notin P => Cardinality(P \ {d}) = Cardinality(P)
      /\ d \notin Q => Cardinality(Q \ {d}) = Cardinality(Q)
  <2>1. (d \notin P => P \ {d} = P) /\ (d \notin Q => Q \ {d} = Q)
    OBVIOUS
  <2> QED BY <2>1, Zenon
<1> DEFINE p == Cardinality(P)
           q == Cardinality(Q)
           r == Cardinality(P \ {d})
<1>5. r = Cardinality(Q \ {d})
  BY <1>2, Zenon
<1>6. /\ p \in Nat /\ q \in Nat
      /\ r = IF d \in P THEN p - 1 ELSE p
      /\ r = IF d \in Q THEN q - 1 ELSE q
  BY <1>1, <1>3, <1>4, <1>5
<1> HIDE DEF p, q, r
<1>7. /\ q <= p + 1
      /\ (d \in P \/ d \notin Q) => q <= p
      /\ (d \in P /\ d \notin Q) => q + 1 = p
  BY <1>6
<1> QED BY <1>7 DEF P, Q, p, q

LeaseOK(b) == applied[b] + Cardinality(Pending(b)) <= lapses[b] + Live(b)

\* A row whose claim stays, and that no further dispatcher may credit.
LEMMA LeaseKept ==
  ASSUME IInv, NEW b \in Blocks, applied'[b] = applied[b], lapses'[b] = lapses[b], Live(b)' = Live(b),
         Cardinality(Pending(b)') <= Cardinality(Pending(b))
  PROVE  LeaseOK(b)'
<1>1. applied[b] + Cardinality(Pending(b)) <= lapses[b] + Live(b)
  BY DEF IInv, LeasesOK
<1>2. applied[b] \in Nat /\ lapses[b] \in Nat /\ Live(b) \in Nat
  BY DEF IInv, Typed, TypeOK, Live
<1>3. Cardinality(Pending(b)) \in Nat /\ Cardinality(Pending(b)') \in Nat
  BY PendingFinite
<1> DEFINE p == Cardinality(Pending(b))
           q == Cardinality(Pending(b)')
<1>4. applied[b] + p <= lapses[b] + Live(b) /\ p \in Nat /\ q \in Nat /\ q <= p
  BY <1>1, <1>3
<1> HIDE DEF p, q
<1>5. applied'[b] + q <= lapses'[b] + Live(b)'
  BY <1>2, <1>4
<1> QED BY <1>5 DEF LeaseOK, q

\* Claims that stay keep what is live.
LEMMA LiveKept ==
  ASSUME ClaimsKept, \A b \in Blocks : IsRow(b)' <=> IsRow(b)
  PROVE  \A b \in Blocks : Live(b)' = Live(b)
  BY DEF ClaimsKept, Live

\* claim_batch takes rows whose lease is not live.
LEMMA ClaimLeases ==
  ASSUME IInv, [Next]_vars, NEW d \in Dispatchers, ClaimBatch(d)
  PROVE  MarkersOK' /\ \A b \in Blocks : LeaseOK(b)'
<1>1. PICK rows \in SUBSET Blocks :
           /\ BecomesBatch(d, "next", NoBlock, rows) /\ disp[d].batch = {} /\ RowsKept
           /\ \A b \in rows : IsRow(b) /\ outbox[b].claim # "live" /\ outbox'[b].claim = "live"
           /\ \A b \in Blocks \ rows : outbox'[b] = outbox[b]
  BY ClaimFacts
<1>2. UNCHANGED <<applied, lapses>>
  BY DEF ClaimBatch
<1>3. MarkersOK'
  BY <1>1, MarkersKept
<1>4. ASSUME NEW b \in Blocks PROVE LeaseOK(b)'
  <2>1. Pending(b)' \ {d} = Pending(b) \ {d} /\ (d \in Pending(b)' <=> b \in rows)
    BY <1>1, PendingAfter
  <2>2. CASE b \in rows
    <3>1. Live(b) = 0 /\ Live(b)' = 1
      BY <1>1, <2>2 DEF Live, RowsKept
    <3>2. applied[b] \in Nat /\ lapses[b] \in Nat /\ applied'[b] = applied[b] /\ lapses'[b] = lapses[b]
      BY <1>2 DEF IInv, Typed, TypeOK
    <3>3. applied[b] + Cardinality(Pending(b)) <= lapses[b] + Live(b)
      BY DEF IInv, LeasesOK
    <3>4. /\ Cardinality(Pending(b)) \in Nat /\ Cardinality(Pending(b)') \in Nat
          /\ Cardinality(Pending(b)') <= Cardinality(Pending(b)) + 1
      BY <2>1, PendingFinite, PendingCounts
    <3> DEFINE p == Cardinality(Pending(b))
               q == Cardinality(Pending(b)')
    <3>5. applied[b] + p <= lapses[b] + 0 /\ p \in Nat /\ q \in Nat /\ q <= p + 1
      BY <3>1, <3>3, <3>4
    <3> HIDE DEF p, q
    <3>6. applied'[b] + q <= lapses'[b] + 1
      BY <3>2, <3>5
    <3> QED BY <3>1, <3>6 DEF LeaseOK, q
  <2>3. CASE b \notin rows
    <3>1. Live(b)' = Live(b)
      BY <1>1, <2>3 DEF Live, IsRow
    <3>2. Cardinality(Pending(b)') <= Cardinality(Pending(b))
      BY <2>1, <2>3, PendingCounts
    <3> QED BY <1>2, <3>1, <3>2, LeaseKept
  <2> QED BY <2>2, <2>3
<1> QED BY <1>3, <1>4

\* Steps that take rows out of hand, or move on without a credit.
LEMMA DropLeases ==
  ASSUME IInv, [Next]_vars, NEW d \in Dispatchers, NEW s, NEW c, NEW B,
         BecomesBatch(d, s, c, B), s # "mark", B \subseteq disp[d].batch,
         disp[d].step = "mark" => disp[d].cur \notin B,
         ClaimsKept, \A b \in Blocks : IsRow(b)' <=> IsRow(b), UNCHANGED <<applied, lapses>>
  PROVE  MarkersOK' /\ \A b \in Blocks : LeaseOK(b)'
<1>1. MarkersOK'
  BY MarkersKept
<1>2. ASSUME NEW b \in Blocks PROVE LeaseOK(b)'
  <2>1. Pending(b)' \ {d} = Pending(b) \ {d} /\ (d \in Pending(b)' <=> b \in B)
    BY PendingAfter
  <2>2. d \in Pending(b)' => d \in Pending(b)
    BY <2>1 DEF Pending
  <2>3. Cardinality(Pending(b)') <= Cardinality(Pending(b))
    BY <2>1, <2>2, PendingCounts
  <2> QED BY <2>3, LiveKept, LeaseKept
<1> QED BY <1>1, <1>2

\* A credit uses up the claim of the dispatcher that caused it.
LEMMA CreditLeases ==
  ASSUME IInv, [Next]_vars, NEW d \in Dispatchers, disp[d].step = "apply",
         NEW s, NEW B, NEW c, BecomesBatch(d, s, c, B), B \subseteq disp[d].batch,
         disp[d].cur \notin B \/ (s = "mark" /\ c = disp[d].cur),
         s = "mark" => c = disp[d].cur,
         applied' = [applied EXCEPT ![disp[d].cur] = @ + 1],
         ClaimsKept, \A b \in Blocks : IsRow(b)' <=> IsRow(b), UNCHANGED lapses
  PROVE  MarkersOK' /\ \A b \in Blocks : LeaseOK(b)'
<1> DEFINE k == disp[d].cur
<1>1. k \in Blocks /\ k \in disp[d].batch
  BY LocalFacts
<1>2. /\ applied \in [Blocks -> Nat] /\ applied' = [applied EXCEPT ![k] = @ + 1]
      /\ lapses \in [Blocks -> Nat]
  BY DEF IInv, Typed, TypeOK
<1>3. applied'[k] = applied[k] + 1 /\ applied[k] \in Nat /\ \A b \in Blocks \ {k} : applied'[b] = applied[b]
  <2> HIDE DEF k
  <2> QED BY <1>1, <1>2
<1>4. MarkersOK'
  BY <1>3, MarkersKept
<1>5. ASSUME NEW b \in Blocks PROVE LeaseOK(b)'
  <2>1. /\ Pending(b)' \ {d} = Pending(b) \ {d}
        /\ (d \in Pending(b)' <=> (b \in B /\ ~(s = "mark" /\ c = b)))
    BY PendingAfter
  <2>2. Live(b)' = Live(b)
    BY LiveKept
  <2>3. d \in Pending(b)' => d \in Pending(b)
    BY <2>1 DEF Pending
  <2>4. CASE b = k
    <3>1. d \in Pending(b) /\ d \notin Pending(b)'
      BY <1>1, <2>1, <2>4 DEF Pending
    <3>2. /\ Cardinality(Pending(b)) \in Nat /\ Cardinality(Pending(b)') \in Nat
          /\ Cardinality(Pending(b)') + 1 = Cardinality(Pending(b))
      BY <2>1, <3>1, PendingFinite, PendingCounts
    <3>3. applied[b] + Cardinality(Pending(b)) <= lapses[b] + Live(b)
      BY DEF IInv, LeasesOK
    <3> DEFINE p == Cardinality(Pending(b))
               q == Cardinality(Pending(b)')
    <3>4. applied[b] + p <= lapses[b] + Live(b) /\ p \in Nat /\ q \in Nat /\ q + 1 = p
      BY <3>2, <3>3
    <3>5. applied[b] \in Nat /\ lapses[b] \in Nat /\ Live(b) \in Nat /\ lapses'[b] = lapses[b]
          /\ applied'[b] = applied[b] + 1
      BY <1>2, <1>3, <2>4 DEF Live
    <3> HIDE DEF p, q
    <3>6. applied'[b] + q <= lapses'[b] + Live(b)'
      BY <2>2, <3>4, <3>5
    <3> QED BY <3>6 DEF LeaseOK, q
  <2>5. CASE b # k
    <3>1. Cardinality(Pending(b)') <= Cardinality(Pending(b))
      BY <2>1, <2>3, PendingCounts
    <3> QED BY <1>3, <2>2, <2>5, <3>1, LeaseKept
  <2> QED BY <2>4, <2>5
<1> QED BY <1>4, <1>5

\* The five steps of a dispatcher.
LEMMA DispatcherLeases ==
  ASSUME IInv, [Next]_vars, NEW d \in Dispatchers,
         ClaimBatch(d) \/ Convert(d) \/ ApplyCredits(d) \/ Mark(d) \/ Crash(d)
  PROVE  MarkersOK' /\ \A b \in Blocks : LeaseOK(b)'
<1>1. UNCHANGED lapses /\ (~ApplyCredits(d) => UNCHANGED applied)
  BY DispatcherFrame
<1>2. UNCHANGED outbox => ClaimsKept /\ \A b \in Blocks : IsRow(b)' <=> IsRow(b)
  BY DEF ClaimsKept, IsRow
<1>3. \A b \in Blocks : IsRow(b) /\ TryBackoff(b) =>
        ClaimsKept /\ \A c \in Blocks : IsRow(c)' <=> IsRow(c)
  BY BackoffKeeps DEF RowsKept
<1>4. CASE ClaimBatch(d)
  BY <1>4, ClaimLeases
<1>5. CASE Convert(d)
  <2>1. UNCHANGED applied /\ disp[d].step = "next"
    BY <1>5 DEF Convert
  <2>2. PICK b \in disp[d].batch :
           /\ b \in Blocks /\ IsRow(b)
           /\ \/ BecomesBatch(d, "apply", b, disp[d].batch) /\ UNCHANGED <<outbox, failures>>
              \/ BecomesBatch(d, "next", NoBlock, disp[d].batch \ {b}) /\ Failure /\ TryBackoff(b)
    BY <1>5, ConvertFacts
  <2>3. CASE BecomesBatch(d, "apply", b, disp[d].batch) /\ UNCHANGED <<outbox, failures>>
    BY <1>1, <1>2, <2>1, <2>3, DropLeases
  <2>4. CASE BecomesBatch(d, "next", NoBlock, disp[d].batch \ {b}) /\ TryBackoff(b)
    BY <1>1, <1>3, <2>1, <2>2, <2>4, DropLeases
  <2> QED BY <2>2, <2>3, <2>4
<1>6. CASE ApplyCredits(d)
  <2> DEFINE b == disp[d].cur
  <2>1. b \in Blocks /\ b \in disp[d].batch /\ IsRow(b) /\ disp[d].step = "apply"
    BY <1>6, ApplyFacts
  <2>2. \/ /\ applied' = [applied EXCEPT ![b] = @ + 1]
           /\ BecomesBatch(d, "mark", b, disp[d].batch) /\ UNCHANGED outbox
        \/ /\ applied' \in {applied, [applied EXCEPT ![b] = @ + 1]} /\ TryBackoff(b)
           /\ \E B \in {disp[d].batch \ {b}, {}} : BecomesBatch(d, "next", NoBlock, B)
    BY <1>6, ApplyFacts
  <2>3. CASE /\ applied' = [applied EXCEPT ![b] = @ + 1]
             /\ BecomesBatch(d, "mark", b, disp[d].batch) /\ UNCHANGED outbox
    BY <1>1, <1>2, <2>1, <2>3, CreditLeases
  <2>4. CASE /\ applied' \in {applied, [applied EXCEPT ![b] = @ + 1]} /\ TryBackoff(b)
             /\ \E B \in {disp[d].batch \ {b}, {}} : BecomesBatch(d, "next", NoBlock, B)
    <3>1. PICK B \in {disp[d].batch \ {b}, {}} : BecomesBatch(d, "next", NoBlock, B)
      BY <2>4
    <3>2. B \subseteq disp[d].batch /\ b \notin B
      OBVIOUS
    <3>3. ClaimsKept /\ \A c \in Blocks : IsRow(c)' <=> IsRow(c)
      BY <1>3, <2>1, <2>4
    <3>4. CASE UNCHANGED applied
      BY <1>1, <2>1, <3>1, <3>2, <3>3, <3>4, DropLeases
    <3>5. CASE applied' = [applied EXCEPT ![b] = @ + 1]
      BY <1>1, <2>1, <3>1, <3>2, <3>3, <3>5, CreditLeases
    <3> QED BY <2>4, <3>4, <3>5
  <2> QED BY <2>2, <2>3, <2>4
<1>7. CASE Mark(d)
  <2> DEFINE b == disp[d].cur
  <2>1. /\ b \in Blocks /\ IsRow(b) /\ disp[d].step = "mark"
        /\ BecomesBatch(d, "next", NoBlock, disp[d].batch \ {b})
        /\ MarkCredited(b) \/ TryBackoff(b)
    BY <1>7, MarkFacts
  <2>2. ClaimsKept /\ \A c \in Blocks : IsRow(c)' <=> IsRow(c)
    BY <1>3, <2>1, MarkRows
  <2>3. UNCHANGED applied
    BY <1>7 DEF Mark
  <2>4. disp[d].batch \ {b} \subseteq disp[d].batch /\ b \notin disp[d].batch \ {b}
    OBVIOUS
  <2> QED BY <1>1, <2>1, <2>2, <2>3, <2>4, DropLeases
<1>8. CASE Crash(d)
  <2>1. BecomesBatch(d, "next", NoBlock, {}) /\ UNCHANGED <<outbox, applied>>
    BY <1>8, NoBatchBecomes DEF Crash, dbvars
  <2> QED BY <1>1, <1>2, <2>1, DropLeases
<1> QED BY <1>4, <1>5, <1>6, <1>7, <1>8

\* A step that leaves the dispatchers alone.
LEMMA IdleLeases ==
  ASSUME IInv, UNCHANGED <<disp, applied, lapses>>, \A b \in Blocks : Live(b)' = Live(b)
  PROVE  MarkersOK' /\ \A b \in Blocks : LeaseOK(b)'
<1>1. MarkersOK' /\ \A b \in Blocks : Pending(b)' = Pending(b)
  BY DEF IInv, MarkersOK, Pending
<1>2. ASSUME NEW b \in Blocks PROVE Cardinality(Pending(b)') <= Cardinality(Pending(b))
  BY <1>1, PendingFinite
<1> QED BY <1>1, <1>2, LeaseKept

\* Every step keeps what is said of markers and leases.
LEMMA LeaseStep ==
  ASSUME IInv, [Next]_vars
  PROVE  MarkersOK' /\ LeasesOK'
<1> SUFFICES MarkersOK' /\ \A b \in Blocks : LeaseOK(b)'
  BY DEF LeasesOK, LeaseOK
<1>1. CASE UNCHANGED <<outbox, disp, applied, lapses>>
  BY <1>1, IdleLeases DEF Live, IsRow
<1>2. CASE \E m \in Monitors : ProcessBlock(m)
  <2> PICK m \in Monitors : ProcessBlock(m)
    BY <1>2
  <2> DEFINE b == monitor[m].next
  <2>1. UNCHANGED <<disp, applied, lapses>>
    BY DEF ProcessBlock
  <2>2. UNCHANGED outbox \/ (dest[b] \in monitor[m].known /\ Record(b))
    BY DEF ProcessBlock
  <2>3. CASE dest[b] \in monitor[m].known /\ Record(b)
    <3>1. b \in Blocks /\ \E u \in Users : accounts[u] = dest[b]
      BY <2>3, ProcessedBlock
    <3> HIDE DEF b
    <3>2. /\ outbox'[b] = IF IsRow(b) THEN outbox[b] ELSE NewRow(b)
          /\ \A c \in Blocks \ {b} : outbox'[c] = outbox[c]
      BY <2>3, <3>1, RecordedRow
    <3>3. NewRow(b).claim = "none"
      BY <3>1, NewRowType
    <3>4. \A c \in Blocks : Live(c)' = Live(c)
      BY <3>2, <3>3 DEF Live, IsRow
    <3> QED BY <2>1, <3>4, IdleLeases
  <2> QED BY <1>1, <2>1, <2>2, <2>3
<1>3. CASE \E d \in Dispatchers : ClaimBatch(d) \/ Convert(d) \/ ApplyCredits(d) \/ Mark(d) \/ Crash(d)
  BY <1>3, DispatcherLeases
<1>4. CASE \E b \in Blocks : BackoffElapses(b)
  <2> PICK b \in Blocks : BackoffElapses(b)
    BY <1>4
  <2>1. RowsKept /\ ClaimsKept /\ UNCHANGED <<disp, applied, lapses>>
    BY DueKeeps DEF BackoffElapses
  <2> QED BY <2>1, LiveKept, IdleLeases DEF RowsKept
<1>5. CASE \E b \in Blocks : LeaseExpires(b)
  <2> PICK b \in Blocks : LeaseExpires(b)
    BY <1>5
  <2>1. /\ RowsKept /\ IsRow(b) /\ outbox[b].claim = "live" /\ outbox'[b].claim = "stale"
        /\ \A c \in Blocks \ {b} : outbox'[c] = outbox[c]
    BY LeaseKeeps
  <2>2. UNCHANGED <<disp, applied>> /\ lapses' = [lapses EXCEPT ![b] = @ + 1] /\ lapses \in [Blocks -> Nat]
    BY DEF LeaseExpires, IInv, Typed, TypeOK
  <2>3. MarkersOK' /\ \A c \in Blocks : Pending(c)' = Pending(c)
    BY <2>2 DEF IInv, MarkersOK, Pending
  <2>4. ASSUME NEW c \in Blocks PROVE LeaseOK(c)'
    <3>1. CASE c = b
      <4>1. Live(b) = 1 /\ Live(b)' = 0
        BY <2>1 DEF Live
      <4>2. lapses'[b] = lapses[b] + 1 /\ lapses[b] \in Nat
        BY <2>2
      <4>3. applied[b] + Cardinality(Pending(b)) <= lapses[b] + Live(b)
        BY DEF IInv, LeasesOK
      <4>4. applied'[b] + Cardinality(Pending(b)') <= lapses'[b] + Live(b)'
        BY <2>2, <2>3, <4>1, <4>2, <4>3
      <4> QED BY <3>1, <4>4 DEF LeaseOK
    <3>2. CASE c # b
      <4>1. Live(c)' = Live(c) /\ lapses'[c] = lapses[c]
        BY <2>1, <2>2, <3>2 DEF Live, IsRow
      <4>2. Cardinality(Pending(c)') <= Cardinality(Pending(c))
        BY <2>3, PendingFinite
      <4> QED BY <2>2, <4>1, <4>2, LeaseKept
    <3> QED BY <3>1, <3>2
  <2> QED BY <2>3, <2>4
<1> QED BY <1>1, <1>2, <1>3, <1>4, <1>5, HangFrame DEF Next, vars, dbvars, CreateDepositAccount,
        InsertDepositAccount, Finalize, MonitorLoad, MonitorSubscribe, MonitorStop

-----------------------------------------------------------------------------

\* Every step keeps the invariant.
LEMMA StepInv == IInv /\ [Next]_vars => IInv'
  BY TypesStep, AddressStep, MonitorsStep, RowsStep, LeaseStep DEF IInv, Addresses

\* The invariant holds in every reachable state.
LEMMA Invariance == Spec => []IInv
  BY InitInv, StepInv, PTL DEF Spec

\* Every variable of the payments service keeps its type, and a dispatcher has a row
\* of its batch in hand exactly between tao_to_credits and the end of the row.
THEOREM TypeCorrect == Spec => []TypeOK
<1>1. IInv => TypeOK
  BY DEF IInv, Typed
<1> QED BY <1>1, Invariance, PTL

\* An address that CreateDepositAccount returned stays that user's account and nobody
\* else's, however the calls of any number of instances interleave.
THEOREM AddressesAreStable == Spec => []AddressStable
<1>1. IInv => AddressStable
  BY DEF IInv
<1> QED BY <1>1, Invariance, PTL

\* A deposit is observed exactly when it is queued and CREDITED exactly when its row
\* is dispatched, whichever monitor and dispatcher wrote them.
THEOREM QueueMatchesObserved == Spec => []QueuedWithObserved
<1>1. IInv => QueuedWithObserved
  BY DEF IInv, RowsOK
<1> QED BY <1>1, Invariance, PTL

\* A dispatched row was credited by the billing service, and to the user whose account
\* the transfer paid.
THEOREM DispatchedIsApplied == Spec => []DispatchedWasApplied
<1>1. IInv => DispatchedWasApplied
  BY DEF IInv, RowsOK
<1> QED BY <1>1, Invariance, PTL

\* For any number of dispatchers, batches and failures, ApplyCredits credits a
\* transaction at most once more than leases of its row ran out.
THEOREM CreditsPerLease == Spec => []OneCreditPerLease
<1>1. IInv => OneCreditPerLease
  <2> SUFFICES ASSUME IInv, NEW b \in Blocks PROVE applied[b] <= 1 + lapses[b]
    BY DEF OneCreditPerLease
  <2>1. applied[b] + Cardinality(Pending(b)) <= lapses[b] + Live(b) /\ Live(b) \in {0, 1}
    BY DEF IInv, LeasesOK, Live
  <2>2. applied[b] \in Nat /\ lapses[b] \in Nat /\ Cardinality(Pending(b)) \in Nat
    BY PendingFinite DEF IInv, Typed, TypeOK
  <2> QED BY <2>1, <2>2
<1> QED BY <1>1, Invariance, PTL

-----------------------------------------------------------------------------
(* The price oracle that the dispatchers ask, with variables of its own.   *)

CONSTANTS Callers, Refresher
VARIABLES cached, queue, guards, pc

Oracle == INSTANCE PriceOracle

\* The background task calls refresh_price, never get_tao_usd_price.
OneRefresher == Refresher \notin Callers

\* A call that missed the cache holds its read guard until it returns.
GuardIsKept ==
  /\ guards \in [Oracle!Tasks -> Nat]
  /\ pc \in [Oracle!Tasks -> {"idle", "lookup", "fetch", "store", "fallback"}]
  /\ \A c \in Callers : pc[c] \in {"fetch", "store", "fallback"} => guards[c] = 1

\* No call is in progress at the start.
LEMMA GuardsInit == Oracle!Init => GuardIsKept
BY DEF Oracle!Init, GuardIsKept, Oracle!Tasks

\* Every step of a caller or of the background task keeps the guards of the calls that
\* missed the cache.
LEMMA GuardsKept ==
  ASSUME OneRefresher, GuardIsKept, [Oracle!Next]_Oracle!vars
  PROVE  GuardIsKept'
<1> USE DEF GuardIsKept, Oracle!Tasks
<1>1. ASSUME NEW c \in Callers, Oracle!GetPrice(c) PROVE GuardIsKept'
  BY <1>1 DEF Oracle!GetPrice
<1>2. ASSUME NEW c \in Callers, Oracle!Lookup(c) PROVE GuardIsKept'
  BY <1>2 DEF Oracle!Lookup, Oracle!KeptGuard
<1>3. ASSUME NEW c \in Callers, Oracle!Fallback(c) PROVE GuardIsKept'
  BY <1>3 DEF Oracle!Fallback, Oracle!Return
<1>4. ASSUME NEW t \in Oracle!Tasks, Oracle!Fetched(t) PROVE GuardIsKept'
  BY <1>4 DEF Oracle!Fetched
<1>5. ASSUME NEW t \in Oracle!Tasks, Oracle!FetchFailed(t) PROVE GuardIsKept'
  BY <1>5 DEF Oracle!FetchFailed
<1>6. ASSUME NEW t \in Oracle!Tasks, Oracle!Store(t) PROVE GuardIsKept'
  BY <1>6 DEF Oracle!Store, Oracle!Return
<1>7. CASE Oracle!Tick
  BY <1>7 DEF Oracle!Tick, OneRefresher
<1>8. CASE Oracle!Age
  BY <1>8 DEF Oracle!Age
<1>9. CASE UNCHANGED Oracle!vars
  BY <1>9 DEF Oracle!vars
<1>10. QED
  BY <1>1, <1>2, <1>3, <1>4, <1>5, <1>6, <1>7, <1>8, <1>9 DEF Oracle!Next

\* While some caller waits to write with its own read guard held, no write is granted:
\* that caller stays where it is and the cache does not become fresh.
LEMMA StuckStep ==
  ASSUME OneRefresher, GuardIsKept, [Oracle!Next]_Oracle!vars, NEW c \in Callers, pc[c] = "store"
  PROVE  pc'[c] = "store" /\ (cached' = "fresh" => cached = "fresh")
<1> USE DEF GuardIsKept, Oracle!Tasks
<1>1. \A t \in Oracle!Tasks : ~Oracle!CanWrite(t)
  BY DEF Oracle!CanWrite
<1>2. ASSUME NEW d \in Callers, Oracle!GetPrice(d) \/ Oracle!Lookup(d) \/ Oracle!Fallback(d)
      PROVE  pc'[c] = "store" /\ cached' = cached
  BY <1>2 DEF Oracle!GetPrice, Oracle!Lookup, Oracle!Fallback, Oracle!Return
<1>3. ASSUME NEW t \in Oracle!Tasks, Oracle!Fetched(t) \/ Oracle!FetchFailed(t) \/ Oracle!Store(t)
      PROVE  pc'[c] = "store" /\ cached' = cached
  BY <1>1, <1>3 DEF Oracle!Fetched, Oracle!FetchFailed, Oracle!Store
<1>4. CASE Oracle!Tick
  BY <1>4 DEF Oracle!Tick, OneRefresher
<1>5. CASE Oracle!Age
  BY <1>5 DEF Oracle!Age
<1>6. CASE UNCHANGED Oracle!vars
  BY <1>6 DEF Oracle!vars
<1>7. QED
  BY <1>2, <1>3, <1>4, <1>5, <1>6 DEF Oracle!Next

\* get_tao_usd_price never returns once it waits for cached_price.write() with its own
\* guard `cache` alive, and the cache is never refreshed again.
THEOREM FetchingCallIsStuck == ASSUME OneRefresher PROVE Oracle!Spec => Oracle!StuckForGood
<1>1. GuardIsKept /\ [Oracle!Next]_Oracle!vars =>
        [\A c \in Callers :
           pc[c] = "store" => pc'[c] = "store" /\ (cached' = "fresh" => cached = "fresh")]_Oracle!vars
  BY StuckStep
<1>2. GuardIsKept /\ [Oracle!Next]_Oracle!vars => GuardIsKept'
  BY GuardsKept
<1>3. QED
  BY GuardsInit, <1>1, <1>2, PTL DEF Oracle!Spec, Oracle!StuckForGood

=============================================================================
