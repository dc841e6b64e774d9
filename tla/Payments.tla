------------------------------ MODULE Payments ------------------------------
(***************************************************************************)
(* The payments service: deposit accounts (grpc/payments_service.rs), the  *)
(* chain monitor (blockchain/monitor.rs over bittensor/chain_monitor.rs),  *)
(* the outbox (storage/outbox.rs) and the dispatchers that turn its rows   *)
(* into ApplyCredits calls (processor/dispatcher.rs).                      *)
(*                                                                         *)
(* Several instances of the service share one database.  An advisory lock  *)
(* lets one of them run the monitor; every one runs a dispatcher.  The     *)
(* chain and the billing service are external.  A block carries at most    *)
(* one transfer, so a block number stands for the transaction id, the      *)
(* observed deposit and the outbox row.  The monitor, the dispatcher and   *)
(* the calls of one process stop together; here each may stop on its own.  *)
(***************************************************************************)
EXTENDS Naturals, FiniteSets

CONSTANTS
  Users,
  Handlers,      \* CreateDepositAccount calls that may run at the same time
  Monitors,      \* instances that run for leader
  Dispatchers,   \* instances running the outbox dispatcher
  RefreshEvery,  \* blocks between two refreshes of known_accounts (128 in the code)
  BatchSize,     \* rows of one claim (100 in the code)
  NoAccount,     \* no deposit account, or a block without a transfer
  NoBlock,       \* no outbox row in hand
  NoRow,         \* no row in billing_outbox
  NoUser,        \* a handler without a request
  MaxAccounts,   \* bound: hotkeys the treasury generates
  MaxBlocks,     \* bound: blocks finalized
  MaxFailures    \* bound: statements, calls and instances that fail, leases outrun

ASSUME PaymentsAssumption ==
  /\ RefreshEvery \in Nat \ {0}
  /\ BatchSize \in Nat \ {0}
  /\ MaxAccounts \in Nat
  /\ MaxBlocks \in Nat
  /\ MaxFailures \in Nat
  /\ IsFiniteSet(Dispatchers)
  /\ NoAccount \notin 1 .. MaxAccounts
  /\ NoBlock \notin 1 .. MaxBlocks
  /\ NoUser \notin Users
  /\ NoRow \notin [user: Users, claim: {"none", "live", "stale"}, due: BOOLEAN, dispatched: BOOLEAN]

VARIABLES
  accounts,   \* deposit_accounts: user -> account id
  generated,  \* hotkeys generated so far; ids are drawn in order
  handler,    \* Handlers -> the CreateDepositAccount call in progress
  promised,   \* history: addresses returned to users
  height,     \* the last finalized block
  dest,       \* block -> the account its transfer pays
  monitor,    \* Monitors -> phase, known_accounts, next block
  observed,   \* observed_deposits: block -> status
  outbox,     \* billing_outbox: block -> row
  disp,       \* Dispatchers -> its claimed batch, the row in hand, the next step
  hung,       \* Dispatchers whose price lookup never returns
  applied,    \* billing service: credits applied per transaction id
  failures,   \* failures so far
  processed,  \* history: blocks a monitor has processed
  lapses      \* history: leases of the row that ran out

dbvars == <<accounts, observed, outbox>>
vars == <<dbvars, generated, handler, promised, height, dest, monitor, disp, hung, applied,
          failures, processed, lapses>>

Blocks == 1 .. MaxBlocks
AccountIds == 1 .. MaxAccounts

\* claim: claimed_at is null, within the last 5 minutes, or older; due: next_attempt_at <= now().
Row == [user: Users, claim: {"none", "live", "stale"}, due: BOOLEAN, dispatched: BOOLEAN]
IsRow(b) == outbox[b] # NoRow

NoCall == [user |-> NoUser, account |-> NoAccount]
MonitorDown == [phase |-> "down", known |-> {}, next |-> 0]
NoBatch == [batch |-> {}, cur |-> NoBlock, step |-> "next"]

Init ==
  /\ accounts = [u \in Users |-> NoAccount]
  /\ generated = 0
  /\ handler = [h \in Handlers |-> NoCall]
  /\ promised = {}
  /\ height = 0
  /\ dest = [b \in Blocks |-> NoAccount]
  /\ monitor = [m \in Monitors |-> MonitorDown]
  /\ observed = [b \in Blocks |-> "none"]
  /\ outbox = [b \in Blocks |-> NoRow]
  /\ disp = [d \in Dispatchers |-> NoBatch]
  /\ hung = {}
  /\ applied = [b \in Blocks |-> 0]
  /\ failures = 0
  /\ processed = {}
  /\ lapses = [b \in Blocks |-> 0]

Failure == failures < MaxFailures /\ failures' = failures + 1

-----------------------------------------------------------------------------
(* CreateDepositAccount.                                                   *)

\* get_by_user; an existing address is returned (GetDepositAccount does just that),
\* otherwise a hotkey is generated.
CreateDepositAccount(h, u) ==
  /\ handler[h] = NoCall
  /\ \/ /\ accounts[u] # NoAccount
        /\ promised' = promised \cup {<<u, accounts[u]>>}
        /\ UNCHANGED <<handler, generated>>
     \/ /\ accounts[u] = NoAccount
        /\ generated < MaxAccounts
        /\ generated' = generated + 1
        /\ handler' = [handler EXCEPT ![h] = [user |-> u, account |-> generated + 1]]
        /\ UNCHANGED promised
  /\ UNCHANGED <<dbvars, height, dest, monitor, disp, hung, applied, failures, processed, lapses>>

CanInsert_Mutant(u) == TRUE

\* user_id is the primary key of deposit_accounts.
CanInsert(u) == accounts[u] = NoAccount

\* insert_tx and the commit; a second insert of the user fails and the call errs.  The
\* commit may also succeed with its answer lost, and the caller gets an error.
InsertDepositAccount(h) ==
  LET c == handler[h]
  IN /\ c # NoCall
     /\ \/ /\ CanInsert(c.user)
           /\ accounts' = [accounts EXCEPT ![c.user] = c.account]
           /\ \/ promised' = promised \cup {<<c.user, c.account>>} /\ UNCHANGED failures
              \/ Failure /\ UNCHANGED promised
        \/ ~CanInsert(c.user) /\ UNCHANGED <<accounts, promised, failures>>
        \/ Failure /\ UNCHANGED <<accounts, promised>>
     /\ handler' = [handler EXCEPT ![h] = NoCall]
     /\ UNCHANGED <<observed, outbox, generated, height, dest, monitor, disp, hung, applied, processed,
                    lapses>>

-----------------------------------------------------------------------------
(* The chain: users pay to the addresses they were given.                  *)

Finalize(a) ==
  /\ height < MaxBlocks
  /\ a = NoAccount \/ \E u \in Users : <<u, a>> \in promised
  /\ height' = height + 1
  /\ dest' = [dest EXCEPT ![height + 1] = a]
  /\ UNCHANGED <<dbvars, generated, handler, promised, monitor, disp, hung, applied, failures,
                 processed, lapses>>

-----------------------------------------------------------------------------
(* The monitor of the leader.                                              *)

StoredAccounts == {accounts[u] : u \in Users} \ {NoAccount}

\* pg_try_advisory_lock succeeds while no other session holds the lock.
LockIsFree == \A m \in Monitors : monitor[m].phase = "down"

\* An instance becomes leader and PaymentsEventHandler::new reads the accounts.  When
\* the leader's session is lost its lock is free while its monitor still runs.
MonitorLoad(m) ==
  /\ monitor[m].phase = "down"
  /\ \/ LockIsFree /\ UNCHANGED failures
     \/ ~LockIsFree /\ Failure
  /\ monitor' = [monitor EXCEPT ![m] = [phase |-> "loaded", known |-> StoredAccounts, next |-> 0]]
  /\ UNCHANGED <<dbvars, generated, handler, promised, height, dest, disp, hung, applied, processed,
                 lapses>>

\* subscribe_finalized starts at the head, which it may deliver again; what was
\* finalized before it is never asked for.
MonitorSubscribe(m) ==
  /\ monitor[m].phase = "loaded"
  /\ \E n \in {height, height + 1} \ {0} :
       monitor' = [monitor EXCEPT ![m].phase = "up", ![m].next = n]
  /\ UNCHANGED <<dbvars, generated, handler, promised, height, dest, disp, hung, applied, failures,
                 processed, lapses>>

\* The subscription ends, a refresh errs, or the instance dies: run_as_leader gives up
\* the lock and some instance takes it later.
MonitorStop(m) ==
  /\ monitor[m].phase # "down"
  /\ Failure
  /\ monitor' = [monitor EXCEPT ![m] = MonitorDown]
  /\ UNCHANGED <<dbvars, generated, handler, promised, height, dest, disp, hung, applied,
                 processed, lapses>>

\* The user enqueue_tx selects from deposit_accounts.
OwnerOf(a) == CHOOSE u \in Users : accounts[u] = a

NewRow(b) == [user |-> OwnerOf(dest[b]), claim |-> "none", due |-> TRUE, dispatched |-> FALSE]

Enqueued_Mutant(b) == NewRow(b)

\* ON CONFLICT (transaction_id) DO NOTHING.
Enqueued(b) == IF IsRow(b) THEN outbox[b] ELSE NewRow(b)

\* One transaction of insert_finalized_tx and enqueue_tx.
Record(b) ==
  /\ observed' = [observed EXCEPT ![b] = IF @ = "none" THEN "FINALIZED" ELSE @]
  /\ outbox' = [outbox EXCEPT ![b] = Enqueued(b)]

\* The next block, with the accounts known after on_block_end.
BlockEnd(m) ==
  LET b == monitor[m].next
  IN monitor' = [monitor EXCEPT ![m].next = b + 1,
                                ![m].known = IF b % RefreshEvery = 0 THEN StoredAccounts ELSE @]

\* process_block.  A transfer to an account outside known_accounts is ignored; a failed
\* transaction is logged and the block is left behind (a commit that only seemed to
\* fail is the first disjunct);
\* when the block or its events cannot be read on_block_end is not reached.
ProcessBlock(m) ==
  LET b == monitor[m].next
  IN /\ monitor[m].phase = "up"
     /\ b <= height
     /\ \/ /\ dest[b] \in monitor[m].known
           /\ Record(b)
           /\ BlockEnd(m)
           /\ UNCHANGED failures
        \/ /\ dest[b] \notin monitor[m].known
           /\ BlockEnd(m)
           /\ UNCHANGED <<observed, outbox, failures>>
        \/ /\ dest[b] \in monitor[m].known
           /\ Failure
           /\ BlockEnd(m)
           /\ UNCHANGED <<observed, outbox>>
        \/ /\ Failure
           /\ monitor' = [monitor EXCEPT ![m].next = b + 1]
           /\ UNCHANGED <<observed, outbox>>
     /\ processed' = processed \cup {b}
     /\ UNCHANGED <<accounts, generated, handler, promised, height, dest, disp, hung, applied, lapses>>

-----------------------------------------------------------------------------
(* The dispatchers.                                                        *)

Claimable_Mutant(b) == IsRow(b) /\ ~outbox[b].dispatched /\ outbox[b].due

Claimable_NoLease(b) ==
  IsRow(b) /\ ~outbox[b].dispatched /\ outbox[b].due /\ outbox[b].claim = "none"

Claimable(b) ==
  IsRow(b) /\ ~outbox[b].dispatched /\ outbox[b].due /\ outbox[b].claim \in {"none", "stale"}

\* claim_batch: the claimable rows of least id, at most BatchSize of them.
ClaimBatch(d) ==
  LET ready == {b \in Blocks : Claimable(b)}
      rows == {b \in ready : Cardinality({c \in ready : c < b}) < BatchSize}
  IN /\ disp[d].step = "next"
     /\ disp[d].batch = {}
     /\ rows # {}
     /\ outbox' = [b \in Blocks |-> IF b \in rows THEN [outbox[b] EXCEPT !.claim = "live"] ELSE outbox[b]]
     /\ disp' = [disp EXCEPT ![d].batch = rows]
     /\ UNCHANGED <<accounts, observed, generated, handler, promised, height, dest, monitor,
                    hung, applied, failures, processed, lapses>>

\* On to the next row of the batch.
FinishRow(d) ==
  disp' = [disp EXCEPT ![d].batch = @ \ {disp[d].cur}, ![d].step = "next", ![d].cur = NoBlock]

\* backoff moves next_attempt_at and keeps claimed_at.
Backoff(b) == outbox' = [outbox EXCEPT ![b].due = FALSE]

\* let _ = backoff: its own failure is ignored.
TryBackoff(b) == Backoff(b) \/ UNCHANGED outbox

\* tao_to_credits of a row of the batch.
Convert(d) ==
  /\ d \notin hung
  /\ disp[d].step = "next"
  /\ \E b \in disp[d].batch :
       \/ /\ disp' = [disp EXCEPT ![d].step = "apply", ![d].cur = b]
          /\ UNCHANGED <<outbox, failures>>
       \/ /\ Failure
          /\ TryBackoff(b)
          /\ disp' = [disp EXCEPT ![d].batch = @ \ {b}]
  /\ UNCHANGED <<accounts, observed, generated, handler, promised, height, dest, monitor,
                 hung, applied, processed, lapses>>

\* tao_to_credits asks the oracle of the process for the price.  When the cached one is
\* stale the call waits for itself (PriceOracle) and the batch with it.
PriceHangs(d) ==
  /\ d \notin hung
  /\ disp[d].step = "next"
  /\ disp[d].batch # {}
  /\ hung' = hung \cup {d}
  /\ UNCHANGED <<dbvars, generated, handler, promised, height, dest, monitor, disp, applied,
                 failures, processed, lapses>>

IsCredited_Mutant(ok) == TRUE

\* apply_credits returned a credit id.
IsCredited(ok) == ok

\* apply_credits: the billing service credits whatever transaction id it is sent,
\* again if it is sent again; the call may fail before or after it did.  When the
\* backoff of a failed call errs, run() ends and the process with it.
ApplyCredits(d) ==
  LET b == disp[d].cur
  IN /\ disp[d].step = "apply"
     /\ \E ok \in BOOLEAN, credited \in BOOLEAN :
          /\ ok => credited
          /\ applied' = IF credited THEN [applied EXCEPT ![b] = @ + 1] ELSE applied
          /\ IF ok THEN UNCHANGED failures ELSE Failure
          /\ IF IsCredited(ok)
             THEN disp' = [disp EXCEPT ![d].step = "mark"] /\ UNCHANGED outbox
             ELSE \/ Backoff(b) /\ FinishRow(d)
                  \/ UNCHANGED outbox /\ disp' = [disp EXCEPT ![d] = NoBatch]
     /\ UNCHANGED <<accounts, observed, generated, handler, promised, height, dest, monitor, hung,
                    processed, lapses>>

\* One transaction of mark_dispatched_tx and mark_credited_tx.
MarkCredited(b) ==
  /\ outbox' = [outbox EXCEPT ![b].dispatched = TRUE]
  /\ observed' = [observed EXCEPT ![b] = "CREDITED"]

Mark(d) ==
  LET b == disp[d].cur
  IN /\ disp[d].step = "mark"
     /\ \/ MarkCredited(b) /\ UNCHANGED failures
        \/ Failure /\ TryBackoff(b) /\ UNCHANGED observed
        \/ Failure /\ MarkCredited(b)  \* the commit's answer is lost
     /\ FinishRow(d)
     /\ UNCHANGED <<accounts, generated, handler, promised, height, dest, monitor, hung, applied,
                    processed, lapses>>

\* The instance dies with its batch claimed, and is started again.
Crash(d) ==
  /\ disp[d] # NoBatch
  /\ Failure
  /\ disp' = [disp EXCEPT ![d] = NoBatch]
  /\ hung' = hung \ {d}
  /\ UNCHANGED <<dbvars, generated, handler, promised, height, dest, monitor, applied,
                 processed, lapses>>

InHand(b) == \E d \in Dispatchers \ hung : b \in disp[d].batch

\* Five minutes pass since claimed_at.  A batch at work that takes longer is a failure.
LeaseExpires(b) ==
  /\ IsRow(b)
  /\ outbox[b].claim = "live"
  /\ IF InHand(b) THEN Failure ELSE UNCHANGED failures
  /\ outbox' = [outbox EXCEPT ![b].claim = "stale"]
  /\ lapses' = [lapses EXCEPT ![b] = @ + 1]
  /\ UNCHANGED <<accounts, observed, generated, handler, promised, height, dest, monitor, disp,
                 hung, applied, processed>>

\* next_attempt_at passes.
BackoffElapses(b) ==
  /\ IsRow(b)
  /\ ~outbox[b].due
  /\ outbox' = [outbox EXCEPT ![b].due = TRUE]
  /\ UNCHANGED <<accounts, observed, generated, handler, promised, height, dest, monitor, disp,
                 hung, applied, failures, processed, lapses>>

-----------------------------------------------------------------------------

Next ==
  \/ \E h \in Handlers : (\E u \in Users : CreateDepositAccount(h, u)) \/ InsertDepositAccount(h)
  \/ \E a \in AccountIds \cup {NoAccount} : Finalize(a)
  \/ \E m \in Monitors : MonitorLoad(m) \/ MonitorSubscribe(m) \/ MonitorStop(m) \/ ProcessBlock(m)
  \/ \E d \in Dispatchers : \/ ClaimBatch(d) \/ Convert(d) \/ PriceHangs(d) \/ ApplyCredits(d)
                            \/ Mark(d) \/ Crash(d)
  \/ \E b \in Blocks : LeaseExpires(b) \/ BackoffElapses(b)

Spec == Init /\ [][Next]_vars

\* A dispatcher polls every 350 ms, its statements and its calls to billing end, and
\* the clock runs.  A price lookup ends or hangs; nothing says that it ends, nor that
\* a hung instance is restarted.  Nothing is assumed of the chain, monitor or callers.
Fairness ==
  /\ \A d \in Dispatchers : WF_vars(ClaimBatch(d)) /\ WF_vars(Convert(d) \/ PriceHangs(d))
                            /\ WF_vars(ApplyCredits(d)) /\ WF_vars(Mark(d))
  /\ \A b \in Blocks : WF_vars(LeaseExpires(b)) /\ WF_vars(BackoffElapses(b))

FairSpec == Spec /\ Fairness

-----------------------------------------------------------------------------
(* Properties.                                                             *)

\* Every variable has its type; a dispatcher has a row of its batch in hand exactly
\* between the conversion and the end of the row.
TypeOK ==
  /\ accounts \in [Users -> AccountIds \cup {NoAccount}]
  /\ generated \in 0 .. MaxAccounts
  /\ handler \in [Handlers -> [user: Users, account: AccountIds] \cup {NoCall}]
  /\ promised \subseteq Users \X AccountIds
  /\ height \in 0 .. MaxBlocks
  /\ dest \in [Blocks -> AccountIds \cup {NoAccount}]
  /\ monitor \in [Monitors -> [phase: {"down", "loaded", "up"}, known: SUBSET AccountIds, next: Nat]]
  /\ observed \in [Blocks -> {"none", "FINALIZED", "CREDITED"}]
  /\ outbox \in [Blocks -> Row \cup {NoRow}]
  /\ \A d \in Dispatchers :
       /\ disp[d].batch \subseteq {b \in Blocks : IsRow(b)}
       /\ disp[d].step \in {"next", "apply", "mark"}
       /\ IF disp[d].step = "next" THEN disp[d].cur = NoBlock ELSE disp[d].cur \in disp[d].batch
  /\ hung \subseteq Dispatchers
  /\ applied \in [Blocks -> Nat]
  /\ failures \in 0 .. MaxFailures
  /\ lapses \in [Blocks -> Nat]

\* An address a user was given stays that user's account and no other's, however two
\* calls of CreateDepositAccount interleave: deposits sent to it keep their owner.
AddressStable ==
  \A p \in promised : \A u \in Users : accounts[u] = p[2] <=> u = p[1]

\* The outbox pattern: a deposit is observed exactly when it is queued, and CREDITED
\* exactly when its row is dispatched, also when the head is delivered twice.
QueuedWithObserved ==
  \A b \in Blocks :
    /\ (observed[b] # "none") <=> IsRow(b)
    /\ (observed[b] = "CREDITED") <=> (IsRow(b) /\ outbox[b].dispatched)

\* No row is marked dispatched that the billing service did not credit, whoever
\* crashed or stole the lease meanwhile, and the credit is the depositor's.
DispatchedWasApplied ==
  \A b \in Blocks :
    /\ IsRow(b) /\ outbox[b].dispatched => applied[b] >= 1
    /\ IsRow(b) => accounts[outbox[b].user] = dest[b]

\* A deposit is credited at most once per lease: a second ApplyCredits for a
\* transaction needs a lease of its row that ran out.
OneCreditPerLease == \A b \in Blocks : applied[b] <= 1 + lapses[b]

\* After any finite number of failures every queued deposit is credited, unless every
\* instance hangs in its price lookup: rows of a hung one are taken over by another.
AllDispatched ==
  \A b \in Blocks : IsRow(b) ~> ((IsRow(b) /\ outbox[b].dispatched) \/ hung = Dispatchers)

-----------------------------------------------------------------------------
(* What the repository says and the code does not do.                      *)

\* blockchain/monitor.rs: "Monitors blockchain for deposits to payment accounts".
\* Here: a transfer to a stored deposit account in a block the monitor processed is
\* observed.
DepositsObserved ==
  \A b \in processed : dest[b] \in StoredAccounts => observed[b] # "none"

=============================================================================
