# Verification of Basilica

TLA+ models of the parts of Basilica where money and machines change hands, the
TLC configurations that check them on small instances, and proofs, checked by
TLAPS, of what holds for every instance. Paths below are relative to the
repository root; `crates/` stands for `src/crates/`.

Basilica is a market for GPU machines on a Bittensor subnet. A *validator*
verifies and scores the machines (*executors*) that *miners* offer, and rents
them to users. The *payments* service watches the chain for deposits and has the
*billing* service credit them; billing reserves and charges credits for rentals.
Miners back their executors with collateral in a contract on the subnet's EVM.

## 1. The system

| Component | State | Operations | Interacts with | What is hard |
|---|---|---|---|---|
| collateral contract (`crates/collateral-contract`) | owner, collateral and pending amount per executor; open reclaims; trustee and timeouts | deposit, reclaimCollateral, finalizeReclaim, denyReclaimRequest, slashCollateral, admin updates | miners, trustee, validator's collateral scan | orders of calls of several accounts, slash during a reclaim, the last second of a window |
| billing: ledger and rentals (`crates/basilica-billing`) | accounts, reservations, rentals, usage events (PostgreSQL) | ApplyCredits, ReserveCredits, ReleaseReservation, GetBalance, TrackRental, UpdateRentalStatus, FinalizeRental | payments, API gateway, validator | each handler is several statements without a transaction; overlap, cut-short handlers |
| billing: telemetry and events | bounded buffer, `usage_events` batches | ingest, flush, process batch | validator | full buffer, failed batch |
| billing: packages and rules | package tables | price arithmetic, one UPSERT | - | decimals only |
| payments: deposits and outbox (`crates/basilica-payments`) | deposit accounts, observed deposits, outbox, known accounts | CreateDepositAccount, block handler, claim, dispatch | chain, billing | several instances, crash between two steps, leases and retries, lost answers |
| payments: price oracle | cached price behind an RwLock | get_tao_usd_price, refresh | dispatcher, price APIs | lock order, staleness |
| common: advisory locks, leader election | PostgreSQL advisory locks | run_as_leader | payments | a session lost with its lock |
| validator: rentals (`crates/basilica-validator/src/rental`) | table `rentals`; containers on executors; sessions at miners | start_rental, stop_rental, health monitor | API gateway, miner, executor | whole rows written back after long awaits, partial failure, crash |
| validator: verification, scheduling (`miner_prover/`) | tables `miner_executors`, `gpu_uuid_assignments`, verification logs | full and lightweight verification, storing of results, clean-up of failed and of stale executors | miner, executor, scoring | results stored in many statements without a lock; two clean-ups beside them |
| validator: weights, GPU scoring (`bittensor_core/`, `gpu/`) | last weight block, epoch timestamp and version key in a key-value file; GPU profiles | rounds of set_weights, allocation of the emission | chain, verification logs | retries of what was already submitted, a crash between submission and marker, a truncated file, rounding |
| validator: collateral scan (`collateral/`) | `collateral_status`, last scanned block | scan of contract events | collateral contract | a scan cut short between the events of a block and its number |
| miner (`crates/basilica-miner`) | SSH sessions, timers, rate limits (all in memory); assignments, executors | create, close and expire a session; assign | validator, executor | limits checked before an await, timer against close, dropped handlers |
| executor (`crates/basilica-executor`) | authorised keys, validation sessions, containers | provision access, sessions | miner | calls that take effect and whose answer is lost |
| bittensor client (`crates/bittensor`) | retry state, circuit breaker | calls with retry | chain | half-open breaker |
| API gateway, CLI, SDK, protocol | rate-limit windows; otherwise none | forward requests | all services | - |

`PROJECT.json` lists the components with the reason where one is not modelled,
and the hazards of the code line by line.

## 2. The modules

| Module | Models | Composed of |
|---|---|---|
| `Collateral` | `CollateralUpgradeable.sol` | - |
| `CollateralScan` | `collateral/collateral_scan.rs`, `persistence/collateral_persistence.rs`, `scan_events` | extends `Collateral`: contract and scan run together |
| `Billing` | `grpc/billing_service.rs`, `domain/credits.rs`, `domain/rentals.rs`, `storage/*` of billing | - |
| `Ledger` | what billing promises a user: apply, hold, settle and charge as single steps | - |
| `BillingLedger` | the refinement mapping from `Billing` to `Ledger` | extends `Billing`, instantiates `Ledger` |
| `Payments` | monitor, outbox, dispatchers and deposit accounts of payments, with leader election; billing as an external service that counts credits | - |
| `PriceOracle` | `price_oracle/mod.rs` over tokio's fair RwLock | - |
| `Rentals` | rental manager, deployment, container client and health monitor of the validator | - |
| `SshSessions` | the miner's `ssh/session_orchestrator.rs` and the executor's `provision_validator_access` | - |
| `GpuRegistry` | storing of verification results and the clean-up in `miner_prover/verification.rs`; `cleanup_stale_executors` in `persistence/gpu_profile_repository.rs` | - |
| `WeightAllocation` | `bittensor_core/weight_allocation.rs` as operators | - |
| `Weights` | `bittensor_core/weight_setter.rs`, the key-value file, verifications beside it | extends `WeightAllocation` |
| `MC*` | instances for TLC: model values and symmetry | the modules above |
| `SumTheorems` | lemmas on sums over finite sets, which `Functions` defines by a fold | - |
| `*_proofs` | theorems about the module of the same name; `Billing_proofs` also about `BillingLedger`, `Collateral_proofs` about `CollateralScan`, `Payments_proofs` about `PriceOracle`, `Weights_proofs` about `WeightAllocation` | - |

A definition whose name ends in `_Mutant` (or another suffix after `_`) is a
plausible slip in the code that a property must notice; none is part of a
specification.

### Collateral

A variable per mapping of the contract, one action per external function. A
transaction is atomic and a revert undoes it, so a reverting call is an action
that is not enabled; every `revert` is a guard. An executor stands for the pair
(hotkey, executorId). The recipient of a payment may run code, but only after the
last write to storage, so what it calls is a later transaction of the model. It
may also refuse the payment, which reverts the call: nothing is assumed of
`finalizeReclaim` for the accounts in `MayRefuse`.
`slashed` is a history variable. Upgrades and role administration are left out.

### Billing

An action is one SQL statement with the computation on its result: that is where a
handler yields. `pc` holds the statement a handler runs next and `ctx` its local
variables, above all the copy of the account it will write back
(`update_account` overwrites the row from this copy). `Fail` ends a handler at any
await: an error, the server's request timeout, a crash. `Serialise` says whether
callers overlap two requests of one user; nothing in the code prevents it.
Amounts are numbers of either sign: `parse_decimal` and the handlers do not look at
the sign, and a negative cost lowers what is reserved or spent. The schema checks
the balance and the reserved amount, and a statement that would take one below zero
fails.

### Ledger and BillingLedger

`Ledger` is the service a user sees: an account with a balance and holds on it,
changed in single steps. A hold is made only when the balance covers all holds (one
of nothing or less always is: the code compares it with an available balance that is
never below zero), is charged once or given up, and no charge exceeds the balance. A
user who holds a negative amount sets it off against other holds (`SetOff`), and the
promise that holds are covered ends there. `BillingLedger` maps the tables of `Billing` to it. A hold comes into being with the INSERT of its
reservation and is settled by the UPDATE of the account; between the UPDATE that
marks the reservation released and that one it is still open. Where a handler is
cut short between its two writes the ledger says so: the user is in `cut`, and for
such a user the code does not keep the promise that new holds are covered.

### Payments

Handlers, monitors and dispatchers of several instances share the tables. A block
has at most one transfer, so its number serves as the key of the deposit and of
the outbox row. The lease of a claim, the backoff and the refresh of
`known_accounts` are there with their conditions; the clock is two actions,
`LeaseExpires` and `BackoffElapses`. A failed call to billing may have been
applied. `applied` counts the credits billing made for a transaction. A dispatcher
may hang in its price call (`PriceHangs`, `hung`), as `PriceOracle` shows the code
does when no fresh price is cached; another instance then takes over its rows.

### PriceOracle

The lock is a queue of requests granted in order, with the guards each task
holds. The model keeps which guard lives across which await, which is what the
code's `let cache = self.cached_price.read().await` decides.

### Rentals

An action is one command on the executor, one call to the miner or one statement.
A command may fail before or after it took effect. The monitor works through the
copies it queried, one at a time, and writes the whole row back after its check,
as `stop_rental` does; handlers run in between. `Crash` leaves the table, the
containers and the sessions. The executor a rental runs on, metrics, log streaming
and status queries are left out: no write of the modelled state depends on them.

### SshSessions

An action is what a request handler, or the timer task of a session, does between
two awaits. `req` and `target` are a handler's local variables; `keys` is the
executor's file of authorised keys. A call to the executor may fail before or after
it took effect, `DropHandler` is a client that went away, `Crash` a restart of the
miner, which keeps nothing but the executor's files. Time is relative: what is left
of a session, and the age of a rate-limit window. `passes` and `restarts` are history:
the requests that passed the rate limit in the last hour, by age, which a restart does
not clear, and the restarts in that hour.

A hotkey is a name in a request and not the identity of a caller: the server has no
interceptor and `close_ssh_session` takes the hotkey from the request
(`validator_comms.rs:774`). The models and the properties speak of the hotkey a
request names, and any caller may name any.

### GpuRegistry

A claim is what a miner says of an executor (id and address). A task stores one
result statement by statement: the status, the row of the executor with its
renaming and duplicates, the GPUs one at a time, the count, the final status. The
clean-up's steps 1 to 3 run beside the tasks with the copies their queries made, and
so does `CleanupStaleExecutors`, the transaction of the second clean-up.
Ages are nondeterministic: any offline row and any assignment may be old, any active
executor may lack a recent health check, and any offline executor may have failed
often enough. `vouched` is a history variable:
the GPUs that a success reported and no later failure took away.

### Weights and WeightAllocation

`WeightAllocation` is the arithmetic: percentages in parts of `Full`, every
conversion to an integer rounds down, the last miner of a category gets what is
left, parts are capped at u16::MAX, and the equal parts of miners that score nothing
keep the low 16 bits. `Configs` are the configurations that `EmissionConfig::validate`
accepts, with shares that may miss one hundred percent by `Tolerance`; `Within` are
those of them not above it. It is nondeterministic where the code is: the last of a category depends on
the order of a query. `Weights` is the loop around it: rounds, attempts and
submissions with their retries, the version key, and the three places where the
markers of a round are saved. A round lists any of the miners verified since the
last timestamp, and its properties hold for whatever configuration and scores these
have. When the shares are above one hundred percent (`over`), an attempt may be refused
by `validate_allocation`. The file is truncated before it is written, so a fault during a save may
leave it empty.

### CollateralScan

The contract's transactions emit events into blocks; the unit of the contract's
time is a block. The scan reads a range of blocks, handles event after event by an
UPDATE of its own, and stores a block's number after its events. `booked` remembers
what the contract had at the end of each block, `doubtful` which executors' events
were handled before a scan was cut short. Reorganisations of the chain are left
out: a block's events are final, and no log is ever marked `removed` (the scan skips
such logs, `lib.rs:126`).

## 3. What the runs show

Passing runs:

| Run | Checks | Instance | States |
|---|---|---|---|
| `collateral` | `PendingMatchesReclaims`, `Solvent`, `UnslashedIsCovered`, `EndsByItsDeadline`, `ReclaimsEnd` | 2 executors, 2 accounts of which one may refuse payments, 2 reclaims, 3 time steps | 318,688 |
| `collateral_scan` | `TableIsExact`, `BlocksAreScanned` | 2 executors, 1 account, 3 events, 4 blocks, 2 failures | 366,601 |
| `billing` | `NoCreditFromNothing`, `NeverPendingAgain` under any overlap and failure | 1 user, 2 handlers, 5 requests, costs 1 and -1 | 3,783,219 |
| `billing_serial` | `Conserved`, `TerminalIsFinal`, `ImplementsLedger` when requests of a user do not overlap | 2 users, 2 handlers, 4 requests, costs -1, 1 and 2, debits too | 933,650 |
| `payments` | `AddressStable`, `QueuedWithObserved`, `DispatchedWasApplied`, `OneCreditPerLease`, `AllDispatched` | 2 users, 2 handlers, 2 monitors, 2 dispatchers, 2 blocks, 1 failure | 831,310 |
| `rentals` | `StopIsEffective`, `EndedForGood`, `DeadRentalsEnd` | 2 handlers, 2 rentals, 2 faults | 625,789 |
| `ssh_sessions` | `OvershootBounded`, `RateBounded`, `EndedByItsHotkeyOrTime`, `SessionsEnd` | 2 handlers, a validator's hotkey and another, 2 sessions, limit 1, rate 2, 2 restarts | 160,552 |
| `gpu_registry` | `AssignmentIsVouched`, `RowsSettle` | 2 tasks, 2 miners that claim one executor id at one address, 1 GPU, 2 results, both clean-ups | 371,635 |
| `weights` | `PaidOnce`, `VersionsGrow`, `RoundsSpaced`, `AllocationExact`, `FairUpToRounding`, `DueRoundsHappen` | 2 miners, 2 categories, 4 blocks, 2 faults, 180 configurations | 1,683,210 |

`TypeOK` is checked in `collateral`, `billing`, `rentals` and `gpu_registry`.

Runs in which the code does not do what the repository says (`findings` in
`PROJECT.json` quotes the lines):

- `billing_lost_update`: two overlapping requests of a user read the same account
  row and the second write erases the first. The schema has a `version` column
  "For optimistic locking" that no statement compares.
- `payments_unknown`: a deposit to an account created since the last refresh of
  `known_accounts` (every 128 blocks) is skipped, and the block is never read
  again.
- `price_oracle`: "Get current TAO/USD price, fetching from API if cache is
  stale" - a call that fetches a price never returns, as its write of the cache waits
  for the read guard the call itself holds; one whose fetch failed may not return
  either, when its second read queues behind a write of the background task, which
  waits for the first guard.

### Bounds

The bounds are chosen so that every action and every branch of every action
happens and the shortest counterexample of every mutant fits. Two handlers are
enough for a lost update and for a stop during a stop or a start; the monitor of
`Rentals` is a third process. Two executors in `Collateral` separate the books of
one from those of another. Two reclaims let one wait for another's collateral;
three time steps cover opening, the last moment of the window and after it. Two
blocks in `Payments` with `RefreshEvery = 2` have one block on either side of a
refresh. Two failures let a retry fail again, or one process fail while another
recovers. In `SshSessions` two handlers with a limit of one already overshoot it,
a rate of two lets a window fill, end and fill again, and a second
restart falls into the hour of the first. In `GpuRegistry` two
results are a success against a failure or two successes that compete for one GPU,
under an executor id and an address that two miners claim, so that each overwrites
the other's status, is its duplicate and is refused its address; the tables start
with any assignment an earlier run left. A miner that renames an executor (`Rename`
from another id; here from the id that another task inserted meanwhile) is covered for
the invariants by the proofs, which take any claims. `Weights` has an interval of two blocks in
four, so that two rounds and one after a restart fit, and two faults, so that one
of them may hit the recovery from the other; the allocation is checked over shares
in hundredths of a percent that make up exactly one hundred percent, or a hundredth
more or less, with four burn percentages and every score up to two. `CollateralScan` has scans of
two blocks, so that a range begins, ends and is cut short in the middle. For the safety
properties the proofs below remove the bounds.
Deadlock is checked except where a bound on requests or blocks runs out, and in
`price_oracle`, where the code itself deadlocks.

### Fairness

- `Collateral`: blocks keep coming, and the owner keeps calling
  `finalizeReclaim`, which anyone may; the recipient takes the payment unless it is
  in `MayRefuse`. Nothing is assumed of trustee or admin.
- `Payments`: a dispatcher polls every 350 ms and its awaits end, except a price
  call, which either ends or hangs for good; the clock runs. Nothing is assumed of
  chain, monitors or callers, nor that a hung instance is restarted: `AllDispatched`
  says that a row is dispatched or every dispatcher hangs.
- `PriceOracle`: the lock wakes the oldest request it can grant, the HTTP client
  answers or times out, the interval ticks.
- `Rentals`: the monitor's loop ticks every 30 s and a check ends by its timeout of
  10 s. Nothing is assumed of handlers.
- `SshSessions`: time passes and spawned timer tasks are scheduled; every call they
  make has a timeout. Nothing is assumed of handlers or executors.
- `GpuRegistry`: the clean-up runs every 15 minutes and does not fail for ever.
  Nothing is assumed of the tasks or of the clean-up of stale executors (which may be
  disabled): `RowsSettle` is the work of the first clean-up alone.
- `Weights`: the setter's task is scheduled as long as it can go on. Nothing is
  assumed of chain, blocks or verifications. `DueRoundsHappen` is stated for shares of
  up to one hundred percent; above, every attempt may be refused.
- `CollateralScan`: the scan loop ticks every 12 s. Nothing is assumed of the chain.

Failures are bounded in number in the liveness runs, which stands for "failures
stop eventually".

## 4. What is proved

All theorems hold for every value of the constants that satisfies the named
`ASSUME` of the module (bounds are naturals, amounts are numbers, special values
differ from ordinary ones). TLC evaluates these assumptions in every run.

- **Collateral** - `TypeCorrect`, `PendingIsExact`, `AlwaysSolvent`,
  `AlwaysCovered`, `DeadlineDecides`. The invariant `IInv` joins the four state
  properties with `FreshIds` (an id not handed out holds no reclaim). None is
  inductive alone: the pending amount stays a natural number because it is the sum
  of the open reclaims, which needs ids to be fresh. The sums are handled by
  `SumTheorems`: changing one term of a finite sum changes it by the difference,
  and no term of a sum of naturals exceeds it.
- **CollateralScan** - `ContractIsKept`: the composition implements the contract's
  specification, so that all of the above holds beside the scan. `TableMatches`: the
  table is what the contract had booked (`TableIsExact`). What a log of events does
  to the collaterals would take an induction over the log; instead `ScanInv(h)` is
  about a history `h` of the collaterals after each event of each block, which exists
  at the start and which every transaction extends (`Follows`). `Caught` then says
  that the table is `h` at the event handled last, for every executor that is not in
  doubt, and that the rows of executors without an event in the block under way are
  those of the last stored block, which is what a cut-short scan leaves behind.
- **Billing** - `TypeCorrect`, `PendingIsLeftForGood`, `NoCreditMade`, for costs of
  either sign: balance and reserved amount stay natural, spending does not. What a
  handler writes comes from its local variables, so `IInv` says what these are at
  every statement (`CtxOK`). `NoCreditMade` adds `Money`: every account *and every
  copy a handler holds* is backed by credits applied. It needs that no ApplyCredits
  carries a negative amount, stated as a hypothesis: a lost debit makes credit.
- **Billing without overlap** - `CreditIsConserved`, `TerminalStays` and the
  refinement `LedgerImplemented`, each under the hypothesis `Serialise = TRUE`: the
  requests of one user do not overlap, those of different users do, and all may be
  cut short at any statement. `SInv` adds to `IInv` that a user has one handler
  (`OnePerUser`); that what it read is still so when it writes (`LocalOK`), which is
  what overlap breaks; that balance and spending are what was applied (`MoneyOK`);
  which reservations may have been settled (`RowsOK`); and that the reserved amount
  covers the open holds unless a request of the user was cut short or reserved a
  negative amount (`HeldOK`, over the users in `Covered`). The
  refinement has one step per statement: the INSERT of a reservation is `Hold`, the
  account's UPDATE is `Apply`, `Settle` or `Charge`, the others leave the ledger alone.
  Under overlap `Conserved` is false (`billing_lost_update`).
- **Payments** - `AddressesAreStable`, `QueueMatchesObserved`,
  `DispatchedIsApplied`, `CreditsPerLease`. `IInv` says that a hotkey belongs to one
  call or to one user (`AccountsOK`, `HandlersOK`), that a monitor only knows stored
  accounts, that rows come from finalized transfers, and that a dispatcher about to
  mark a row had it credited (`MarkersOK`). `OneCreditPerLease` needs a count: the
  credits made plus the dispatchers that may still make one never exceed the leases
  that ran out plus the live one (`LeasesOK`), because a claim needs that none is live.
- **PriceOracle** - `FetchingCallIsStuck` (`StuckForGood`; in `Payments_proofs`, over
  an instance of the module, for a background task that is none of the callers): the
  read guard of a call that missed the cache is held until the call returns
  (`GuardIsKept`), so no write is granted.
- **Rentals** - `TypeCorrect`, `StopsAreEffective`, `EndedStaysEnded`. `IInv` says
  what each handler may rely on at each await (a start works on an id without a
  row and no other handler has it; a stop past its commands has a container that
  does not run), that the monitor's copies are of rows that exist, and that its
  verdict is always an end state. `EndedStaysEnded` follows: the only write of
  Active is the first write of its row.
- **GpuRegistry** - `TypeCorrect`, `AssignmentsAreVouched`. `AssignmentIsVouched` is
  not inductive: a task inserts or takes a GPU many statements after the result it
  stores. `IInv` adds what a task relies on at each of them: it stores a full
  success, the GPU in hand is one the success found, and all it found stays vouched
  for while it is stored, also when a failure of the same executor is stored in
  between. The clean-up only ever removes, which its part of the proof shows.
- **SshSessions** - `OvershootIsBounded`, `EndsByItsHotkeyOrTime`,
  `RateIsBounded`. `IInv` says what a handler may still rely on after an await: the
  session it closes exists and has the hotkey the request names, a timer past its
  wait has a session without time left. The limit is the one check
  that may be stale, and for it the invariant counts active sessions and requests
  past the check together. The rate limit has an invariant of its own (`Rates`) about
  every suffix of the last hour: its requests are at most the count of the current
  window, one limit for the windows before it, and one limit for every restart in the
  suffix, each of which forgets a window.
- **Weights** - `KeysGrow`, `RoundsKeepApart`, `PaymentsAreBounded`. `IInv` compares
  the keys in memory and in the file with what was done: neither version key is below
  one handed to the chain (`Versions`), every block the setter may count from is far
  enough on (`Rounds`), and while a verification may still be paid (`Open`) every round
  that paid it was followed by a fault (`Payouts`).
- **WeightAllocation** - `AllocationsAreExact`, `AllocationsAreFair`, for any miners,
  categories and scores and all accepted shares of up to one hundred percent (above,
  the total may not fit, see section 5; only that no subtraction goes below
  zero is proved for those too). The last miner of a category gets its own part and
  less than a unit for every miner besides (`LastBounds`), so a category gives away
  its pool but for a unit per miner (`CategoryExact`); exchanging the sum over miners
  with the sum over categories (`SumSwap`) gives the total. Since it fits, no cap
  takes effect. Fairness follows from the same bounds, category by category.

The invariants were checked by TLC on the instances of section 3 before they were
proved. One proof found a fault in a model: `Ledger` refused a hold of nothing to a
user whose balance a debit had taken below the holds, which the code grants and no run
had an instance of.

The proofs about `Payments` assume that
the values standing for "none" are outside the sets they are added to.

Only model-checked: the liveness properties (`ReclaimsEnd`, `BlocksAreScanned`,
`AllDispatched`, `DeadRentalsEnd`, `SessionsEnd`, `RowsSettle`,
`DueRoundsHappen`), as fairness is outside the prover's reach. Every invariant and
every action property of a passing run is proved. `TypeOK` of `Payments` is proved and
not checked.

## 5. Observations without a run

Behaviour met while modelling that no run singles out.

Collateral and its scan:

- A slashed reclaim becomes payable again when somebody deposits for the executor
  later: `finalizeReclaim` compares with the executor's current collateral
  (`CollateralUpgradeable.sol:262`).
- `finalizeReclaim` deletes the executor's owner even if collateral remains, for
  instance a deposit made during the window. The next depositor owns it
  (`CollateralUpgradeable.sol:268`, `:172`).
- After a slash the pending amount of the dead reclaim can never be removed: the
  revert in `finalizeReclaim` undoes the deletion, and the deny window is over. While
  the next owner's deposit is below it, `reclaimCollateral` reverts.
  `docs/collateral-contract.md:52` speaks of "preventing indefinite lock-ups".
- Events that a scan handles twice are counted twice in `collateral_status`, until a
  slash sets the row to zero (`doubtful` in `CollateralScan`). The row's miner is not
  updated by later deposits, and a range of `from + 1000` is 1,001 blocks.

Billing and payments:

- A TrackRental whose reservation is refused leaves a Pending rental. The scenario
  in `crates/basilica-billing/tests` that expects otherwise looks the rental up
  under an id the service never uses.
- A retried FinalizeRental of a Completed rental charges the balance again; expired
  reservations keep their credits, as `cleanup_expired_reservations` has no caller.
- `backoff` leaves `claimed_at` set, so a failed row is retried when its five-minute
  lease ends, not when its backoff does.
- While a price call is stuck (`price_oracle`) the background task cannot refresh
  the cache either, so every later conversion of the process hangs once the price is
  stale: `FetchingCallIsStuck` proves it.
- No handler of billing looks at the sign of an amount. A negative cost pays a user
  back out of spending; a negative reservation is inserted, and when it takes the
  reserved amount below zero the UPDATE fails after the INSERT.
- The event processor of billing is not started by default, and the telemetry
  ingester holds its metrics lock across a send that may block.

Rentals:

- Nothing excludes two `start_rental` calls for one executor.
- `start_rental` saves its row last: a failed save, a dropped handler or a crash
  leaves container and session running with no row to find them by.
- One timeout or SSH error of a health check ends a rental for good while its
  container may run on.

SSH sessions:

- "Duration of 0 means revoke access" (`session_orchestrator.rs:522`): the executor's
  handler (`grpc_server/mod.rs:166`) does not read the duration and adds the key once
  more, so the key of a session that was closed or ran out stays. In the model `keys`
  only grows, and no property speaks of revoked access.
- Whoever can reach the miner's server may close any session whose id and hotkey it
  knows: the hotkey in the request is all `close_session` compares.
- A restart of the miner forgets sessions and rate limits: their keys stay and a new
  window opens.
- A handler dropped after it stored a session leaves one without a timer; it counts
  against the limit until a restart, as `run_cleanup_task` has no caller.

Weights:

- `submit_extrinsic` returns before the extrinsic is in a block, so a round counts
  as done although the chain may refuse it.
- A verification that succeeds between the query of a round and the timestamp the
  round stores counts in no round.
- An error in `start` ends the setter's task, and nothing starts it again.
- "Validate GPU allocations sum to 100.0" (`emission.rs:132`): shares of up to 100.01
  are accepted. Two of 50.004 percent without a burn give pools that exceed u16::MAX
  together, and `validate_allocation` then refuses every round.
- With a single share of 100.01 percent and no burn the pool is above u16::MAX. Where
  the miners score zero, `distribute_equally` keeps the low 16 bits of their part: one
  miner alone gets 6 of 65,535. Where they score, the first is capped and the last
  gets what is left, which may be more than its score earns.
- The query of an epoch compares `datetime('now')` with an RFC 3339 string, which only
  orders days.

Verification:

- The UPDATE of an executor's status names the executor id alone, so that rows of
  other miners with this id change too.
- The query for the old id of a renamed executor does not leave out the new one: when
  another task has inserted it since, its row is deleted and inserted again without
  its GPU count.
- The UPDATE that takes a GPU from an inactive executor names the GPU alone: an
  executor that became active since, or a third one, loses it.
- The GPUs of a duplicate are deleted under the claimant's miner id, so another
  miner's duplicate keeps them until the clean-up.
- A uid that another hotkey takes over inherits the executors of the former one. Step 4
  of the clean-up, "for all miners with wrong gpu count profile"
  (`verification.rs:2320`), does not find a miner with one active executor left whose
  offline one was deleted in the steps before.
- The worker queue (`validation_worker.rs`) is off by default.

## 6. Not modelled, and what comes next

Still to be modelled:

1. Billing's telemetry buffer and its batch processor of usage events.
2. The miner's assignment of executors to validators and the health checks of
   executors; the validator's per-executor set of active SSH sessions.
3. `update_all_miner_scores` and the GPU profiles, between `GpuRegistry` and
   `Weights`.
4. The retry and circuit breaker of the chain client, the gateway's rate limits.

Theorems to prove next: those of the parts above once they are modelled, and the
safety part of the liveness properties, for instance that a due
round stays due until it is done (`DueRoundsHappen`).

Left out for good: generated chain metadata, contract bindings and protocol code,
which are more than half of the repository's lines; wrappers of cryptographic
libraries; probing of machines over SSH, Docker and the validation binary;
configuration, CLI and SDK. They keep no state that two actors share.

## 7. Running

    tlc -config MCRentals.cfg MCRentals     # any run: its cfg and module
    tlapm Rentals_proofs.tla                # any module of proofs
