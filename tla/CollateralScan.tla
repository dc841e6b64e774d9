--------------------------- MODULE CollateralScan --------------------------
(***************************************************************************)
(* The validator's view of the collateral contract: a loop that reads the  *)
(* events of the contract block by block into the table collateral_status  *)
(* (collateral/collateral_scan.rs, persistence/collateral_persistence.rs   *)
(* and scan_events of collateral-contract/src/lib.rs), composed with the   *)
(* contract.                                                               *)
(*                                                                         *)
(* A unit of the contract's time is a block.  Block now is being made;     *)
(* block 0 is the one the contract was deployed in.  A scan handles event  *)
(* after event, each by an UPDATE of its own, and stores the number of a   *)
(* block after its events.  Only this loop writes the table, so the SELECT *)
(* before an UPDATE is part of its step.  The owner that a row names and   *)
(* the url of a slash are left out: nothing reads them.                    *)
(***************************************************************************)
EXTENDS Collateral, Sequences

CONSTANTS
  MaxBlocksPerScan,   \* MAX_BLOCKS_PER_SCAN
  MaxEvents,          \* bound: events that the contract emits
  MaxFailures         \* bound: scans that are cut short

ASSUME ScanAssumption ==
  MaxBlocksPerScan \in Nat /\ MaxEvents \in Nat /\ MaxFailures \in Nat

VARIABLES
  logs,       \* block -> the contract's events in it, in order
  booked,     \* history: block -> the contract's collaterals at its end
  table,      \* collateral_status: key -> collateral, or NoRow
  last,       \* last_scanned_block_number
  scan,       \* the scan's block, how many of its events are handled, and its end
  failures,
  doubtful    \* history: keys whose events may have been handled twice

chain == <<logs, booked>>
scanner == <<table, last, scan, failures, doubtful>>
systemVars == <<vars, chain, scanner>>

Blocks == 0 .. MaxTime + 1
NoRow == -1
NoScan == [block |-> 0, done |-> 0, to |-> 0]

SystemInit ==
  /\ Init
  /\ logs = [b \in Blocks |-> <<>>]
  /\ booked = [b \in Blocks |-> collaterals]
  /\ table = [k \in Keys |-> NoRow]
  /\ last = 0
  /\ scan = NoScan
  /\ failures = 0
  /\ doubtful = {}

-----------------------------------------------------------------------------
(* The contract.                                                           *)

Events == {e \in Blocks \X (1 .. MaxEvents) : e[2] \in DOMAIN logs[e[1]]}

Emit(kind, k, v) ==
  /\ Cardinality(Events) < MaxEvents
  /\ logs' = [logs EXCEPT ![now] = Append(@, [kind |-> kind, key |-> k, amount |-> v])]

\* A transaction of block now; the other calls emit events that nobody reads.
Transaction ==
  /\ now > 0
  /\ \/ \E a \in Accounts, k \in Keys, v \in Amounts :
          Deposit(a, k, v) /\ Emit("Deposit", k, v)
     \/ \E id \in ReclaimIds :
          FinalizeReclaim(id) /\ Emit("Reclaimed", reclaims[id].key, reclaims[id].amount)
     \/ \E a \in Accounts, k \in Keys :
          SlashCollateral(a, k) /\ Emit("Slashed", k, collaterals[k])
     \/ \E a \in Accounts, k \in Keys : ReclaimCollateral(a, k) /\ UNCHANGED logs
     \/ \E a \in Accounts, id \in ReclaimIds : DenyReclaimRequest(a, id) /\ UNCHANGED logs
     \/ (UpdateTrustee \/ UpdateDecisionTimeout \/ UpdateMinCollateralIncrease) /\ UNCHANGED logs
  /\ UNCHANGED <<booked, scanner>>

NewBlock ==
  /\ Tick
  /\ booked' = [booked EXCEPT ![now] = collaterals]
  /\ UNCHANGED <<logs, scanner>>

-----------------------------------------------------------------------------
(* scan_handle_collateral_events.                                          *)

Scanning == scan # NoScan

\* The block before the newest one that is complete.
CurrentBlock == IF now >= 2 THEN now - 2 ELSE 0

FirstBlock_Mutant == last

FirstBlock == last + 1

\* scan_events refuses when there is no new block.
StartScan ==
  /\ ~Scanning
  /\ FirstBlock <= CurrentBlock
  /\ LET end == FirstBlock + MaxBlocksPerScan IN
     scan' = [block |-> FirstBlock, done |-> 0,
              to |-> IF end > CurrentBlock THEN CurrentBlock ELSE end]
  /\ UNCHANGED <<vars, chain, table, last, failures, doubtful>>

HasNext == Scanning /\ scan.block <= scan.to /\ scan.done < Len(logs[scan.block])
NextEvent == logs[scan.block][scan.done + 1]

\* saturating_sub
Minus(x, y) == IF x >= y THEN x - y ELSE 0

\* handle_deposit, handle_reclaimed, handle_slashed: the row's new collateral.
Updated(row, e) ==
  CASE e.kind = "Deposit" -> IF row = NoRow THEN e.amount ELSE row + e.amount
    [] e.kind = "Reclaimed" -> Minus(row, e.amount)
    [] e.kind = "Slashed" -> 0

\* The next scan starts with the whole block again.
Abandon ==
  /\ scan' = NoScan
  /\ doubtful' = doubtful \cup
       IF scan.block > scan.to THEN {} ELSE {logs[scan.block][i].key : i \in 1 .. scan.done}
  /\ UNCHANGED <<vars, chain, table, last>>

\* "Collateral status not found" ends the scan.
HandleEvent ==
  /\ HasNext
  /\ LET e == NextEvent IN
     IF e.kind # "Deposit" /\ table[e.key] = NoRow THEN Abandon
     ELSE /\ table' = [table EXCEPT ![e.key] = Updated(@, e)]
          /\ doubtful' = IF e.kind = "Slashed" THEN doubtful \ {e.key} ELSE doubtful
          /\ scan' = [scan EXCEPT !.done = @ + 1]
          /\ UNCHANGED <<vars, chain, last>>
  /\ UNCHANGED failures

\* The number is stored after the last event of a block that has some.
EndBlock ==
  /\ Scanning /\ scan.block <= scan.to /\ ~HasNext
  /\ last' = IF logs[scan.block] # <<>> THEN scan.block ELSE last
  /\ scan' = [scan EXCEPT !.block = @ + 1, !.done = 0]
  /\ UNCHANGED <<vars, chain, table, failures, doubtful>>

LastAfter_Mutant == last

LastAfter == scan.to

EndScan ==
  /\ Scanning /\ scan.block > scan.to
  /\ last' = LastAfter
  /\ scan' = NoScan
  /\ UNCHANGED <<vars, chain, table, failures, doubtful>>

\* A statement fails or the process dies.
ScanFails ==
  /\ Scanning /\ failures < MaxFailures
  /\ failures' = failures + 1
  /\ Abandon

ScanStep == StartScan \/ HandleEvent \/ EndBlock \/ EndScan

-----------------------------------------------------------------------------

SystemNext == Transaction \/ NewBlock \/ ScanStep \/ ScanFails

\* The loop ticks every 12 seconds.  Nothing is assumed of the chain.
SystemSpec == SystemInit /\ [][SystemNext]_systemVars /\ WF_systemVars(ScanStep)

-----------------------------------------------------------------------------
(* Properties.                                                             *)

Stored(k) == IF table[k] = NoRow THEN 0 ELSE table[k]

\* Between two scans the table says what the contract had booked at the end of the
\* last scanned block; not for an executor with an event in a block whose scan was
\* cut short before the number was stored, which is then handled twice: that one is
\* right again after its next slash.
TableIsExact ==
  ~Scanning => \A k \in Keys \ doubtful : Stored(k) = booked[last][k]

\* Every block gets scanned, whatever the scans before it ran into: no event is
\* refused for ever and no stretch of blocks without events holds the scan up.
BlocksAreScanned == \A b \in Blocks : b <= CurrentBlock ~> b <= last

=============================================================================
