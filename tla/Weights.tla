------------------------------ MODULE Weights ------------------------------
(***************************************************************************)
(* The validator's weight setter (bittensor_core/weight_setter.rs) with    *)
(* the verifications that run beside it and the key-value file it keeps    *)
(* its place in (basilica-common storage.rs).                              *)
(*                                                                         *)
(* now is the block number and the clock at once.  A setter step is the    *)
(* work between two awaits that may fail; a fault (an error of the chain,  *)
(* the database or the file system, or the death of the process) uses up   *)
(* one of MaxFaults.  The file is truncated before it is written, so a     *)
(* failed save may leave it empty; a later save writes all keys again.     *)
(*                                                                         *)
(* An attempt takes any set of miners for those with an active axon, an    *)
(* executor that did not fail a verification since, and a profile that the *)
(* scoring task (update_all_miner_scores) refreshed within the cutoff;     *)
(* their scores come from the verification logs.  Left out: metrics and    *)
(* logs, and the inclusion of a submission in a block, which the code does *)
(* not wait for.                                                           *)
(***************************************************************************)
EXTENDS WeightAllocation

CONSTANTS
  Interval,      \* blocks_per_weight_set
  MaxAttempts,   \* MAX_RETRIES of set_weights_for_miners
  MaxTries,      \* MAX_RETRIES of submit_weights_to_chain_with_retry
  MaxNow,        \* bound: blocks
  MaxFaults      \* bound: faults

ASSUME WeightsAssumption ==
  /\ Interval \in Nat \ {0}
  /\ MaxAttempts \in Nat \ {0} /\ MaxTries \in Nat \ {0}
  /\ MaxNow \in Nat /\ MaxFaults \in Nat

None == -1
EmptyStore == [block |-> None, stamp |-> None, version |-> None]

VARIABLES
  over,       \* the configured shares are above one hundred percent, within the tolerance
  now,
  verified,   \* miner -> its last successful verification, or None
  pc,         \* next step of the setter
  last,       \* last_weight_set_block
  round,      \* current_block of the round under way
  paid,       \* the miners in the distribution the attempt submits
  attempt,    \* attempts of set_weights_for_miners
  tries,      \* attempts of submit_weights_to_chain_with_retry
  stamp,      \* timestamp taken by store_last_weight_set_block
  mem,        \* the keys in memory
  file,       \* the keys in the file
  faults,
  sent,       \* history: highest version key handed to the chain
  done,       \* history: last round whose block was saved
  lost,       \* history: the keys were lost by a restart
  pays        \* history: miner -> the rounds that paid its last verification

local == <<round, paid, attempt, tries, stamp>>
history == <<sent, done, lost, pays>>
vars == <<over, now, verified, pc, last, local, mem, file, faults, history>>

Init ==
  /\ over \in BOOLEAN
  /\ now = 0
  /\ verified = [m \in Miners |-> None]
  /\ pc = "start" /\ last = 0
  /\ round = 0 /\ paid = {} /\ attempt = 0 /\ tries = 0 /\ stamp = 0
  /\ mem = EmptyStore /\ file = EmptyStore
  /\ faults = 0
  /\ sent = 0 /\ done = None /\ lost = FALSE
  /\ pays = [m \in Miners |-> {}]

Fault == faults < MaxFaults /\ faults' = faults + 1

-----------------------------------------------------------------------------
(* Verifications.                                                          *)

\* A verification succeeds: a log, status online and the GPU assignments.
VerifySucceeds(m) ==
  /\ verified' = [verified EXCEPT ![m] = now]
  /\ pays' = [pays EXCEPT ![m] = {}]
  /\ UNCHANGED <<over, now, pc, last, local, mem, file, faults, sent, done, lost>>

-----------------------------------------------------------------------------
(* The setter.                                                             *)

Saved == file' = mem' /\ UNCHANGED faults
SaveFailed == Fault /\ file' \in {file, EmptyStore}

\* set_weights_for_miners: a failed attempt starts again from the metagraph; after
\* the last one the round is given up and a later block starts another.
FailAttempt ==
  /\ IF attempt < MaxAttempts
       THEN pc' = "attempt" /\ attempt' = attempt + 1
       ELSE pc' = "idle" /\ attempt' = 0
  /\ paid' = {} /\ tries' = 0
  /\ UNCHANGED <<round, stamp>>

FirstBlock_Mutant == IF now < Interval THEN 0 ELSE now - Interval

\* get_last_weight_set_block without a stored block: half an interval ago.
FirstBlock == IF now < Interval \div 2 THEN 0 ELSE now - Interval \div 2

\* start: the stored block, or the first one, which is stored at once.  An error
\* ends the task; nothing starts it again.
Start ==
  /\ pc = "start"
  /\ \/ /\ mem.block # None
        /\ last' = mem.block /\ pc' = "idle"
        /\ UNCHANGED <<mem, file, faults>>
     \/ /\ mem.block = None
        /\ mem' = [mem EXCEPT !.block = FirstBlock]
        /\ \/ Saved /\ last' = FirstBlock /\ pc' = "idle"
           \/ SaveFailed /\ pc' = "dead" /\ UNCHANGED last
  /\ UNCHANGED <<over, now, verified, local, history>>

Due_Mutant == now > last + Interval

Due == now >= last + Interval

BeginRound ==
  /\ pc = "idle" /\ Due
  /\ round' = now /\ attempt' = 1 /\ pc' = "attempt"
  /\ UNCHANGED <<over, now, verified, last, paid, tries, stamp, mem, file, faults, history>>

\* get_miners_by_gpu_category_since_epoch: verified since the last round's
\* timestamp.
Eligible(m) ==
  /\ verified[m] # None
  /\ mem.stamp # None => verified[m] >= mem.stamp

\* attempt_weight_setting up to the distribution: the metagraph, the timestamp,
\* which only this task changes, and the profiles.  validate_allocation may refuse
\* the distribution when the shares are above one hundred percent, and only then
\* (AllocationExact); an error is an error of this attempt.
Allocate ==
  /\ pc = "attempt"
  /\ \/ /\ \E active \in SUBSET Miners : paid' = {m \in active : Eligible(m)}
        /\ pc' = "version"
        /\ UNCHANGED <<round, attempt, tries, stamp, faults>>
     \/ over /\ FailAttempt /\ UNCHANGED faults
     \/ Fault /\ FailAttempt
  /\ UNCHANGED <<over, now, verified, last, mem, file, history>>

NextVersion_Mutant == IF mem.version = None THEN 1 ELSE mem.version

\* get_version_key
NextVersion == IF mem.version = None THEN 1 ELSE mem.version + 1

BumpVersion ==
  /\ pc = "version"
  /\ mem' = [mem EXCEPT !.version = NextVersion]
  /\ \/ /\ Saved /\ tries' = 1 /\ pc' = "submit"
        /\ UNCHANGED <<round, paid, attempt, stamp>>
     \/ SaveFailed /\ FailAttempt
  /\ UNCHANGED <<over, now, verified, last, history>>

\* A submission reaches the chain's node: what it pays for.
Handed ==
  /\ sent' = mem.version
  /\ pays' = [m \in Miners |-> IF m \in paid THEN pays[m] \cup {round} ELSE pays[m]]

\* submit_weights_to_chain_with_retry: an error may hide a submission.
Submit ==
  /\ pc = "submit"
  /\ \/ /\ Handed /\ pc' = "persist" /\ paid' = {}
        /\ UNCHANGED <<round, attempt, tries, stamp, faults>>
     \/ /\ Fault /\ (Handed \/ UNCHANGED <<sent, pays>>)
        /\ \/ /\ tries < MaxTries /\ tries' = tries + 1
              /\ UNCHANGED <<pc, round, paid, attempt, stamp>>
           \/ tries = MaxTries /\ FailAttempt
  /\ UNCHANGED <<over, now, verified, last, mem, file, done, lost>>

\* Emission metrics, allocation history and metadata; the metadata is stored in
\* the key-value file.  An error repeats the whole attempt.
Persist ==
  /\ pc = "persist"
  /\ UNCHANGED mem
  /\ \/ Saved /\ pc' = "store" /\ UNCHANGED local
     \/ SaveFailed /\ FailAttempt
  /\ UNCHANGED <<over, now, verified, last, history>>

EndRound ==
  /\ last' = round /\ pc' = "idle"
  /\ round' = 0 /\ paid' = {} /\ attempt' = 0 /\ tries' = 0 /\ stamp' = 0

\* store_last_weight_set_block takes the time and stores the block; on an error
\* the timestamp is not stored and the round counts all the same.
StoreBlock ==
  /\ pc = "store"
  /\ mem' = [mem EXCEPT !.block = round]
  /\ \/ /\ Saved /\ pc' = "stamp" /\ stamp' = now /\ done' = round
        /\ UNCHANGED <<last, round, paid, attempt, tries>>
     \/ SaveFailed /\ EndRound /\ UNCHANGED done
  /\ UNCHANGED <<over, now, verified, sent, lost, pays>>

StampOf_Mutant == mem.stamp

StampOf == stamp

StoreStamp ==
  /\ pc = "stamp"
  /\ mem' = [mem EXCEPT !.stamp = StampOf]
  /\ Saved \/ SaveFailed
  /\ EndRound
  /\ UNCHANGED <<over, now, verified, history>>

-----------------------------------------------------------------------------

Tick == now < MaxNow /\ now' = now + 1
        /\ UNCHANGED <<over, verified, pc, last, local, mem, file, faults, history>>

\* Steps that end by writing the file.
Saving == {"start", "version", "persist", "store", "stamp"}

\* The process dies, in the middle of a save too, and starts again; the memory is
\* what the file holds.
Crash ==
  /\ Fault
  /\ pc' = "start" /\ last' = 0
  /\ file' \in IF pc \in Saving THEN {file, EmptyStore} ELSE {file}
  /\ mem' = file'
  /\ round' = 0 /\ paid' = {} /\ attempt' = 0 /\ tries' = 0 /\ stamp' = 0
  /\ lost' = (lost \/ (file' = EmptyStore /\ mem # EmptyStore))
  /\ UNCHANGED <<over, now, verified, sent, done, pays>>

SetterStep ==
  \/ Start \/ BeginRound \/ Allocate \/ BumpVersion \/ Submit
  \/ Persist \/ StoreBlock \/ StoreStamp

Next ==
  \/ \E m \in Miners : VerifySucceeds(m)
  \/ SetterStep
  \/ Tick
  \/ Crash

Spec == Init /\ [][Next]_vars

\* The setter's task is scheduled as long as it can go on.
FairSpec == Spec /\ WF_vars(SetterStep)

-----------------------------------------------------------------------------
(* Properties.                                                             *)

\* The version key of an attempt is larger than every key handed to the chain
\* before, over failed attempts and restarts too, unless a restart found the file
\* empty.
VersionsGrow ==
  [][pc = "version" /\ pc' = "submit" => mem'.version > sent \/ lost]_vars

\* A round never follows a completed one sooner than the interval, over restarts
\* too; when the file was lost, half an interval still lies between.
RoundsSpaced ==
  [][pc = "submit" /\ sent' # sent /\ done # None =>
       \/ round >= done + Interval
       \/ lost /\ round >= done + Interval - Interval \div 2]_vars

\* Unless the shares are above one hundred percent, what calculate_weight_distribution
\* computes for the miners of a round fits u16::MAX, so that validate_allocation does
\* not refuse it, and of the total only rounding and what the shares leave out are
\* lost: nothing of a category without enough miners, or of one whose miners all
\* score zero.  For any accepted shares no subtraction goes below zero.
AllocationExact == pc = "version" => paid \in Exact

\* A miner of the round that scores at least as much as another in every category
\* weighs at least as much, up to the units that rounding leaves to the last of a
\* category, unless the shares are above one hundred percent (then a cap may leave
\* more of it to the last).
FairUpToRounding == pc = "version" => paid \in Fair

\* One successful verification is paid by one of the rounds that begin after it,
\* and by one more per fault at most: a failed save of the block or the timestamp,
\* or a crash, is what pays it again.
PaidOnce ==
  \A m \in Miners :
    verified[m] # None => Cardinality({r \in pays[m] : r > verified[m]}) <= 1 + faults

\* A round that is due is carried through in the end, whatever fails on the way,
\* unless the task ended by an error at its start, or the shares are above one
\* hundred percent: then every attempt may be refused, and no round ever happens.
DueRoundsHappen ==
  (~over /\ pc # "dead" /\ now >= last + Interval) ~> (pc = "dead" \/ now < last + Interval)

=============================================================================
