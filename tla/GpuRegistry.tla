---------------------------- MODULE GpuRegistry ----------------------------
(***************************************************************************)
(* How the validator stores the results of verifications                   *)
(* (miner_prover/verification.rs): the executors that miners claim, their  *)
(* status, and which executor each GPU is assigned to; the scoring of      *)
(* miners counts the GPUs assigned to active executors.                    *)
(*                                                                         *)
(* Tasks store one result at a time, statement by statement; nothing locks *)
(* a row between two statements.  The clean-up runs beside them, and so    *)
(* does a second one, which is one transaction                             *)
(* (gpu_profile_repository.rs).  A database error ends the task or the     *)
(* clean-up; so does the death of the process, for all of them.            *)
(*                                                                         *)
(* A claim is what a miner says of an executor: its id and its address.    *)
(* Ages are left out: an offline row may be old or not, and so may an      *)
(* assignment, or an executor whose last health check was long ago; and so *)
(* may an executor's recent results all be failures.                       *)
(* Left out too are the rows of miners and their uids, the logs, the GPU   *)
(* profiles, and names and sizes of GPUs.                                  *)
(***************************************************************************)
EXTENDS Integers, FiniteSets

CONSTANTS
  Tasks,         \* verification tasks that store results
  Claims,        \* records [miner, exec, addr]
  Gpus,          \* GPU uuids
  MaxResults     \* bound: results that are stored

NoClaim == [miner |-> "none", exec |-> "none", addr |-> "none"]

ASSUME RegistryAssumption ==
  /\ IsFiniteSet(Claims) /\ IsFiniteSet(Gpus) /\ NoClaim \notin Claims
  /\ \A c, d \in Claims : c.miner = d.miner /\ c.exec = d.exec => c = d
  /\ MaxResults \in Nat

None == "none"
NoRow == [status |-> "none", count |-> 0]

Active == {"online", "verified"}
Statuses == Active \cup {"offline"}

VARIABLES
  rows,      \* miner_executors: claim -> its row, or NoRow
  owner,     \* gpu_uuid_assignments: GPU -> claim, or NoClaim
  task,      \* task -> its local state
  clean,     \* the clean-up's local state
  results,
  vouched    \* history: claim -> GPUs that a success vouches for

vars == <<rows, owner, task, clean, results, vouched>>

\* others: claims read before; item: the duplicate or the GPU a loop is at.
Idle == [pc |-> "idle", claim |-> NoClaim, full |-> FALSE, ok |-> FALSE, found |-> {},
         status |-> "none", others |-> {}, todo |-> {}, item |-> None, count |-> 0]

\* claims, active: what the clean-up's last query found.
CleanIdle == [pc |-> "idle", claims |-> {}, active |-> {}, item |-> None]

Exists(c) == rows[c] # NoRow
IsActive(c) == rows[c].status \in Active
Held(c) == {g \in Gpus : owner[g] = c}

\* cleanup_gpu_assignments
WithoutGpusOf(c) == [g \in Gpus |-> IF owner[g] = c THEN NoClaim ELSE owner[g]]

WithStatus(cs, s) ==
  [c \in Claims |-> IF c \in cs /\ Exists(c) THEN [rows[c] EXCEPT !.status = s] ELSE rows[c]]

\* The database that an earlier run left: executors that are online with GPUs.
Init ==
  /\ owner \in [Gpus -> Claims \cup {NoClaim}]
  /\ rows = [c \in Claims |->
               IF Held(c) = {} THEN NoRow
               ELSE [status |-> "online", count |-> Cardinality(Held(c))]]
  /\ task = [t \in Tasks |-> Idle]
  /\ clean = CleanIdle
  /\ results = 0
  /\ vouched = [c \in Claims |-> Held(c)]

At(t, label) == task[t].pc = label
Goto(t, local) == task' = [task EXCEPT ![t] = local]

\* A step of a task that only reads.
Reads == UNCHANGED <<rows, owner, clean, results, vouched>>

-----------------------------------------------------------------------------
(* store_executor_verification_result_with_miner_info.                     *)

\* A lightweight or full verification ended: its log is stored.
Begin(t, c, full, ok, found) ==
  /\ At(t, "idle") /\ results < MaxResults
  /\ results' = results + 1
  /\ vouched' = [vouched EXCEPT ![c] = @ \cup found]
  /\ Goto(t, [Idle EXCEPT !.pc = IF ok /\ ~full THEN "read" ELSE "status",
                          !.claim = c, !.full = full, !.ok = ok, !.found = found,
                          !.status = IF ok THEN "online" ELSE "offline"])
  /\ UNCHANGED <<rows, owner, clean>>

\* A lightweight success keeps the status that it reads here.
ReadStatus(t) ==
  /\ At(t, "read")
  /\ LET c == task[t].claim IN
     Goto(t, [task[t] EXCEPT !.pc = "status",
                             !.status = IF Exists(c) THEN rows[c].status ELSE "verified"])
  /\ Reads

\* Successful full verifications of c that are being stored.
InFlight(c) ==
  {t \in Tasks : task[t].claim = c /\ task[t].ok /\ task[t].full}

AfterFailure_Mutant(c) == owner

\* The assignments that a failure leaves.
AfterFailure(c) == WithoutGpusOf(c)

AfterStatus_Mutant(t) ==
  IF task[t].ok THEN [task[t] EXCEPT !.pc = "ensure", !.status = "none"] ELSE Idle

\* A failure, or a lightweight success, is done: the timestamps are left out.
AfterStatus(t) ==
  IF task[t].ok /\ task[t].full THEN [task[t] EXCEPT !.pc = "ensure", !.status = "none"] ELSE Idle

\* One transaction: the status of every row with the executor's id and, after a
\* failure, the assignments of this claim.
SetStatus(t) ==
  /\ At(t, "status")
  /\ LET c == task[t].claim IN
     /\ rows' = WithStatus({d \in Claims : d.exec = c.exec}, task[t].status)
     /\ IF task[t].ok
          THEN UNCHANGED <<owner, vouched>>
          ELSE /\ owner' = AfterFailure(c)
               /\ vouched' = [vouched EXCEPT ![c] = UNION {task[x].found : x \in InFlight(c)}]
  /\ Goto(t, AfterStatus(t))
  /\ UNCHANGED <<clean, results>>

-----------------------------------------------------------------------------
(* ensure_miner_executor_relationship.                                     *)

SameAddress(c) == {d \in Claims \ {c} : Exists(d) /\ d.addr = c.addr}

EnsureRelationship(t) ==
  /\ At(t, "ensure")
  /\ Goto(t, [task[t] EXCEPT !.pc = IF Exists(task[t].claim) THEN "duplicates" ELSE "address"])
  /\ Reads

\* No row: an address of another miner is refused.
CheckAddress(t) ==
  /\ At(t, "address")
  /\ LET c == task[t].claim IN
     Goto(t, IF \E d \in SameAddress(c) : d.miner # c.miner THEN Idle
             ELSE [task[t] EXCEPT !.pc = "old"])
  /\ Reads

\* Does this miner have the address under another executor id?  The query does not
\* leave out this id, which another task may have inserted since.
FindOldId(t) ==
  /\ At(t, "old")
  /\ LET c == task[t].claim
         old == {d \in Claims : Exists(d) /\ d.addr = c.addr /\ d.miner = c.miner}
     IN  \/ old = {} /\ Goto(t, [task[t] EXCEPT !.pc = "insert"])
         \/ \E d \in old : Goto(t, [task[t] EXCEPT !.pc = "rename", !.others = {d}])
  /\ Reads

\* One transaction: the GPUs go to the new id, the old row is deleted.
Rename(t) ==
  /\ At(t, "rename")
  /\ \E d \in task[t].others :
       LET c == task[t].claim IN
       /\ owner' = [g \in Gpus |-> IF owner[g] = d THEN c ELSE owner[g]]
       /\ rows' = [rows EXCEPT ![d] = NoRow]
       /\ vouched' = [vouched EXCEPT ![c] = @ \cup vouched[d]]
  /\ Goto(t, [task[t] EXCEPT !.pc = "insert", !.others = {}])
  /\ UNCHANGED <<clean, results>>

\* INSERT OR IGNORE
InsertRow(t) ==
  /\ At(t, "insert")
  /\ LET c == task[t].claim IN
     rows' = IF Exists(c) THEN rows ELSE [rows EXCEPT ![c] = [status |-> "online", count |-> 0]]
  /\ Goto(t, [task[t] EXCEPT !.pc = "purge"])
  /\ UNCHANGED <<owner, clean, results, vouched>>

FindDuplicates(t) ==
  /\ At(t, "duplicates")
  /\ LET dups == SameAddress(task[t].claim) IN
     Goto(t, [task[t] EXCEPT !.pc = IF dups = {} THEN "purge" ELSE "offline", !.others = dups])
  /\ Reads

\* A duplicate goes offline.
DuplicateOffline(t) ==
  /\ At(t, "offline")
  /\ \E d \in task[t].others :
       /\ rows' = WithStatus({d}, "offline")
       /\ Goto(t, [task[t] EXCEPT !.pc = "forget", !.item = d])
  /\ UNCHANGED <<owner, clean, results, vouched>>

\* Its GPUs are looked up with the miner of this claim, not of the duplicate.
ForgetDuplicate(t) ==
  /\ At(t, "forget")
  /\ LET d == task[t].item
         rest == task[t].others \ {d}
     IN  /\ owner' = [g \in Gpus |->
                        IF owner[g].miner = task[t].claim.miner /\ owner[g].exec = d.exec
                        THEN NoClaim ELSE owner[g]]
         /\ Goto(t, [task[t] EXCEPT !.pc = IF rest = {} THEN "purge" ELSE "offline",
                                    !.others = rest, !.item = None])
  /\ UNCHANGED <<rows, clean, results, vouched>>

-----------------------------------------------------------------------------
(* store_gpu_uuid_assignments.                                             *)

\* Assignments of GPUs that were not reported are deleted.
Purge(t) ==
  /\ At(t, "purge")
  /\ LET c == task[t].claim IN
     owner' = [g \in Gpus |->
                 IF owner[g] = c /\ g \notin task[t].found THEN NoClaim ELSE owner[g]]
  /\ Goto(t, [task[t] EXCEPT !.pc = "gpu", !.todo = task[t].found])
  /\ UNCHANGED <<rows, clean, results, vouched>>

\* The next GPU, and who has it; when it is this claim only its timestamp changes.
NextGpu(t) ==
  /\ At(t, "gpu")
  /\ \E g \in task[t].todo :
       LET c == task[t].claim
           next == [task[t] EXCEPT !.todo = @ \ {g}, !.item = g]
       IN  Goto(t, CASE owner[g] = NoClaim -> [next EXCEPT !.pc = "new"]
                     [] owner[g] = c -> [next EXCEPT !.item = None]
                     [] OTHER -> [next EXCEPT !.pc = "other", !.others = {owner[g]}])
  /\ Reads

\* INSERT fails, and the task with it, when the GPU got a row since.
InsertGpu(t) ==
  /\ At(t, "new")
  /\ LET g == task[t].item IN
     \/ /\ owner[g] = NoClaim
        /\ owner' = [owner EXCEPT ![g] = task[t].claim]
        /\ Goto(t, [task[t] EXCEPT !.pc = "gpu", !.item = None])
     \/ /\ owner[g] # NoClaim
        /\ Goto(t, Idle) /\ UNCHANGED owner
  /\ UNCHANGED <<rows, clean, results, vouched>>

\* An executor that is gone or not active gives the GPU away.
CheckOther(t) ==
  /\ At(t, "other")
  /\ \E d \in task[t].others :
       Goto(t, IF IsActive(d) THEN [task[t] EXCEPT !.pc = "gpu", !.others = {}, !.item = None]
               ELSE [task[t] EXCEPT !.pc = "take", !.others = {}])
  /\ Reads

\* UPDATE by uuid: whoever has the GPU now loses it; without a row nothing happens.
TakeGpu(t) ==
  /\ At(t, "take")
  /\ LET g == task[t].item IN
     owner' = [owner EXCEPT ![g] = IF @ = NoClaim THEN @ ELSE task[t].claim]
  /\ Goto(t, [task[t] EXCEPT !.pc = "gpu", !.item = None])
  /\ UNCHANGED <<rows, clean, results, vouched>>

CountGpus(t) ==
  /\ At(t, "gpu") /\ task[t].todo = {}
  /\ Goto(t, [task[t] EXCEPT !.pc = "current", !.count = Cardinality(Held(task[t].claim))])
  /\ Reads

\* fetch_one: an error when the row was deleted.
ReadCurrent(t) ==
  /\ At(t, "current")
  /\ LET c == task[t].claim IN
     Goto(t, IF Exists(c) THEN [task[t] EXCEPT !.pc = "final", !.status = rows[c].status] ELSE Idle)
  /\ Reads

NewStatus(status, hasGpus) ==
  IF ~hasGpus THEN "offline" ELSE IF status \in Active THEN "online" ELSE "verified"

\* A result that reported GPUs and got none of them is an error.
WriteRow(t) ==
  /\ At(t, "final")
  /\ LET c == task[t].claim
         n == task[t].count
     IN  /\ rows' = IF ~Exists(c) THEN rows
                    ELSE [rows EXCEPT ![c] = [status |-> NewStatus(task[t].status, n > 0), count |-> n]]
  /\ Goto(t, Idle)
  /\ UNCHANGED <<owner, clean, results, vouched>>

TaskFails(t) ==
  /\ ~At(t, "idle")
  /\ Goto(t, Idle)
  /\ Reads

-----------------------------------------------------------------------------
(* cleanup_failed_executors_after_failures.                                *)

CleanAt(label) == clean.pc = label
Offline == {c \in Claims : rows[c].status = "offline"}

\* The next query of the clean-up, or its loop over what the last one found.
Loop(found, label, next) == IF found = {} THEN next ELSE label

\* Step 1
FindOffline ==
  /\ CleanAt("idle")
  /\ LET found == {c \in Offline : Held(c) # {}} IN
     clean' = [CleanIdle EXCEPT !.pc = Loop(found, "forget", "mismatch"), !.claims = found]
  /\ UNCHANGED <<rows, owner, task, results, vouched>>

ForgetOffline ==
  /\ CleanAt("forget")
  /\ \E c \in clean.claims :
       /\ owner' = WithoutGpusOf(c)
       /\ clean' = [clean EXCEPT !.pc = Loop(clean.claims \ {c}, @, "mismatch"), !.claims = @ \ {c}]
  /\ UNCHANGED <<rows, task, results, vouched>>

Mismatched_Mutant == {c \in Claims : rows[c].count > 0 /\ Held(c) = {} /\ ~IsActive(c)}

\* Step 1b: executors that claim GPUs and have none.
Mismatched == {c \in Claims : rows[c].count > 0 /\ Held(c) = {}}

FindMismatched ==
  /\ CleanAt("mismatch")
  /\ clean' = [clean EXCEPT !.pc = Loop(Mismatched, "reset", "stale"), !.claims = Mismatched,
                            !.active = {c \in Mismatched : IsActive(c)}]
  /\ UNCHANGED <<rows, owner, task, results, vouched>>

ResetCount ==
  /\ CleanAt("reset")
  /\ \E c \in clean.claims :
       /\ rows' = IF Exists(c) THEN [rows EXCEPT ![c].count = 0] ELSE rows
       /\ clean' = IF c \in clean.active THEN [clean EXCEPT !.pc = "mark", !.claims = @ \ {c}, !.item = c]
                   ELSE [clean EXCEPT !.pc = Loop(clean.claims \ {c}, @, "stale"), !.claims = @ \ {c}]
  /\ UNCHANGED <<owner, task, results, vouched>>

MarkOffline ==
  /\ CleanAt("mark")
  /\ rows' = WithStatus({clean.item}, "offline")
  /\ clean' = [clean EXCEPT !.pc = Loop(clean.claims, "reset", "stale"),
                            !.active = @ \ {clean.item}, !.item = None]
  /\ UNCHANGED <<owner, task, results, vouched>>

\* Step 1c: assignments that were not verified for long, or of executors that were
\* offline for long, in any combination.
DeleteStale ==
  /\ CleanAt("stale")
  /\ \E old \in SUBSET Gpus :
       owner' = [g \in Gpus |-> IF g \in old THEN NoClaim ELSE owner[g]]
  /\ clean' = [clean EXCEPT !.pc = "long"]
  /\ UNCHANGED <<rows, task, results, vouched>>

\* Step 1d: executors that were offline for a configured time and have GPUs.
FindLongOffline ==
  /\ CleanAt("long")
  /\ \E found \in SUBSET {c \in Offline : Held(c) # {}} :
       clean' = [clean EXCEPT !.pc = Loop(found, "release", "failed"), !.claims = found]
  /\ UNCHANGED <<rows, owner, task, results, vouched>>

ForgetLongOffline ==
  /\ CleanAt("release")
  /\ \E c \in clean.claims :
       /\ owner' = WithoutGpusOf(c)
       /\ clean' = [clean EXCEPT !.pc = Loop(clean.claims \ {c}, @, "failed"), !.claims = @ \ {c}]
  /\ UNCHANGED <<rows, task, results, vouched>>

\* Step 2: of the offline executors those whose recent results are all failures.
FindFailed ==
  /\ CleanAt("failed")
  /\ \E failed \in SUBSET Offline :
       clean' = [clean EXCEPT !.pc = Loop(failed, "delete", "rows"), !.claims = failed]
  /\ UNCHANGED <<rows, owner, task, results, vouched>>

\* One transaction for each, whatever happened to it since.
DeleteFailed ==
  /\ CleanAt("delete")
  /\ \E c \in clean.claims :
       /\ owner' = WithoutGpusOf(c)
       /\ rows' = [rows EXCEPT ![c] = NoRow]
       /\ clean' = [clean EXCEPT !.pc = Loop(clean.claims \ {c}, @, "rows"), !.claims = @ \ {c}]
  /\ UNCHANGED <<task, results, vouched>>

\* Step 3: rows long offline; their assignments stay.
DeleteLongOffline ==
  /\ CleanAt("rows")
  /\ \E old \in SUBSET Offline :
       rows' = [c \in Claims |-> IF c \in old THEN NoRow ELSE rows[c]]
  /\ clean' = CleanIdle
  /\ UNCHANGED <<owner, task, results, vouched>>

\* An error before the last statement; a failing last statement ends the pass as
\* one that deletes nothing.
CleanFails ==
  /\ clean.pc \notin {"idle", "rows"}
  /\ clean' = CleanIdle
  /\ UNCHANGED <<rows, owner, task, results, vouched>>

CleanStep ==
  \/ FindOffline \/ ForgetOffline
  \/ FindMismatched \/ ResetCount \/ MarkOffline
  \/ DeleteStale \/ FindLongOffline \/ ForgetLongOffline
  \/ FindFailed \/ DeleteFailed \/ DeleteLongOffline

-----------------------------------------------------------------------------
(* cleanup_stale_executors, one transaction.                               *)

\* Active executors whose last health check was long ago lose their GPUs and go
\* offline; their count stays.
CleanupStaleExecutors ==
  /\ \E stale \in SUBSET {c \in Claims : IsActive(c)} :
       /\ stale # {}
       /\ owner' = [g \in Gpus |-> IF owner[g] \in stale THEN NoClaim ELSE owner[g]]
       /\ rows' = WithStatus(stale, "offline")
  /\ UNCHANGED <<task, clean, results, vouched>>

-----------------------------------------------------------------------------

TaskStep(t) ==
  \/ \E c \in Claims : Begin(t, c, FALSE, FALSE, {})
  \/ \E c \in Claims : Begin(t, c, FALSE, TRUE, {})
  \/ \E c \in Claims, found \in SUBSET Gpus : Begin(t, c, TRUE, TRUE, found)
  \/ ReadStatus(t) \/ SetStatus(t)
  \/ EnsureRelationship(t) \/ CheckAddress(t) \/ FindOldId(t) \/ Rename(t) \/ InsertRow(t)
  \/ FindDuplicates(t) \/ DuplicateOffline(t) \/ ForgetDuplicate(t)
  \/ Purge(t) \/ NextGpu(t) \/ InsertGpu(t) \/ CheckOther(t) \/ TakeGpu(t)
  \/ CountGpus(t) \/ ReadCurrent(t) \/ WriteRow(t)

Next ==
  \/ \E t \in Tasks : TaskStep(t) \/ TaskFails(t)
  \/ CleanStep
  \/ CleanFails
  \/ CleanupStaleExecutors

Spec == Init /\ [][Next]_vars

\* The clean-up loop runs every 15 minutes, and does not fail for ever.
FairSpec == Spec /\ WF_vars(CleanStep) /\ <>[][~CleanFails]_vars

-----------------------------------------------------------------------------
(* Properties.                                                             *)

\* Rows, assignments and the local state of the tasks; only a full success gets to
\* the rows of executors and GPUs.
TypeOK ==
  /\ rows \in [Claims -> {NoRow} \cup [status: Statuses, count: 0 .. Cardinality(Gpus)]]
  /\ owner \in [Gpus -> Claims \cup {NoClaim}]
  /\ \A t \in Tasks :
       /\ task[t].claim \in Claims \cup {NoClaim}
       /\ task[t].pc \in {"idle", "read", "status"} \/ (task[t].full /\ task[t].ok)
       /\ task[t].todo \subseteq task[t].found /\ task[t].found \subseteq Gpus
       /\ task[t].others \subseteq Claims
  /\ clean.claims \subseteq Claims
  /\ results \in 0 .. MaxResults

\* A GPU is assigned to an executor, and so counts for its miner, only when a
\* successful full verification reported it, for that executor or the one it
\* renamed, that is not older than the executor's last failure: it was stored after
\* the failure or was being stored at the time.
AssignmentIsVouched ==
  \A g \in Gpus : owner[g] # NoClaim => g \in vouched[owner[g]]

\* An executor that claims GPUs and has none, or is offline and keeps GPUs from others.
Unsettled(c) ==
  \/ rows[c].count > 0 /\ Held(c) = {}
  \/ rows[c].status = "offline" /\ Held(c) # {}

\* Tasks and the two clean-ups overwrite one another's rows and may leave an executor
\* unsettled; that never lasts, whatever the tasks do.
RowsSettle == \A c \in Claims : Unsettled(c) ~> ~Unsettled(c)

=============================================================================
