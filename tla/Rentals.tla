------------------------------ MODULE Rentals ------------------------------
(***************************************************************************)
(* The rentals of a validator: RentalManager (rental/mod.rs), the          *)
(* DeploymentManager and ContainerClient that act on the executor over     *)
(* SSH, and the DatabaseHealthMonitor (rental/monitoring.rs).              *)
(*                                                                         *)
(* An action is a handler's or the monitor's work between two awaits: one  *)
(* command on the executor, one call to the miner or one SQL statement.    *)
(* Handlers interleave with one another and with the monitor's loop.  A    *)
(* command or call may fail before or after it took effect, a handler may  *)
(* be dropped with its connection and the process may die; MaxFaults       *)
(* bounds these.  A check of a container may always report an error.       *)
(*                                                                         *)
(* Left out: metrics, the log streamer, status queries (read only) and the *)
(* executor a rental runs on, which no step compares with another.         *)
(***************************************************************************)
EXTENDS Naturals, FiniteSets

CONSTANTS
  Workers,     \* API handlers that may run at the same time
  MaxRentals,  \* bound: calls of start_rental
  MaxFaults    \* bound: failed commands, calls and statements, dropped handlers, crashes

ASSUME RentalsAssumption == MaxRentals \in Nat /\ MaxFaults \in Nat

VARIABLES
  rows,        \* table rentals: id -> state, or "none"
  containers,  \* container of the rental on its executor
  sessions,    \* rentals with an SSH session at the miner
  started,     \* start_rental calls so far; the last one's id
  pc, rental,  \* handler -> its next await, and the rental it works on
  todo,        \* rows the monitor has queried and not dealt with
  verdict,     \* the row it is about to save, or NoVerdict
  stopped,     \* history: rentals whose stop_rental succeeded
  unclosed,    \* history: rentals whose session could not be closed
  faults

executor == <<containers, sessions>>
monitor == <<todo, verdict>>
history == <<stopped, unclosed>>
vars == <<rows, executor, started, pc, rental, monitor, history, faults>>

Ids == 1 .. MaxRentals
RentalStates == {"Provisioning", "Active", "Stopping", "Stopped", "Failed"}
Terminal == {"Stopped", "Failed"}
Copy == [id: Ids, state: RentalStates]
NoVerdict == [id |-> 0]

Labels ==
  {"idle", "initiate", "deploy", "cleanup", "details", "save", "load",
   "stop", "kill", "remove", "close", "save_stopped"}

Init ==
  /\ rows = [r \in Ids |-> "none"]
  /\ containers = [r \in Ids |-> "none"]
  /\ sessions = {}
  /\ started = 0
  /\ pc = [w \in Workers |-> "idle"]
  /\ rental = [w \in Workers |-> 0]
  /\ todo = {}
  /\ verdict = NoVerdict
  /\ stopped = {}
  /\ unclosed = {}
  /\ faults = 0

Goto(w, l) == pc' = [pc EXCEPT ![w] = l] /\ UNCHANGED rental

Finish(w) ==
  /\ pc' = [pc EXCEPT ![w] = "idle"]
  /\ rental' = [rental EXCEPT ![w] = 0]

Fault == faults < MaxFaults /\ faults' = faults + 1

-----------------------------------------------------------------------------
(* start_rental.                                                           *)

\* A fresh rental id.
StartRental(w) ==
  /\ pc[w] = "idle"
  /\ started < MaxRentals
  /\ started' = started + 1
  /\ rental' = [rental EXCEPT ![w] = started + 1]
  /\ pc' = [pc EXCEPT ![w] = "initiate"]
  /\ UNCHANGED <<rows, executor, monitor, history, faults>>

\* What the miner's sessions are once one is opened for r.
Opened(r) == sessions \cup {r}

\* The miner opens a session; an error ends the call, whether or not it was opened.
Initiate(w) ==
  /\ pc[w] = "initiate"
  /\ \/ sessions' = Opened(rental[w]) /\ Goto(w, "deploy") /\ UNCHANGED faults
     \/ sessions' \in {sessions, Opened(rental[w])} /\ Finish(w) /\ Fault
  /\ UNCHANGED <<rows, containers, started, monitor, history>>

\* What docker run leaves.
Running(r) == [containers EXCEPT ![r] = "running"]

\* docker run and docker inspect; the inspection may fail after the container is up.
Deploy(w) ==
  /\ pc[w] = "deploy"
  /\ \/ containers' = Running(rental[w]) /\ Goto(w, "details") /\ UNCHANGED faults
     \/ containers' \in {containers, Running(rental[w])} /\ Goto(w, "cleanup") /\ Fault
  /\ UNCHANGED <<rows, sessions, started, monitor, history>>

\* What the miner's sessions are once that of r has ended.
Closed(r) == sessions \ {r}

\* What closing the session does; an error is logged and no more.
CloseSession(r) ==
  \/ sessions' = Closed(r) /\ UNCHANGED <<unclosed, faults>>
  \/ sessions' \in {sessions, Closed(r)} /\ unclosed' = unclosed \cup {r} /\ Fault

\* The deployment failed: the session is closed and the error returned.
Cleanup(w) ==
  /\ pc[w] = "cleanup"
  /\ CloseSession(rental[w])
  /\ Finish(w)
  /\ UNCHANGED <<rows, containers, started, monitor, stopped>>

\* The executor's details are read; an error ends the call.
Details(w) ==
  /\ pc[w] = "details"
  /\ (Goto(w, "save") /\ UNCHANGED faults) \/ (Finish(w) /\ Fault)
  /\ UNCHANGED <<rows, executor, started, monitor, history>>

\* The rental becomes known, last of all.
Save(w) ==
  /\ pc[w] = "save"
  /\ \/ rows' = [rows EXCEPT ![rental[w]] = "Active"] /\ UNCHANGED faults
     \/ UNCHANGED rows /\ Fault
  /\ Finish(w)
  /\ UNCHANGED <<executor, started, monitor, history>>

-----------------------------------------------------------------------------
(* stop_rental.                                                            *)

StopRental(w, r) ==
  /\ pc[w] = "idle"
  /\ rental' = [rental EXCEPT ![w] = r]
  /\ pc' = [pc EXCEPT ![w] = "load"]
  /\ UNCHANGED <<rows, executor, started, monitor, history, faults>>

\* load_rental finds the row, in whatever state, or the call ends.
Load(w) ==
  /\ pc[w] = "load"
  /\ \/ rows[rental[w]] # "none" /\ Goto(w, "stop") /\ UNCHANGED faults
     \/ rows[rental[w]] = "none" /\ Finish(w) /\ UNCHANGED faults
     \/ Finish(w) /\ Fault
  /\ UNCHANGED <<rows, executor, started, monitor, history>>

Exited(r) == [containers EXCEPT ![r] = "exited"]

StopGraceful_Mutant(w) ==
  LET r == rental[w]
  IN /\ pc[w] = "stop"
     /\ \/ containers[r] \in {"running", "exited"} /\ containers' = Exited(r) /\ UNCHANGED faults
        \/ containers[r] \notin {"running", "exited"} /\ UNCHANGED <<containers, faults>>
        \/ UNCHANGED containers /\ Fault
     /\ Goto(w, "close")
     /\ UNCHANGED <<rows, sessions, started, monitor, history>>

\* docker stop, which an exited container accepts; a failure is followed by a kill.
StopGraceful(w) ==
  LET r == rental[w]
  IN /\ pc[w] = "stop"
     /\ \/ /\ containers[r] \in {"running", "exited"}
           /\ containers' = Exited(r)
           /\ Goto(w, "close")
           /\ UNCHANGED faults
        \/ /\ containers[r] \notin {"running", "exited"}
           /\ Goto(w, "kill")
           /\ UNCHANGED <<containers, faults>>
        \/ /\ containers' \in {containers} \cup (IF containers[r] = "running" THEN {Exited(r)} ELSE {})
           /\ Goto(w, "kill")
           /\ Fault
     /\ UNCHANGED <<rows, sessions, started, monitor, history>>

\* docker kill, which fails unless the container runs; a failure ends the call.
StopKill(w) ==
  LET r == rental[w]
  IN /\ pc[w] = "kill"
     /\ \/ containers[r] = "running" /\ containers' = Exited(r) /\ Goto(w, "remove") /\ UNCHANGED faults
        \/ containers[r] # "running" /\ Finish(w) /\ UNCHANGED <<containers, faults>>
        \/ /\ containers' \in {containers} \cup (IF containers[r] = "running" THEN {Exited(r)} ELSE {})
           /\ Finish(w)
           /\ Fault
     /\ UNCHANGED <<rows, sessions, started, monitor, history>>

\* docker rm -f; a failure ends the call.
Remove(w) ==
  LET removed == [containers EXCEPT ![rental[w]] = "removed"]
  IN /\ pc[w] = "remove"
     /\ \/ containers' = removed /\ Goto(w, "close") /\ UNCHANGED faults
        \/ containers' \in {containers, removed} /\ Finish(w) /\ Fault
     /\ UNCHANGED <<rows, sessions, started, monitor, history>>

\* The session is closed through a new connection to the miner.
Close(w) ==
  /\ pc[w] = "close"
  /\ CloseSession(rental[w])
  /\ Goto(w, "save_stopped")
  /\ UNCHANGED <<rows, containers, started, monitor, stopped>>

\* The copy of the row read by Load is saved as Stopped.
SaveStopped(w) ==
  /\ pc[w] = "save_stopped"
  /\ \/ /\ rows' = [rows EXCEPT ![rental[w]] = "Stopped"]
        /\ stopped' = stopped \cup {rental[w]}
        /\ UNCHANGED faults
     \/ UNCHANGED <<rows, stopped>> /\ Fault
  /\ Finish(w)
  /\ UNCHANGED <<executor, started, monitor, unclosed>>

\* The caller goes away and its handler is dropped at an await.  A command already on
\* its way still takes effect: that is the command's step, then this one.
Dropped(w) ==
  /\ pc[w] # "idle"
  /\ Finish(w)
  /\ Fault
  /\ UNCHANGED <<rows, executor, started, monitor, history>>

-----------------------------------------------------------------------------
(* The health monitor.                                                     *)

NonTerminated_Mutant == {r \in Ids : rows[r] # "none"}

NonTerminated == {r \in Ids : rows[r] # "none" /\ rows[r] \notin Terminal}

\* The interval ticks: all rows that have not ended are read at once.
MonitorTick ==
  /\ todo = {}
  /\ verdict = NoVerdict
  /\ NonTerminated # {}
  /\ \/ todo' = {[id |-> r, state |-> rows[r]] : r \in NonTerminated} /\ UNCHANGED faults
     \/ UNCHANGED todo /\ Fault
  /\ UNCHANGED <<rows, executor, started, pc, rental, verdict, history>>

\* What docker inspect says of the state: a container that is gone is an error.
Inspected(r) == {containers[r]} \cap {"running", "exited"}

\* What a check can find: only a running container is ever healthy, and it may
\* have a health check of its own that says otherwise.
Results(r) ==
  {"timeout", "error"}
    \cup {"unhealthy" : s \in Inspected(r)}
    \cup {"healthy" : s \in Inspected(r) \cap {"running"}}

NewState_Mutant(state, result) ==
  IF result = "timeout" THEN {"Failed"}
  ELSE IF result = "healthy" THEN {state}
  ELSE {"Stopped"}

NewState_Lenient(state, result) ==
  IF result = "timeout" THEN {"Failed"}
  ELSE IF result = "unhealthy" THEN {"Stopped"}
  ELSE {}

\* The state to save, if any, from the row as it was read.
NewState(state, result) ==
  IF result = "timeout" THEN {"Failed"}
  ELSE IF result = "healthy" THEN {}
  ELSE CASE state = "Provisioning" -> {"Failed"}
         [] state \in {"Active", "Stopping"} -> {"Stopped"}
         [] OTHER -> {}

\* The rows read are checked one by one, in the order of created_at, which is left out:
\* in any order.  A row may have changed since it was read.
Check(c) ==
  /\ c \in todo
  /\ verdict = NoVerdict
  /\ todo' = todo \ {c}
  /\ \E result \in Results(c.id) :
       \/ NewState(c.state, result) = {} /\ UNCHANGED verdict
       \/ \E s \in NewState(c.state, result) : verdict' = [id |-> c.id, state |-> s]
  /\ UNCHANGED <<rows, executor, started, pc, rental, history, faults>>

\* The whole row is saved with its new state, whatever it is by now.
SaveVerdict ==
  /\ verdict # NoVerdict
  /\ \/ rows' = [rows EXCEPT ![verdict.id] = verdict.state] /\ UNCHANGED faults
     \/ UNCHANGED rows /\ Fault
  /\ verdict' = NoVerdict
  /\ UNCHANGED <<executor, started, pc, rental, todo, history>>

-----------------------------------------------------------------------------
(* The surroundings.                                                       *)

\* A container ends on its own.
Exit(r) ==
  /\ containers[r] = "running"
  /\ containers' = Exited(r)
  /\ UNCHANGED <<rows, sessions, started, pc, rental, monitor, history, faults>>

\* The miner's timer ends a session after rental_session_duration.
Expire(r) ==
  /\ r \in sessions
  /\ sessions' = Closed(r)
  /\ UNCHANGED <<rows, containers, started, pc, rental, monitor, history, faults>>

\* The process dies and starts again: only the table is left.
Crash ==
  /\ Fault
  /\ pc' = [w \in Workers |-> "idle"]
  /\ rental' = [w \in Workers |-> 0]
  /\ todo' = {}
  /\ verdict' = NoVerdict
  /\ UNCHANGED <<rows, executor, started, history>>

Handler(w) ==
  \/ StartRental(w) \/ Initiate(w) \/ Deploy(w) \/ Cleanup(w) \/ Details(w) \/ Save(w)
  \/ \E r \in Ids : StopRental(w, r)
  \/ Load(w) \/ StopGraceful(w) \/ StopKill(w) \/ Remove(w) \/ Close(w) \/ SaveStopped(w)
  \/ Dropped(w)

Monitor == MonitorTick \/ (\E c \in Copy : Check(c)) \/ SaveVerdict

Next ==
  \/ \E w \in Workers : Handler(w)
  \/ Monitor
  \/ \E r \in Ids : Exit(r) \/ Expire(r)
  \/ Crash

Spec == Init /\ [][Next]_vars

\* The loop ticks every 30 seconds and a check ends by its timeout of 10 seconds.
\* Nothing is assumed of the handlers.
FairSpec == Spec /\ WF_vars(Monitor)

-----------------------------------------------------------------------------
(* Properties.                                                             *)

\* A row exists only for a container that was started, and the monitor only holds
\* copies of rows that had not ended when they were read.
TypeOK ==
  /\ rows \in [Ids -> RentalStates \cup {"none"}]
  /\ containers \in [Ids -> {"none", "running", "exited", "removed"}]
  /\ \A r \in Ids : rows[r] # "none" => containers[r] # "none"
  /\ sessions \subseteq Ids
  /\ started \in 0 .. MaxRentals
  /\ pc \in [Workers -> Labels]
  /\ rental \in [Workers -> 0 .. MaxRentals]
  /\ todo \subseteq [id: Ids, state: RentalStates \ Terminal]
  /\ verdict \in [id: Ids, state: RentalStates] \cup {NoVerdict}
  /\ stopped \subseteq Ids
  /\ unclosed \subseteq Ids
  /\ faults \in 0 .. MaxFaults

\* A rental that has ended never comes back: the monitor and stop_rental save whole
\* rows they read before a command on the executor, and none of these late writes
\* makes a Stopped or Failed rental live again.
EndedForGood ==
  [][\A r \in Ids : rows[r] \in Terminal => rows'[r] \in Terminal]_vars

\* A stop_rental that answered with success is effective, whatever the monitor and
\* other stops did meanwhile: no container is left running and no session is open
\* that the miner did not fail to close.
StopIsEffective ==
  \A r \in stopped : containers[r] # "running" /\ (r \in sessions => r \in unclosed)

\* A rental whose container no longer runs is found out: its row ends, by whichever
\* way the container ended and whatever call, statement or process failed.
DeadRentalsEnd ==
  \A r \in Ids :
    rows[r] = "Active" /\ containers[r] # "running" ~> rows[r] \in Terminal

=============================================================================
