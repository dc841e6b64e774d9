-------------------------- MODULE Rentals_proofs ---------------------------
(***************************************************************************)
(* The rentals of a validator, proved for any number of handlers, rentals  *)
(* and faults.                                                             *)
(***************************************************************************)
EXTENDS Rentals, TLAPS

StartLabels == {"initiate", "deploy", "cleanup", "details", "save"}
StopLabels == {"stop", "kill", "remove", "close", "save_stopped"}

\* What a handler may rely on at the await it has reached: a start works on an id no
\* row has yet, a stop on one that has a row.
WorkerOK(w) ==
  /\ pc[w] # "idle" => rental[w] \in Ids
  /\ pc[w] \in StartLabels => rental[w] <= started /\ rows[rental[w]] = "none"
  /\ pc[w] \in {"details", "save"} => containers[rental[w]] # "none"
  /\ pc[w] \in StopLabels => rows[rental[w]] # "none"
  /\ pc[w] \in {"remove", "close", "save_stopped"} => containers[rental[w]] # "running"
  /\ pc[w] = "save_stopped" => (rental[w] \in sessions => rental[w] \in unclosed)

\* No two handlers start the same rental.
OneStarter ==
  \A v, w \in Workers :
    pc[v] \in StartLabels /\ pc[w] \in StartLabels /\ rental[v] = rental[w] => v = w

\* Rows are only there for ids that were handed out.
FreshRows == \A r \in Ids : r > started => rows[r] = "none"

\* The monitor's copies are of rows that exist, and it only ever saves an end state.
MonitorOK ==
  /\ \A c \in todo : rows[c.id] # "none"
  /\ verdict # NoVerdict => verdict \in Copy /\ rows[verdict.id] # "none" /\ verdict.state \in Terminal

StoppedKnown == \A r \in stopped : rows[r] # "none"

\* The inductive invariant.
IInv ==
  /\ TypeOK
  /\ \A w \in Workers : WorkerOK(w)
  /\ OneStarter
  /\ FreshRows
  /\ MonitorOK
  /\ StoppedKnown
  /\ StopIsEffective

\* A handler that moves on or ends keeps the types of its own state.
LEMMA MoveTypes ==
  ASSUME TypeOK, NEW w \in Workers, NEW l \in Labels, Goto(w, l) \/ Finish(w)
  PROVE  pc' \in [Workers -> Labels] /\ rental' \in [Workers -> 0 .. MaxRentals]
<1>1. CASE Goto(w, l) BY <1>1 DEF TypeOK, Goto
<1>2. CASE Finish(w) BY <1>2, RentalsAssumption DEF TypeOK, Finish, Labels
<1> QED BY <1>1, <1>2

\* start_rental takes an id no other handler has.
LEMMA StartStep == ASSUME IInv, NEW w \in Workers, StartRental(w) PROVE IInv'
<1> USE DEF IInv, StartRental, StartLabels, StopLabels, Labels, Goto, Finish, Fault, executor, monitor, history
<1>1. TypeOK'
  <2>1. pc' \in [Workers -> Labels] /\ rental' \in [Workers -> 0 .. MaxRentals]
    BY RentalsAssumption DEF TypeOK, Ids
  <2>2. /\ rows' \in [Ids -> RentalStates \cup {"none"}]
        /\ containers' \in [Ids -> {"none", "running", "exited", "removed"}]
        /\ \A r \in Ids : rows'[r] # "none" => containers'[r] # "none"
    BY RentalsAssumption DEF TypeOK, WorkerOK, RentalStates
  <2>3. /\ sessions' \subseteq Ids /\ stopped' \subseteq Ids /\ unclosed' \subseteq Ids
        /\ started' \in 0 .. MaxRentals /\ faults' \in 0 .. MaxFaults
    BY RentalsAssumption DEF TypeOK, WorkerOK
  <2>4. UNCHANGED monitor
    OBVIOUS
  <2> HIDE DEF StartRental, Goto, Finish, Fault, executor, history
  <2> QED BY <2>1, <2>2, <2>3, <2>4 DEF TypeOK
<1>2. ASSUME NEW v \in Workers PROVE WorkerOK(v)'
  <2>1. CASE v = w
    <3>1. started + 1 \in Ids /\ started + 1 > started
      BY RentalsAssumption DEF TypeOK, Ids
    <3>2. rows[started + 1] = "none"
      BY <3>1 DEF FreshRows
    <3>3. pc'[v] = "initiate" /\ rental'[v] = started + 1 /\ rows' = rows /\ started' = started + 1
      BY <2>1 DEF TypeOK
    <3> QED BY <3>1, <3>2, <3>3 DEF WorkerOK, TypeOK
  <2>2. CASE v # w BY <2>2 DEF TypeOK, WorkerOK, OneStarter
  <2> QED BY <2>1, <2>2
<1>3. OneStarter'
  BY DEF TypeOK, WorkerOK, OneStarter, Ids
<1>4. FreshRows'
  BY DEF TypeOK, WorkerOK, FreshRows, Ids
<1>5. MonitorOK'
  BY DEF TypeOK, WorkerOK, MonitorOK, Ids
<1>6. StoppedKnown' /\ StopIsEffective'
  BY DEF TypeOK, WorkerOK, StoppedKnown, StopIsEffective
<1> QED BY <1>1, <1>2, <1>3, <1>4, <1>5, <1>6

\* Opening a session touches a rental without a row only.
LEMMA InitiateStep == ASSUME IInv, NEW w \in Workers, Initiate(w) PROVE IInv'
<1> USE DEF IInv, Initiate, Opened, StartLabels, StopLabels, Labels, Goto, Finish, Fault, executor, monitor, history
<1>1. TypeOK'
  <2>1. pc' \in [Workers -> Labels] /\ rental' \in [Workers -> 0 .. MaxRentals]
    <3>1. Goto(w, "deploy") \/ Finish(w)
      OBVIOUS
    <3> HIDE DEF Goto, Finish
    <3> QED BY <3>1, MoveTypes, "deploy" \in Labels
  <2>2. /\ rows' \in [Ids -> RentalStates \cup {"none"}]
        /\ containers' \in [Ids -> {"none", "running", "exited", "removed"}]
        /\ \A r \in Ids : rows'[r] # "none" => containers'[r] # "none"
    BY RentalsAssumption DEF TypeOK, WorkerOK, RentalStates
  <2>3. /\ sessions' \subseteq Ids /\ stopped' \subseteq Ids /\ unclosed' \subseteq Ids
        /\ started' \in 0 .. MaxRentals /\ faults' \in 0 .. MaxFaults
    BY RentalsAssumption DEF TypeOK, WorkerOK
  <2>4. UNCHANGED monitor
    OBVIOUS
  <2> HIDE DEF Initiate, Goto, Finish, Fault, executor, history
  <2> QED BY <2>1, <2>2, <2>3, <2>4 DEF TypeOK
<1>2. ASSUME NEW v \in Workers PROVE WorkerOK(v)'
  BY <1>2 DEF TypeOK, WorkerOK, OneStarter, FreshRows, Ids
<1>3. OneStarter'
  BY DEF TypeOK, WorkerOK, OneStarter, Ids
<1>4. FreshRows'
  BY DEF TypeOK, WorkerOK, FreshRows, Ids
<1>5. MonitorOK'
  BY DEF TypeOK, WorkerOK, MonitorOK, Ids
<1>6. StoppedKnown' /\ StopIsEffective'
  BY DEF TypeOK, WorkerOK, StoppedKnown, StopIsEffective
<1> QED BY <1>1, <1>2, <1>3, <1>4, <1>5, <1>6

\* docker run starts the container of a rental without a row.
LEMMA DeployStep == ASSUME IInv, NEW w \in Workers, Deploy(w) PROVE IInv'
<1> USE DEF IInv, StartLabels, StopLabels, Labels, Goto, Finish, Fault, executor, monitor, history
<1>0. /\ pc[w] = "deploy"
      /\ pc'[w] = "details" => containers'[rental[w]] = "running"
      /\ containers'[rental[w]] \in {containers[rental[w]], "running"}
      /\ \A r \in Ids \ {rental[w]} : containers'[r] = containers[r]
      /\ containers' \in [Ids -> {"none", "running", "exited", "removed"}]
      /\ (Goto(w, "details") /\ UNCHANGED faults) \/ (Goto(w, "cleanup") /\ Fault)
      /\ UNCHANGED <<rows, sessions, started, monitor, history>>
  BY DEF Deploy, Running, TypeOK, WorkerOK
<1>1. TypeOK'
  <2>1. pc' \in [Workers -> Labels] /\ rental' \in [Workers -> 0 .. MaxRentals]
    BY <1>0, RentalsAssumption DEF TypeOK, Ids
  <2>2. /\ rows' \in [Ids -> RentalStates \cup {"none"}]
        /\ containers' \in [Ids -> {"none", "running", "exited", "removed"}]
        /\ \A r \in Ids : rows'[r] # "none" => containers'[r] # "none"
    BY <1>0, RentalsAssumption DEF TypeOK, WorkerOK, RentalStates
  <2>3. /\ sessions' \subseteq Ids /\ stopped' \subseteq Ids /\ unclosed' \subseteq Ids
        /\ started' \in 0 .. MaxRentals /\ faults' \in 0 .. MaxFaults
    BY <1>0, RentalsAssumption DEF TypeOK, WorkerOK
  <2>4. UNCHANGED monitor
    BY <1>0
  <2> HIDE DEF Goto, Finish, Fault, executor, history
  <2> QED BY <2>1, <2>2, <2>3, <2>4 DEF TypeOK
<1>2. ASSUME NEW v \in Workers PROVE WorkerOK(v)'
  <2>1. CASE v = w BY <1>0, <2>1 DEF TypeOK, WorkerOK, FreshRows, Ids
  <2>2. CASE v # w BY <1>0, <2>2 DEF TypeOK, WorkerOK, OneStarter
  <2> QED BY <2>1, <2>2
<1>3. OneStarter'
  BY <1>0 DEF TypeOK, WorkerOK, OneStarter, Ids
<1>4. FreshRows'
  BY <1>0 DEF TypeOK, WorkerOK, FreshRows, Ids
<1>5. MonitorOK'
  BY <1>0 DEF TypeOK, WorkerOK, MonitorOK, Ids
<1>6. StoppedKnown' /\ StopIsEffective'
  BY <1>0 DEF TypeOK, WorkerOK, StoppedKnown, StopIsEffective
<1> QED BY <1>1, <1>2, <1>3, <1>4, <1>5, <1>6

\* Closing the session of a failed deployment.
LEMMA CleanupStep == ASSUME IInv, NEW w \in Workers, Cleanup(w) PROVE IInv'
<1> USE DEF IInv, Cleanup, CloseSession, Closed, StartLabels, StopLabels, Labels, Goto, Finish, Fault, executor, monitor, history
<1>1. TypeOK'
  <2>1. pc' \in [Workers -> Labels] /\ rental' \in [Workers -> 0 .. MaxRentals]
    BY RentalsAssumption DEF TypeOK, Ids
  <2>2. /\ rows' \in [Ids -> RentalStates \cup {"none"}]
        /\ containers' \in [Ids -> {"none", "running", "exited", "removed"}]
        /\ \A r \in Ids : rows'[r] # "none" => containers'[r] # "none"
    BY RentalsAssumption DEF TypeOK, WorkerOK, RentalStates
  <2>3. /\ sessions' \subseteq Ids /\ stopped' \subseteq Ids /\ unclosed' \subseteq Ids
        /\ started' \in 0 .. MaxRentals /\ faults' \in 0 .. MaxFaults
    BY RentalsAssumption DEF TypeOK, WorkerOK
  <2>4. UNCHANGED monitor
    OBVIOUS
  <2> HIDE DEF Cleanup, CloseSession, Goto, Finish, Fault, executor, history
  <2> QED BY <2>1, <2>2, <2>3, <2>4 DEF TypeOK
<1>2. ASSUME NEW v \in Workers PROVE WorkerOK(v)'
  BY <1>2 DEF TypeOK, WorkerOK, OneStarter, FreshRows, Ids
<1>3. OneStarter'
  BY DEF TypeOK, WorkerOK, OneStarter, Ids
<1>4. FreshRows'
  BY DEF TypeOK, WorkerOK, FreshRows, Ids
<1>5. MonitorOK'
  BY DEF TypeOK, WorkerOK, MonitorOK, Ids
<1>6. StoppedKnown' /\ StopIsEffective'
  BY DEF TypeOK, WorkerOK, StoppedKnown, StopIsEffective
<1> QED BY <1>1, <1>2, <1>3, <1>4, <1>5, <1>6

\* Reading the executor's details.
LEMMA DetailsStep == ASSUME IInv, NEW w \in Workers, Details(w) PROVE IInv'
<1> USE DEF IInv, Details, StartLabels, StopLabels, Labels, Goto, Finish, Fault, executor, monitor, history
<1>1. TypeOK'
  <2>1. pc' \in [Workers -> Labels] /\ rental' \in [Workers -> 0 .. MaxRentals]
    <3>1. Goto(w, "save") \/ Finish(w)
      OBVIOUS
    <3> HIDE DEF Goto, Finish
    <3> QED BY <3>1, MoveTypes, "save" \in Labels
  <2>2. /\ rows' \in [Ids -> RentalStates \cup {"none"}]
        /\ containers' \in [Ids -> {"none", "running", "exited", "removed"}]
        /\ \A r \in Ids : rows'[r] # "none" => containers'[r] # "none"
    BY RentalsAssumption DEF TypeOK, WorkerOK, RentalStates
  <2>3. /\ sessions' \subseteq Ids /\ stopped' \subseteq Ids /\ unclosed' \subseteq Ids
        /\ started' \in 0 .. MaxRentals /\ faults' \in 0 .. MaxFaults
    BY RentalsAssumption DEF TypeOK, WorkerOK
  <2>4. UNCHANGED monitor
    OBVIOUS
  <2> HIDE DEF Details, Goto, Finish, Fault, executor, history
  <2> QED BY <2>1, <2>2, <2>3, <2>4 DEF TypeOK
<1>2. ASSUME NEW v \in Workers PROVE WorkerOK(v)'
  BY <1>2 DEF TypeOK, WorkerOK, OneStarter, FreshRows, Ids
<1>3. OneStarter'
  BY DEF TypeOK, WorkerOK, OneStarter, Ids
<1>4. FreshRows'
  BY DEF TypeOK, WorkerOK, FreshRows, Ids
<1>5. MonitorOK'
  BY DEF TypeOK, WorkerOK, MonitorOK, Ids
<1>6. StoppedKnown' /\ StopIsEffective'
  BY DEF TypeOK, WorkerOK, StoppedKnown, StopIsEffective
<1> QED BY <1>1, <1>2, <1>3, <1>4, <1>5, <1>6

\* The only write of Active is the first write of its row.
LEMMA SaveStep == ASSUME IInv, NEW w \in Workers, Save(w) PROVE IInv'
<1> USE DEF IInv, Save, StartLabels, StopLabels, Labels, Goto, Finish, Fault, executor, monitor, history
<1>1. TypeOK'
  <2>1. pc' \in [Workers -> Labels] /\ rental' \in [Workers -> 0 .. MaxRentals]
    BY RentalsAssumption DEF TypeOK, Ids
  <2>2. /\ rows' \in [Ids -> RentalStates \cup {"none"}]
        /\ containers' \in [Ids -> {"none", "running", "exited", "removed"}]
        /\ \A r \in Ids : rows'[r] # "none" => containers'[r] # "none"
    BY RentalsAssumption DEF TypeOK, WorkerOK, RentalStates
  <2>3. /\ sessions' \subseteq Ids /\ stopped' \subseteq Ids /\ unclosed' \subseteq Ids
        /\ started' \in 0 .. MaxRentals /\ faults' \in 0 .. MaxFaults
    BY RentalsAssumption DEF TypeOK, WorkerOK
  <2>4. UNCHANGED monitor
    OBVIOUS
  <2> HIDE DEF Save, Goto, Finish, Fault, executor, history
  <2> QED BY <2>1, <2>2, <2>3, <2>4 DEF TypeOK
<1>2. ASSUME NEW v \in Workers PROVE WorkerOK(v)'
  BY <1>2 DEF TypeOK, WorkerOK, OneStarter, FreshRows, Ids
<1>3. OneStarter'
  BY DEF TypeOK, WorkerOK, OneStarter, Ids
<1>4. FreshRows'
  <2> SUFFICES ASSUME NEW r \in Ids, r > started' PROVE rows'[r] = "none"
    BY DEF FreshRows
  <2>1. r # rental[w]
    BY DEF WorkerOK, TypeOK, Ids
  <2> QED BY <2>1 DEF TypeOK, FreshRows
<1>5. MonitorOK'
  BY DEF TypeOK, WorkerOK, MonitorOK, Ids
<1>6. StoppedKnown' /\ StopIsEffective'
  BY DEF TypeOK, WorkerOK, StoppedKnown, StopIsEffective
<1> QED BY <1>1, <1>2, <1>3, <1>4, <1>5, <1>6

\* stop_rental is called.
LEMMA StopRentalStep == ASSUME IInv, NEW w \in Workers, (\E r \in Ids : StopRental(w, r)) PROVE IInv'
<1> USE DEF IInv, StopRental, StartLabels, StopLabels, Labels, Goto, Finish, Fault, executor, monitor, history
<1>1. TypeOK'
  <2>1. pc' \in [Workers -> Labels] /\ rental' \in [Workers -> 0 .. MaxRentals]
    BY RentalsAssumption DEF TypeOK, Ids
  <2>2. /\ rows' \in [Ids -> RentalStates \cup {"none"}]
        /\ containers' \in [Ids -> {"none", "running", "exited", "removed"}]
        /\ \A r \in Ids : rows'[r] # "none" => containers'[r] # "none"
    BY RentalsAssumption DEF TypeOK, WorkerOK, RentalStates
  <2>3. /\ sessions' \subseteq Ids /\ stopped' \subseteq Ids /\ unclosed' \subseteq Ids
        /\ started' \in 0 .. MaxRentals /\ faults' \in 0 .. MaxFaults
    BY RentalsAssumption DEF TypeOK, WorkerOK
  <2>4. UNCHANGED monitor
    OBVIOUS
  <2> HIDE DEF StopRental, Goto, Finish, Fault, executor, history
  <2> QED BY <2>1, <2>2, <2>3, <2>4 DEF TypeOK
<1>2. ASSUME NEW v \in Workers PROVE WorkerOK(v)'
  BY <1>2 DEF TypeOK, WorkerOK, OneStarter, FreshRows, Ids
<1>3. OneStarter'
  BY DEF TypeOK, WorkerOK, OneStarter, Ids
<1>4. FreshRows'
  BY DEF TypeOK, WorkerOK, FreshRows, Ids
<1>5. MonitorOK'
  BY DEF TypeOK, WorkerOK, MonitorOK, Ids
<1>6. StoppedKnown' /\ StopIsEffective'
  BY DEF TypeOK, WorkerOK, StoppedKnown, StopIsEffective
<1> QED BY <1>1, <1>2, <1>3, <1>4, <1>5, <1>6

\* A stop goes on only if the row exists.
LEMMA LoadStep == ASSUME IInv, NEW w \in Workers, Load(w) PROVE IInv'
<1> USE DEF IInv, Load, StartLabels, StopLabels, Labels, Goto, Finish, Fault, executor, monitor, history
<1>1. TypeOK'
  <2>1. pc' \in [Workers -> Labels] /\ rental' \in [Workers -> 0 .. MaxRentals]
    <3>1. Goto(w, "stop") \/ Finish(w)
      OBVIOUS
    <3> HIDE DEF Goto, Finish
    <3> QED BY <3>1, MoveTypes, "stop" \in Labels
  <2>2. /\ rows' \in [Ids -> RentalStates \cup {"none"}]
        /\ containers' \in [Ids -> {"none", "running", "exited", "removed"}]
        /\ \A r \in Ids : rows'[r] # "none" => containers'[r] # "none"
    BY RentalsAssumption DEF TypeOK, WorkerOK, RentalStates
  <2>3. /\ sessions' \subseteq Ids /\ stopped' \subseteq Ids /\ unclosed' \subseteq Ids
        /\ started' \in 0 .. MaxRentals /\ faults' \in 0 .. MaxFaults
    BY RentalsAssumption DEF TypeOK, WorkerOK
  <2>4. UNCHANGED monitor
    OBVIOUS
  <2> HIDE DEF Load, Goto, Finish, Fault, executor, history
  <2> QED BY <2>1, <2>2, <2>3, <2>4 DEF TypeOK
<1>2. ASSUME NEW v \in Workers PROVE WorkerOK(v)'
  BY <1>2 DEF TypeOK, WorkerOK, OneStarter, FreshRows, Ids
<1>3. OneStarter'
  BY DEF TypeOK, WorkerOK, OneStarter, Ids
<1>4. FreshRows'
  BY DEF TypeOK, WorkerOK, FreshRows, Ids
<1>5. MonitorOK'
  BY DEF TypeOK, WorkerOK, MonitorOK, Ids
<1>6. StoppedKnown' /\ StopIsEffective'
  BY DEF TypeOK, WorkerOK, StoppedKnown, StopIsEffective
<1> QED BY <1>1, <1>2, <1>3, <1>4, <1>5, <1>6

\* docker stop leaves no container running when it succeeds.
LEMMA StopGracefulStep == ASSUME IInv, NEW w \in Workers, StopGraceful(w) PROVE IInv'
<1> USE DEF IInv, StartLabels, StopLabels, Labels, Goto, Finish, Fault, executor, monitor, history
<1>0. /\ pc[w] = "stop"
      /\ pc'[w] = "close" => containers'[rental[w]] = "exited"
      /\ containers'[rental[w]] \in {containers[rental[w]], "exited"}
      /\ containers[rental[w]] = "none" => containers'[rental[w]] = "none"
      /\ \A r \in Ids \ {rental[w]} : containers'[r] = containers[r]
      /\ containers' \in [Ids -> {"none", "running", "exited", "removed"}]
      /\ Goto(w, "close") \/ Goto(w, "kill")
      /\ UNCHANGED faults \/ Fault
      /\ UNCHANGED <<rows, sessions, started, monitor, history>>
  BY DEF StopGraceful, Exited, TypeOK, WorkerOK
<1>1. TypeOK'
  <2>1. pc' \in [Workers -> Labels] /\ rental' \in [Workers -> 0 .. MaxRentals]
    BY <1>0, RentalsAssumption DEF TypeOK, Ids
  <2>2. /\ rows' \in [Ids -> RentalStates \cup {"none"}]
        /\ containers' \in [Ids -> {"none", "running", "exited", "removed"}]
        /\ \A r \in Ids : rows'[r] # "none" => containers'[r] # "none"
    BY <1>0, RentalsAssumption DEF TypeOK, WorkerOK, RentalStates
  <2>3. /\ sessions' \subseteq Ids /\ stopped' \subseteq Ids /\ unclosed' \subseteq Ids
        /\ started' \in 0 .. MaxRentals /\ faults' \in 0 .. MaxFaults
    BY <1>0, RentalsAssumption DEF TypeOK, WorkerOK
  <2>4. UNCHANGED monitor
    BY <1>0
  <2> HIDE DEF Goto, Finish, Fault, executor, history
  <2> QED BY <2>1, <2>2, <2>3, <2>4 DEF TypeOK
<1>2. ASSUME NEW v \in Workers PROVE WorkerOK(v)'
  <2>1. CASE v = w BY <1>0, <2>1 DEF TypeOK, WorkerOK, FreshRows, Ids
  <2>2. CASE v # w BY <1>0, <2>2 DEF TypeOK, WorkerOK, OneStarter
  <2> QED BY <2>1, <2>2
<1>3. OneStarter'
  BY <1>0 DEF TypeOK, WorkerOK, OneStarter, Ids
<1>4. FreshRows'
  BY <1>0 DEF TypeOK, WorkerOK, FreshRows, Ids
<1>5. MonitorOK'
  BY <1>0 DEF TypeOK, WorkerOK, MonitorOK, Ids
<1>6. StoppedKnown' /\ StopIsEffective'
  BY <1>0 DEF TypeOK, WorkerOK, StoppedKnown, StopIsEffective
<1> QED BY <1>1, <1>2, <1>3, <1>4, <1>5, <1>6

\* docker kill leaves no container running when it succeeds.
LEMMA StopKillStep == ASSUME IInv, NEW w \in Workers, StopKill(w) PROVE IInv'
<1> USE DEF IInv, StartLabels, StopLabels, Labels, Goto, Finish, Fault, executor, monitor, history
<1>0. /\ pc[w] = "kill"
      /\ pc'[w] = "remove" => containers'[rental[w]] = "exited"
      /\ containers'[rental[w]] \in {containers[rental[w]], "exited"}
      /\ containers[rental[w]] = "none" => containers'[rental[w]] = "none"
      /\ \A r \in Ids \ {rental[w]} : containers'[r] = containers[r]
      /\ containers' \in [Ids -> {"none", "running", "exited", "removed"}]
      /\ Goto(w, "remove") \/ Finish(w)
      /\ UNCHANGED faults \/ Fault
      /\ UNCHANGED <<rows, sessions, started, monitor, history>>
  BY DEF StopKill, Exited, TypeOK, WorkerOK
<1>1. TypeOK'
  <2>1. pc' \in [Workers -> Labels] /\ rental' \in [Workers -> 0 .. MaxRentals]
    <3> HIDE DEF Goto, Finish
    <3> QED BY <1>0, MoveTypes, "remove" \in Labels
  <2>2. /\ rows' \in [Ids -> RentalStates \cup {"none"}]
        /\ containers' \in [Ids -> {"none", "running", "exited", "removed"}]
        /\ \A r \in Ids : rows'[r] # "none" => containers'[r] # "none"
    BY <1>0, RentalsAssumption DEF TypeOK, WorkerOK, RentalStates
  <2>3. /\ sessions' \subseteq Ids /\ stopped' \subseteq Ids /\ unclosed' \subseteq Ids
        /\ started' \in 0 .. MaxRentals /\ faults' \in 0 .. MaxFaults
    BY <1>0, RentalsAssumption DEF TypeOK, WorkerOK
  <2>4. UNCHANGED monitor
    BY <1>0
  <2> HIDE DEF Goto, Finish, Fault, executor, history
  <2> QED BY <2>1, <2>2, <2>3, <2>4 DEF TypeOK
<1>2. ASSUME NEW v \in Workers PROVE WorkerOK(v)'
  <2>1. CASE v = w BY <1>0, <2>1 DEF TypeOK, WorkerOK, FreshRows, Ids
  <2>2. CASE v # w BY <1>0, <2>2 DEF TypeOK, WorkerOK, OneStarter
  <2> QED BY <2>1, <2>2
<1>3. OneStarter'
  BY <1>0 DEF TypeOK, WorkerOK, OneStarter, Ids
<1>4. FreshRows'
  BY <1>0 DEF TypeOK, WorkerOK, FreshRows, Ids
<1>5. MonitorOK'
  BY <1>0 DEF TypeOK, WorkerOK, MonitorOK, Ids
<1>6. StoppedKnown' /\ StopIsEffective'
  BY <1>0 DEF TypeOK, WorkerOK, StoppedKnown, StopIsEffective
<1> QED BY <1>1, <1>2, <1>3, <1>4, <1>5, <1>6

\* docker rm starts nothing.
LEMMA RemoveStep == ASSUME IInv, NEW w \in Workers, Remove(w) PROVE IInv'
<1> USE DEF IInv, StartLabels, StopLabels, Labels, Goto, Finish, Fault, executor, monitor, history
<1>0. /\ pc[w] = "remove"
      /\ containers'[rental[w]] \in {containers[rental[w]], "removed"}
      /\ \A r \in Ids \ {rental[w]} : containers'[r] = containers[r]
      /\ containers' \in [Ids -> {"none", "running", "exited", "removed"}]
      /\ Goto(w, "close") \/ Finish(w)
      /\ UNCHANGED faults \/ Fault
      /\ UNCHANGED <<rows, sessions, started, monitor, history>>
  BY DEF Remove, TypeOK, WorkerOK
<1>1. TypeOK'
  <2>1. pc' \in [Workers -> Labels] /\ rental' \in [Workers -> 0 .. MaxRentals]
    <3> HIDE DEF Goto, Finish
    <3> QED BY <1>0, MoveTypes, "close" \in Labels
  <2>2. /\ rows' \in [Ids -> RentalStates \cup {"none"}]
        /\ containers' \in [Ids -> {"none", "running", "exited", "removed"}]
        /\ \A r \in Ids : rows'[r] # "none" => containers'[r] # "none"
    BY <1>0, RentalsAssumption DEF TypeOK, WorkerOK, RentalStates
  <2>3. /\ sessions' \subseteq Ids /\ stopped' \subseteq Ids /\ unclosed' \subseteq Ids
        /\ started' \in 0 .. MaxRentals /\ faults' \in 0 .. MaxFaults
    BY <1>0, RentalsAssumption DEF TypeOK, WorkerOK
  <2>4. UNCHANGED monitor
    BY <1>0
  <2> HIDE DEF Goto, Finish, Fault, executor, history
  <2> QED BY <2>1, <2>2, <2>3, <2>4 DEF TypeOK
<1>2. ASSUME NEW v \in Workers PROVE WorkerOK(v)'
  <2>1. CASE v = w BY <1>0, <2>1 DEF TypeOK, WorkerOK, FreshRows, Ids
  <2>2. CASE v # w BY <1>0, <2>2 DEF TypeOK, WorkerOK, OneStarter
  <2> QED BY <2>1, <2>2
<1>3. OneStarter'
  BY <1>0 DEF TypeOK, WorkerOK, OneStarter, Ids
<1>4. FreshRows'
  BY <1>0 DEF TypeOK, WorkerOK, FreshRows, Ids
<1>5. MonitorOK'
  BY <1>0 DEF TypeOK, WorkerOK, MonitorOK, Ids
<1>6. StoppedKnown' /\ StopIsEffective'
  BY <1>0 DEF TypeOK, WorkerOK, StoppedKnown, StopIsEffective
<1> QED BY <1>1, <1>2, <1>3, <1>4, <1>5, <1>6

\* A session that stays open after this was not closed by the miner.
LEMMA CloseStep == ASSUME IInv, NEW w \in Workers, Close(w) PROVE IInv'
<1> USE DEF IInv, Close, CloseSession, Closed, StartLabels, StopLabels, Labels, Goto, Finish, Fault, executor, monitor, history
<1>1. TypeOK'
  <2>1. pc' \in [Workers -> Labels] /\ rental' \in [Workers -> 0 .. MaxRentals]
    BY RentalsAssumption DEF TypeOK, Ids
  <2>2. /\ rows' \in [Ids -> RentalStates \cup {"none"}]
        /\ containers' \in [Ids -> {"none", "running", "exited", "removed"}]
        /\ \A r \in Ids : rows'[r] # "none" => containers'[r] # "none"
    BY RentalsAssumption DEF TypeOK, WorkerOK, RentalStates
  <2>3. /\ sessions' \subseteq Ids /\ stopped' \subseteq Ids /\ unclosed' \subseteq Ids
        /\ started' \in 0 .. MaxRentals /\ faults' \in 0 .. MaxFaults
    BY RentalsAssumption DEF TypeOK, WorkerOK
  <2>4. UNCHANGED monitor
    OBVIOUS
  <2> HIDE DEF Close, CloseSession, Goto, Finish, Fault, executor, history
  <2> QED BY <2>1, <2>2, <2>3, <2>4 DEF TypeOK
<1>2. ASSUME NEW v \in Workers PROVE WorkerOK(v)'
  BY <1>2 DEF TypeOK, WorkerOK, OneStarter, FreshRows, Ids
<1>3. OneStarter'
  BY DEF TypeOK, WorkerOK, OneStarter, Ids
<1>4. FreshRows'
  BY DEF TypeOK, WorkerOK, FreshRows, Ids
<1>5. MonitorOK'
  BY DEF TypeOK, WorkerOK, MonitorOK, Ids
<1>6. StoppedKnown' /\ StopIsEffective'
  BY DEF TypeOK, WorkerOK, StoppedKnown, StopIsEffective
<1> QED BY <1>1, <1>2, <1>3, <1>4, <1>5, <1>6

\* The rental is Stopped and its container does not run.
LEMMA SaveStoppedStep == ASSUME IInv, NEW w \in Workers, SaveStopped(w) PROVE IInv'
<1> USE DEF IInv, SaveStopped, StartLabels, StopLabels, Labels, Goto, Finish, Fault, executor, monitor, history
<1>1. TypeOK'
  <2>1. pc' \in [Workers -> Labels] /\ rental' \in [Workers -> 0 .. MaxRentals]
    BY RentalsAssumption DEF TypeOK, Ids
  <2>2. /\ rows' \in [Ids -> RentalStates \cup {"none"}]
        /\ containers' \in [Ids -> {"none", "running", "exited", "removed"}]
        /\ \A r \in Ids : rows'[r] # "none" => containers'[r] # "none"
    BY RentalsAssumption DEF TypeOK, WorkerOK, RentalStates
  <2>3. /\ sessions' \subseteq Ids /\ stopped' \subseteq Ids /\ unclosed' \subseteq Ids
        /\ started' \in 0 .. MaxRentals /\ faults' \in 0 .. MaxFaults
    BY RentalsAssumption DEF TypeOK, WorkerOK
  <2>4. UNCHANGED monitor
    OBVIOUS
  <2> HIDE DEF SaveStopped, Goto, Finish, Fault, executor, history
  <2> QED BY <2>1, <2>2, <2>3, <2>4 DEF TypeOK
<1>2. ASSUME NEW v \in Workers PROVE WorkerOK(v)'
  BY <1>2 DEF TypeOK, WorkerOK, OneStarter, FreshRows, Ids
<1>3. OneStarter'
  BY DEF TypeOK, WorkerOK, OneStarter, Ids
<1>4. FreshRows'
  BY DEF TypeOK, WorkerOK, FreshRows, Ids
<1>5. MonitorOK'
  BY DEF TypeOK, WorkerOK, MonitorOK, Ids
<1>6. StoppedKnown' /\ StopIsEffective'
  BY DEF TypeOK, WorkerOK, StoppedKnown, StopIsEffective
<1> QED BY <1>1, <1>2, <1>3, <1>4, <1>5, <1>6

\* A dropped handler leaves everything as it is.
LEMMA DroppedStep == ASSUME IInv, NEW w \in Workers, Dropped(w) PROVE IInv'
<1> USE DEF IInv, Dropped, StartLabels, StopLabels, Labels, Goto, Finish, Fault, executor, monitor, history
<1>1. TypeOK'
  <2>1. pc' \in [Workers -> Labels] /\ rental' \in [Workers -> 0 .. MaxRentals]
    BY RentalsAssumption DEF TypeOK, Ids
  <2>2. /\ rows' \in [Ids -> RentalStates \cup {"none"}]
        /\ containers' \in [Ids -> {"none", "running", "exited", "removed"}]
        /\ \A r \in Ids : rows'[r] # "none" => containers'[r] # "none"
    BY RentalsAssumption DEF TypeOK, WorkerOK, RentalStates
  <2>3. /\ sessions' \subseteq Ids /\ stopped' \subseteq Ids /\ unclosed' \subseteq Ids
        /\ started' \in 0 .. MaxRentals /\ faults' \in 0 .. MaxFaults
    BY RentalsAssumption DEF TypeOK, WorkerOK
  <2>4. UNCHANGED monitor
    OBVIOUS
  <2> HIDE DEF Dropped, Goto, Finish, Fault, executor, history
  <2> QED BY <2>1, <2>2, <2>3, <2>4 DEF TypeOK
<1>2. ASSUME NEW v \in Workers PROVE WorkerOK(v)'
  BY <1>2 DEF TypeOK, WorkerOK, OneStarter, FreshRows, Ids
<1>3. OneStarter'
  BY DEF TypeOK, WorkerOK, OneStarter, Ids
<1>4. FreshRows'
  BY DEF TypeOK, WorkerOK, FreshRows, Ids
<1>5. MonitorOK'
  BY DEF TypeOK, WorkerOK, MonitorOK, Ids
<1>6. StoppedKnown' /\ StopIsEffective'
  BY DEF TypeOK, WorkerOK, StoppedKnown, StopIsEffective
<1> QED BY <1>1, <1>2, <1>3, <1>4, <1>5, <1>6

\* A container that ends on its own.
LEMMA ExitStep == ASSUME IInv, NEW r \in Ids, Exit(r) PROVE IInv'
<1> USE DEF IInv, Exit, executor, monitor, history
<1>1. TypeOK'
  BY RentalsAssumption DEF TypeOK, Labels, Exited
<1>2. ASSUME NEW v \in Workers PROVE WorkerOK(v)'
  BY <1>2 DEF TypeOK, WorkerOK, StartLabels, StopLabels, Exited
<1>3. OneStarter' /\ FreshRows'
  BY DEF TypeOK, OneStarter, FreshRows, StartLabels
<1>4. MonitorOK'
  BY DEF MonitorOK
<1>5. StoppedKnown' /\ StopIsEffective'
  BY DEF TypeOK, StoppedKnown, StopIsEffective, Exited
<1> QED BY <1>1, <1>2, <1>3, <1>4, <1>5

\* A session the miner ends.
LEMMA ExpireStep == ASSUME IInv, NEW r \in Ids, Expire(r) PROVE IInv'
<1> USE DEF IInv, Expire, Closed, executor, monitor, history
<1>1. TypeOK'
  BY RentalsAssumption DEF TypeOK, Labels, Exited
<1>2. ASSUME NEW v \in Workers PROVE WorkerOK(v)'
  BY <1>2 DEF TypeOK, WorkerOK, StartLabels, StopLabels, Exited
<1>3. OneStarter' /\ FreshRows'
  BY DEF TypeOK, OneStarter, FreshRows, StartLabels
<1>4. MonitorOK'
  BY DEF MonitorOK
<1>5. StoppedKnown' /\ StopIsEffective'
  BY DEF TypeOK, StoppedKnown, StopIsEffective, Exited
<1> QED BY <1>1, <1>2, <1>3, <1>4, <1>5

\* After a crash only the table and the executor are left.
LEMMA CrashStep == ASSUME IInv, Crash PROVE IInv'
<1> USE DEF IInv, Crash, Fault, executor, monitor, history
<1>1. TypeOK'
  BY RentalsAssumption DEF TypeOK, Labels, Exited
<1>2. ASSUME NEW v \in Workers PROVE WorkerOK(v)'
  BY <1>2 DEF TypeOK, WorkerOK, StartLabels, StopLabels, Exited
<1>3. OneStarter' /\ FreshRows'
  BY DEF TypeOK, OneStarter, FreshRows, StartLabels
<1>4. MonitorOK'
  BY DEF MonitorOK
<1>5. StoppedKnown' /\ StopIsEffective'
  BY DEF TypeOK, StoppedKnown, StopIsEffective, Exited
<1> QED BY <1>1, <1>2, <1>3, <1>4, <1>5

\* The monitor copies rows that have not ended.
LEMMA MonitorTickStep == ASSUME IInv, MonitorTick PROVE IInv'
<1> USE DEF IInv, MonitorTick, Fault, executor, history
<1>1. /\ todo' \subseteq [id: Ids, state: RentalStates \ Terminal]
      /\ \A c \in todo' : rows[c.id] # "none"
  BY DEF TypeOK, NonTerminated
<1>2. TypeOK'
  BY <1>1, RentalsAssumption DEF TypeOK
<1>3. ASSUME NEW v \in Workers PROVE WorkerOK(v)'
  BY <1>3 DEF WorkerOK
<1>4. OneStarter' /\ FreshRows' /\ StoppedKnown' /\ StopIsEffective'
  BY DEF OneStarter, FreshRows, StoppedKnown, StopIsEffective
<1>5. MonitorOK'
  BY <1>1 DEF MonitorOK
<1> QED BY <1>2, <1>3, <1>4, <1>5

\* The monitor's verdict on a row that had not ended is that it has.
LEMMA VerdictIsTerminal ==
  ASSUME NEW state \in RentalStates \ Terminal, NEW result, NEW s \in NewState(state, result)
  PROVE  s \in Terminal
BY DEF NewState, RentalStates, Terminal

\* A check leaves a verdict on a row that exists, or none.
LEMMA CheckStep == ASSUME IInv, NEW c \in Copy, Check(c) PROVE IInv'
<1> USE DEF IInv, Check, executor, history
<1>1. c \in [id: Ids, state: RentalStates \ Terminal] /\ rows[c.id] # "none"
  BY DEF TypeOK, MonitorOK
<1>2. \/ verdict' = NoVerdict
      \/ \E s \in Terminal : verdict' = [id |-> c.id, state |-> s]
  <2>1. CASE \E result \in Results(c.id) : NewState(c.state, result) = {} /\ UNCHANGED verdict
    BY <2>1
  <2>2. CASE \E result \in Results(c.id) : \E s \in NewState(c.state, result) :
               verdict' = [id |-> c.id, state |-> s]
    BY <1>1, <2>2, VerdictIsTerminal
  <2> QED BY <2>1, <2>2
<1>3. /\ verdict' \in Copy \cup {NoVerdict}
      /\ verdict' # NoVerdict => verdict'.id = c.id /\ verdict'.state \in Terminal
  BY <1>1, <1>2 DEF Copy, NoVerdict, Terminal, RentalStates
<1>4. TypeOK'
  BY <1>3 DEF TypeOK, Copy
<1>5. ASSUME NEW v \in Workers PROVE WorkerOK(v)'
  BY <1>5 DEF WorkerOK
<1>6. OneStarter' /\ FreshRows' /\ StoppedKnown' /\ StopIsEffective'
  BY DEF OneStarter, FreshRows, StoppedKnown, StopIsEffective
<1>7. MonitorOK'
  BY <1>1, <1>3 DEF MonitorOK
<1> QED BY <1>4, <1>5, <1>6, <1>7

\* The monitor's write keeps which rows exist.
LEMMA SaveVerdictStep == ASSUME IInv, SaveVerdict PROVE IInv'
<1> USE DEF IInv, SaveVerdict, Fault, executor, history
<1>1. /\ rows' \in [Ids -> RentalStates \cup {"none"}]
      /\ \A r \in Ids : rows'[r] = "none" <=> rows[r] = "none"
  BY DEF TypeOK, MonitorOK, Copy, Terminal, RentalStates
<1>2. TypeOK'
  BY <1>1, RentalsAssumption DEF TypeOK
<1>3. ASSUME NEW v \in Workers PROVE WorkerOK(v)'
  BY <1>1, <1>3 DEF WorkerOK, StartLabels, StopLabels
<1>4. OneStarter' /\ FreshRows'
  BY <1>1 DEF OneStarter, FreshRows
<1>5. MonitorOK'
  BY <1>1 DEF MonitorOK, TypeOK
<1>6. StoppedKnown' /\ StopIsEffective'
  BY <1>1 DEF StoppedKnown, StopIsEffective, TypeOK
<1> QED BY <1>2, <1>3, <1>4, <1>5, <1>6

\* The invariant holds at first.
LEMMA InitInv == Init => IInv
<1> SUFFICES ASSUME Init PROVE IInv
  OBVIOUS
<1>1. TypeOK
  BY RentalsAssumption DEF Init, TypeOK, Labels
<1>2. \A w \in Workers : WorkerOK(w)
  BY DEF Init, WorkerOK, StartLabels, StopLabels
<1>3. OneStarter /\ FreshRows /\ MonitorOK /\ StoppedKnown /\ StopIsEffective
  BY DEF Init, OneStarter, FreshRows, MonitorOK, StoppedKnown, StopIsEffective, StartLabels
<1> QED BY <1>1, <1>2, <1>3 DEF IInv

\* No step of a handler, the monitor or the surroundings disturbs it.
LEMMA NextInv == IInv /\ [Next]_vars => IInv'
<1> SUFFICES ASSUME IInv, [Next]_vars PROVE IInv'
  OBVIOUS
<1>1. CASE UNCHANGED vars
  BY <1>1 DEF vars, executor, monitor, history, IInv, TypeOK, WorkerOK, OneStarter, FreshRows,
     MonitorOK, StoppedKnown, StopIsEffective
<1>2. ASSUME NEW w \in Workers, Handler(w) PROVE IInv'
  BY <1>2, StartStep, InitiateStep, DeployStep, CleanupStep, DetailsStep, SaveStep, StopRentalStep,
     LoadStep, StopGracefulStep, StopKillStep, RemoveStep, CloseStep, SaveStoppedStep, DroppedStep
     DEF Handler
<1>3. CASE Monitor
  BY <1>3, MonitorTickStep, CheckStep, SaveVerdictStep DEF Monitor
<1>4. CASE \E r \in Ids : Exit(r) \/ Expire(r)
  BY <1>4, ExitStep, ExpireStep
<1>5. CASE Crash
  BY <1>5, CrashStep
<1> QED BY <1>1, <1>2, <1>3, <1>4, <1>5 DEF Next

\* The invariant is inductive.
LEMMA Invariance == Spec => []IInv
BY InitInv, NextInv, PTL DEF Spec

\* The tables and the handlers' and the monitor's copies keep their types; a row only
\* exists once its container was started, and the monitor only holds copies of rows
\* that had not ended, for any number of handlers, rentals and faults.
THEOREM TypeCorrect == Spec => []TypeOK
<1>1. IInv => TypeOK
  BY DEF IInv
<1> QED BY <1>1, Invariance, PTL

\* After a stop_rental that succeeded no container of the rental runs and no session
\* is open that the miner did not fail to close.
THEOREM StopsAreEffective == Spec => []StopIsEffective
<1>1. IInv => StopIsEffective
  BY DEF IInv
<1> QED BY <1>1, Invariance, PTL

\* No write of a row that has ended, however late, makes the rental live again.
LEMMA EndedStep ==
  IInv /\ [Next]_vars => [\A r \in Ids : rows[r] \in Terminal => rows'[r] \in Terminal]_vars
<1> SUFFICES ASSUME IInv, Next, NEW r \in Ids, rows[r] \in Terminal PROVE rows'[r] \in Terminal
  OBVIOUS
<1>1. CASE UNCHANGED rows
  BY <1>1
<1>2. ASSUME NEW w \in Workers, Save(w) PROVE rows'[r] \in Terminal
  <2>1. rows[rental[w]] = "none"
    BY <1>2 DEF IInv, WorkerOK, Save, StartLabels
  <2> QED BY <1>2, <2>1 DEF IInv, TypeOK, Save, Terminal
<1>3. ASSUME NEW w \in Workers, SaveStopped(w) PROVE rows'[r] \in Terminal
  BY <1>3 DEF IInv, TypeOK, SaveStopped, Terminal
<1>4. CASE SaveVerdict
  BY <1>4 DEF IInv, TypeOK, MonitorOK, SaveVerdict
<1>5. \/ UNCHANGED rows
      \/ \E w \in Workers : Save(w) \/ SaveStopped(w)
      \/ SaveVerdict
  BY DEF Next, Handler, Monitor, StartRental, Initiate, Deploy, Cleanup, Details, StopRental, Load,
     StopGraceful, StopKill, Remove, Close, Dropped, MonitorTick, Check, Exit, Expire, Crash
<1> QED BY <1>1, <1>2, <1>3, <1>4, <1>5

\* A rental that is Stopped or Failed stays so, whoever saves its row and when.
THEOREM EndedStaysEnded == Spec => EndedForGood
BY EndedStep, Invariance, PTL DEF Spec, EndedForGood

=============================================================================
