------------------------ MODULE GpuRegistry_proofs -------------------------
(***************************************************************************)
(* That a GPU is only ever assigned to an executor that a success vouches  *)
(* for, for any number of tasks, claims, GPUs and results.                 *)
(*                                                                         *)
(* A task assigns a GPU many statements after its result came in, so the   *)
(* invariant follows a result on its way: as long as a full success is     *)
(* being stored, what it found stays vouched for, whatever other tasks and *)
(* the clean-ups do, and the GPU that the loop is at is one of those.      *)
(***************************************************************************)
EXTENDS GpuRegistry, FiniteSetTheorems, TLAPS

Counts == 0 .. Cardinality(Gpus)

Row == [status: Statuses, count: Counts]

Labels == {"idle", "read", "status", "ensure", "address", "old", "rename", "insert", "duplicates",
           "offline", "forget", "purge", "gpu", "new", "other", "take", "current", "final"}

Local == [pc: Labels, claim: Claims \cup {NoClaim}, full: BOOLEAN, ok: BOOLEAN,
          found: SUBSET Gpus, status: Statuses \cup {"none"}, others: SUBSET Claims,
          todo: SUBSET Gpus, item: Claims \cup Gpus \cup {None}, count: Counts]

\* What a task relies on at its statements.
LocalOK(l) ==
  /\ l \in Local
  /\ l.todo \subseteq l.found
  /\ l.pc # "idle" => l.claim \in Claims
  /\ l.pc \in {"idle", "read", "status"} \/ (l.full /\ l.ok)
  /\ l.pc \in {"status", "final"} => l.status \in Statuses
  /\ l.pc \in {"new", "other", "take"} => l.item \in l.found

\* What a full success found stays vouched for while it is being stored.
FoundIsVouched(l, v) ==
  l.pc # "idle" /\ l.full /\ l.ok => l.found \subseteq v[l.claim]

TablesOK ==
  /\ rows \in [Claims -> {NoRow} \cup Row]
  /\ owner \in [Gpus -> Claims \cup {NoClaim}]
  /\ vouched \in [Claims -> SUBSET Gpus]

CleanLabels == {"idle", "forget", "mismatch", "reset", "mark", "stale", "long", "release", "failed",
                "delete", "rows"}

CleanLocal ==
  [pc: CleanLabels, claims: SUBSET Claims, active: SUBSET Claims, item: Claims \cup {None}]

CleanOK == clean \in CleanLocal

TasksOK ==
  /\ task \in [Tasks -> Local]
  /\ \A t \in Tasks : LocalOK(task[t]) /\ FoundIsVouched(task[t], vouched)

IInv ==
  /\ TablesOK
  /\ CleanOK
  /\ TasksOK
  /\ results \in 0 .. MaxResults
  /\ AssignmentIsVouched

-----------------------------------------------------------------------------

\* An executor never has more GPUs than there are (the COUNT of CountGpus).
LEMMA HeldCount ==
  ASSUME NEW c
  PROVE  Cardinality(Held(c)) \in Counts
<1>1. IsFiniteSet(Gpus)
  BY RegistryAssumption
<1>2. Held(c) \subseteq Gpus
  BY DEF Held
<1>3. /\ IsFiniteSet(Held(c))
      /\ Cardinality(Held(c)) <= Cardinality(Gpus)
  BY <1>1, <1>2, FS_Subset
<1>4. Cardinality(Held(c)) \in Nat /\ Cardinality(Gpus) \in Nat
  BY <1>1, <1>3, FS_CardinalityType
<1> QED
  BY <1>3, <1>4 DEF Counts

\* The local state of a task that stores nothing.
LEMMA IdleOK == LocalOK(Idle) /\ \A v : FoundIsVouched(Idle, v)
<1>1. 0 \in Counts
  <2>1. Cardinality(Gpus) \in Nat
    BY RegistryAssumption, FS_CardinalityType
  <2> QED
    BY <2>1 DEF Counts
<1>2. Idle \in Local
  BY <1>1 DEF Idle, Local, Labels
<1> QED
  BY <1>2 DEF Idle, LocalOK, FoundIsVouched

\* A task moves on, and nothing that was vouched for is withdrawn.
LEMMA GotoKeeps ==
  ASSUME TasksOK, NEW t \in Tasks, NEW l, Goto(t, l),
         LocalOK(l), FoundIsVouched(l, vouched'),
         \A c \in Claims : vouched[c] \subseteq vouched'[c]
  PROVE  TasksOK'
<1>1. task' = [task EXCEPT ![t] = l] /\ l \in Local
  BY DEF Goto, LocalOK
<1>2. task' \in [Tasks -> Local]
  BY <1>1 DEF TasksOK
<1>3. ASSUME NEW x \in Tasks
      PROVE  LocalOK(task'[x]) /\ FoundIsVouched(task'[x], vouched')
  <2>1. CASE x = t
    BY <2>1, <1>1 DEF TasksOK
  <2>2. CASE x # t
    <3>1. task'[x] = task[x]
      BY <2>2, <1>1 DEF TasksOK
    <3>2. LocalOK(task[x]) /\ FoundIsVouched(task[x], vouched)
      BY DEF TasksOK
    <3>3. FoundIsVouched(task[x], vouched')
      BY <3>2 DEF FoundIsVouched, LocalOK
    <3> QED
      BY <3>1, <3>2, <3>3
  <2> QED
    BY <2>1, <2>2
<1> QED
  BY <1>2, <1>3 DEF TasksOK

\* A step that only changes what a task has read.
LEMMA ReadKeeps ==
  ASSUME IInv, NEW t \in Tasks, NEW l, Goto(t, l), Reads,
         LocalOK(l), FoundIsVouched(l, vouched)
  PROVE  IInv'
<1>1. TasksOK'
  BY GotoKeeps DEF IInv, Reads
<1> QED
  BY <1>1 DEF IInv, Reads, TablesOK, CleanOK, AssignmentIsVouched

\* A task that gives up.
LEMMA GiveUpKeeps ==
  ASSUME IInv, NEW t \in Tasks, Goto(t, Idle), Reads
  PROVE  IInv'
BY IdleOK, ReadKeeps

\* Assignments that are only deleted stay vouched for.
LEMMA DeletingKeeps ==
  ASSUME TablesOK, AssignmentIsVouched, UNCHANGED vouched,
         owner' \in [Gpus -> Claims \cup {NoClaim}],
         \A g \in Gpus : owner'[g] = owner[g] \/ owner'[g] = NoClaim
  PROVE  AssignmentIsVouched'
BY DEF AssignmentIsVouched

\* A change of a status or a count.
LEMMA StatusKeepsRows ==
  ASSUME TablesOK, NEW cs, NEW s \in Statuses
  PROVE  WithStatus(cs, s) \in [Claims -> {NoRow} \cup Row]
<1>1. ASSUME NEW c \in Claims, Exists(c)
      PROVE  [rows[c] EXCEPT !.status = s] \in Row
  BY <1>1 DEF TablesOK, Exists, Row
<1>2. ASSUME NEW c \in Claims
      PROVE  (IF c \in cs /\ Exists(c) THEN [rows[c] EXCEPT !.status = s] ELSE rows[c])
               \in {NoRow} \cup Row
  BY <1>1 DEF TablesOK
<1> QED
  BY <1>2 DEF WithStatus

-----------------------------------------------------------------------------
(* Storing a result.                                                       *)

\* The local state that a task begins with.
LEMMA StartingLocal ==
  ASSUME NEW i \in Local, NEW p \in Labels, NEW c \in Claims, NEW f \in BOOLEAN,
         NEW o \in BOOLEAN, NEW n \in SUBSET Gpus, NEW s \in Statuses
  PROVE  [i EXCEPT !.pc = p, !.claim = c, !.full = f, !.ok = o, !.found = n, !.status = s]
           \in Local
BY DEF Local

LEMMA BeginKeeps ==
  ASSUME IInv, NEW t \in Tasks, NEW c \in Claims, NEW full \in BOOLEAN, NEW ok \in BOOLEAN,
         NEW found \in SUBSET Gpus, Begin(t, c, full, ok, found)
  PROVE  IInv'
<1> DEFINE l == [Idle EXCEPT !.pc = IF ok /\ ~full THEN "read" ELSE "status",
                             !.claim = c, !.full = full, !.ok = ok, !.found = found,
                             !.status = IF ok THEN "online" ELSE "offline"]
<1>1. Goto(t, l)
  BY DEF Begin
<1>2. vouched' = [vouched EXCEPT ![c] = @ \cup found]
  BY DEF Begin
<1>3. LocalOK(l)
  <2>1. Idle \in Local
    BY IdleOK DEF LocalOK
  <2>2. l.pc \in {"read", "status"} /\ l.claim = c /\ l.found = found
        /\ l.status \in Statuses /\ l.todo = {}
    BY DEF Idle, Statuses, Active
  <2> DEFINE pc == IF ok /\ ~full THEN "read" ELSE "status"
             status == IF ok THEN "online" ELSE "offline"
  <2>4. pc \in Labels /\ status \in Statuses
    BY DEF Labels, Statuses, Active
  <2>3. l \in Local
    BY <2>1, <2>4, StartingLocal
  <2> QED
    BY <2>2, <2>3 DEF LocalOK
<1>4. \A d \in Claims : vouched[d] \subseteq vouched'[d]
  BY <1>2 DEF IInv, TablesOK
<1>5. FoundIsVouched(l, vouched')
  BY <1>2 DEF FoundIsVouched, Idle, IInv, TablesOK
<1> HIDE DEF l
<1>6. TasksOK'
  BY <1>1, <1>3, <1>4, <1>5, GotoKeeps DEF IInv
<1>7. TablesOK'
  BY <1>2 DEF IInv, TablesOK, Begin
<1>8. CleanOK' /\ results' \in 0 .. MaxResults
  BY RegistryAssumption DEF IInv, CleanOK, Begin
<1>9. AssignmentIsVouched'
  BY <1>4 DEF IInv, TablesOK, Begin, AssignmentIsVouched
<1> QED
  BY <1>6, <1>7, <1>8, <1>9 DEF IInv

LEMMA ReadStatusKeeps ==
  ASSUME IInv, NEW t \in Tasks, ReadStatus(t)
  PROVE  IInv'
<1> DEFINE c == task[t].claim
           l == [task[t] EXCEPT !.pc = "status",
                                !.status = IF Exists(c) THEN rows[c].status ELSE "verified"]
<1>1. Goto(t, l) /\ Reads
  BY DEF ReadStatus
<1>2. LocalOK(task[t]) /\ FoundIsVouched(task[t], vouched) /\ task[t].pc = "read"
  BY DEF IInv, TasksOK, ReadStatus, At
<1>3. (IF Exists(c) THEN rows[c].status ELSE "verified") \in Statuses
  BY <1>2 DEF LocalOK, Exists, IInv, TablesOK, Row, Statuses, Active
<1>4. LocalOK(l) /\ FoundIsVouched(l, vouched)
  BY <1>2, <1>3 DEF LocalOK, FoundIsVouched, Local, Labels
<1> QED
  BY <1>1, <1>4, ReadKeeps

\* A failure withdraws what it says is gone, not what another task is storing.
LEMMA SetStatusKeeps ==
  ASSUME IInv, NEW t \in Tasks, SetStatus(t)
  PROVE  IInv'
<1> DEFINE c == task[t].claim
<1>1. LocalOK(task[t]) /\ FoundIsVouched(task[t], vouched) /\ task[t].pc = "status"
  BY DEF IInv, TasksOK, SetStatus, At
<1>2. c \in Claims /\ task[t].status \in Statuses
  BY <1>1 DEF LocalOK
<1>3. Goto(t, AfterStatus(t))
  BY DEF SetStatus
<1>4. LocalOK(AfterStatus(t))
      /\ \A v : FoundIsVouched(task[t], v) => FoundIsVouched(AfterStatus(t), v)
  <2>1. CASE task[t].ok /\ task[t].full
    <3>1. AfterStatus(t) = [task[t] EXCEPT !.pc = "ensure", !.status = "none"]
      BY <2>1 DEF AfterStatus
    <3>2. task[t] \in Local
      BY <1>1 DEF LocalOK
    <3>3. AfterStatus(t) \in Local
      BY <3>1, <3>2 DEF Local, Labels
    <3>4. /\ AfterStatus(t).pc = "ensure"
          /\ AfterStatus(t).claim = task[t].claim
          /\ AfterStatus(t).found = task[t].found
          /\ AfterStatus(t).todo = task[t].todo
          /\ AfterStatus(t).full = task[t].full
          /\ AfterStatus(t).ok = task[t].ok
      BY <3>1, <3>2 DEF Local
    <3>5. LocalOK(AfterStatus(t))
      BY <1>1, <2>1, <3>3, <3>4 DEF LocalOK
    <3>6. \A v : FoundIsVouched(task[t], v) => FoundIsVouched(AfterStatus(t), v)
      BY <1>1, <2>1, <3>4 DEF FoundIsVouched
    <3> QED
      BY <3>5, <3>6
  <2>2. CASE ~(task[t].ok /\ task[t].full)
    BY <2>2, IdleOK DEF AfterStatus
  <2> QED
    BY <2>1, <2>2
<1>5. rows' \in [Claims -> {NoRow} \cup Row]
  BY <1>2, StatusKeepsRows DEF SetStatus, IInv
<1>6. CleanOK' /\ results' \in 0 .. MaxResults
  BY DEF IInv, CleanOK, SetStatus
<1>7. CASE task[t].ok
  <2>1. UNCHANGED <<owner, vouched>>
    BY <1>7 DEF SetStatus
  <2>2. TasksOK'
    <3>1. FoundIsVouched(AfterStatus(t), vouched')
      BY <1>1, <1>4, <2>1
    <3> QED
      BY <1>3, <1>4, <2>1, <3>1, GotoKeeps DEF IInv
  <2> QED
    BY <1>5, <1>6, <2>1, <2>2 DEF IInv, TablesOK, AssignmentIsVouched
<1>8. CASE ~task[t].ok
  <2> DEFINE kept == UNION {task[x].found : x \in InFlight(c)}
  <2>1. owner' = WithoutGpusOf(c) /\ vouched' = [vouched EXCEPT ![c] = kept]
    BY <1>8 DEF SetStatus, AfterFailure
  <2>2. kept \in SUBSET Gpus
    BY DEF IInv, TasksOK, Local, InFlight
  <2>3. TablesOK'
    BY <1>2, <1>5, <2>1, <2>2 DEF IInv, TablesOK, WithoutGpusOf
  <2>4. \A x \in InFlight(c) : task[x].found \subseteq kept
    OBVIOUS
  <2> HIDE DEF kept
  <2>5. AfterStatus(t) = Idle
    BY <1>8 DEF AfterStatus
  <2>6. task' = [task EXCEPT ![t] = Idle]
    BY <1>3, <2>5 DEF Goto
  <2>7. ASSUME NEW x \in Tasks
        PROVE  LocalOK(task'[x]) /\ FoundIsVouched(task'[x], vouched')
    <3>1. CASE x = t
      <4>1. task'[x] = Idle
        BY <3>1, <2>6 DEF IInv, TasksOK
      <4> QED
        BY <4>1, IdleOK
    <3>2. CASE x # t
      <4>1. task'[x] = task[x]
        BY <3>2, <2>6 DEF IInv, TasksOK
      <4>2. LocalOK(task[x]) /\ FoundIsVouched(task[x], vouched)
        BY DEF IInv, TasksOK
      <4>3. FoundIsVouched(task[x], vouched')
        <5>1. SUFFICES ASSUME task[x].pc # "idle", task[x].full, task[x].ok
                       PROVE  task[x].found \subseteq vouched'[task[x].claim]
          BY DEF FoundIsVouched
        <5>2. task[x].claim \in Claims /\ task[x].found \subseteq vouched[task[x].claim]
          BY <4>2, <5>1 DEF LocalOK, FoundIsVouched
        <5>3. CASE task[x].claim = c
          <6>1. x \in InFlight(c)
            BY <5>1, <5>3 DEF InFlight
          <6>2. vouched'[c] = kept
            BY <1>2, <2>1 DEF IInv, TablesOK
          <6> QED
            BY <2>4, <5>3, <6>1, <6>2
        <5>4. CASE task[x].claim # c
          <6>1. vouched'[task[x].claim] = vouched[task[x].claim]
            BY <2>1, <5>2, <5>4 DEF IInv, TablesOK
          <6> QED
            BY <5>2, <6>1
        <5> QED
          BY <5>3, <5>4
      <4> QED
        BY <4>1, <4>2, <4>3
    <3> QED
      BY <3>1, <3>2
  <2>8. TasksOK'
    <3>1. Idle \in Local
      BY IdleOK DEF LocalOK
    <3>2. task' \in [Tasks -> Local]
      BY <2>6, <3>1 DEF IInv, TasksOK
    <3> QED
      BY <2>7, <3>2 DEF TasksOK
  <2>9. AssignmentIsVouched'
    <3>1. ASSUME NEW g \in Gpus, owner'[g] # NoClaim
          PROVE  g \in vouched'[owner'[g]]
      <4>1. owner[g] # c /\ owner'[g] = owner[g]
        BY <2>1, <3>1 DEF WithoutGpusOf
      <4>2. owner[g] \in Claims /\ g \in vouched[owner[g]]
        BY <3>1, <4>1 DEF IInv, TablesOK, AssignmentIsVouched
      <4>3. vouched'[owner[g]] = vouched[owner[g]]
        BY <2>1, <4>1, <4>2 DEF IInv, TablesOK
      <4> QED
        BY <4>1, <4>2, <4>3
    <3> QED
      BY <3>1 DEF AssignmentIsVouched
  <2> QED
    BY <1>6, <2>3, <2>8, <2>9 DEF IInv
<1> QED
  BY <1>7, <1>8

-----------------------------------------------------------------------------
(* The rows of executors.                                                  *)

\* A later statement of a full success.
LEMMA Storing ==
  ASSUME IInv, NEW t \in Tasks, task[t].pc \notin {"idle", "read", "status"}
  PROVE  /\ LocalOK(task[t]) /\ task[t] \in Local /\ task[t].full /\ task[t].ok
         /\ task[t].claim \in Claims
         /\ task[t].found \subseteq vouched[task[t].claim]
BY DEF IInv, TasksOK, LocalOK, FoundIsVouched

\* Such a statement leaves the result alone.
LEMMA SameResult ==
  ASSUME IInv, NEW t \in Tasks, task[t].pc \notin {"idle", "read", "status"},
         NEW l \in Local, l.claim = task[t].claim, l.found = task[t].found,
         l.full = task[t].full, l.ok = task[t].ok, l.todo \subseteq l.found,
         l.pc = "final" => l.status \in Statuses, l.pc # "status",
         l.pc \in {"new", "other", "take"} => l.item \in l.found
  PROVE  LocalOK(l) /\ FoundIsVouched(l, vouched)
BY Storing DEF LocalOK, FoundIsVouched

LEMMA EnsureRelationshipKeeps ==
  ASSUME IInv, NEW t \in Tasks, EnsureRelationship(t)
  PROVE  IInv'
<1> DEFINE l == [task[t] EXCEPT !.pc = IF Exists(task[t].claim) THEN "duplicates" ELSE "address"]
<1>1. Goto(t, l) /\ Reads /\ task[t].pc = "ensure"
  BY DEF EnsureRelationship, At
<1>2. LocalOK(task[t]) /\ task[t] \in Local
  BY <1>1, Storing
<1>3. l \in Local
  BY <1>2 DEF Local, Labels
<1>4. LocalOK(l) /\ FoundIsVouched(l, vouched)
  BY <1>1, <1>2, <1>3, SameResult DEF Local, LocalOK
<1> QED
  BY <1>1, <1>4, ReadKeeps

LEMMA CheckAddressKeeps ==
  ASSUME IInv, NEW t \in Tasks, CheckAddress(t)
  PROVE  IInv'
<1>1. Reads /\ task[t].pc = "address"
  BY DEF CheckAddress, At
<1>2. LocalOK(task[t]) /\ task[t] \in Local
  BY <1>1, Storing
<1>3. CASE Goto(t, Idle)
  BY <1>1, <1>3, GiveUpKeeps
<1>4. CASE Goto(t, [task[t] EXCEPT !.pc = "old"])
  <2> DEFINE l == [task[t] EXCEPT !.pc = "old"]
  <2>1. l \in Local
    BY <1>2 DEF Local, Labels
  <2>2. LocalOK(l) /\ FoundIsVouched(l, vouched)
    BY <1>1, <1>2, <2>1, SameResult DEF Local, LocalOK
  <2> QED
    BY <1>1, <1>4, <2>2, ReadKeeps
<1> QED
  BY <1>3, <1>4 DEF CheckAddress

LEMMA FindOldIdKeeps ==
  ASSUME IInv, NEW t \in Tasks, FindOldId(t)
  PROVE  IInv'
<1>1. Reads /\ task[t].pc = "old"
  BY DEF FindOldId, At
<1>2. LocalOK(task[t]) /\ task[t] \in Local
  BY <1>1, Storing
<1>3. CASE Goto(t, [task[t] EXCEPT !.pc = "insert"])
  <2> DEFINE l == [task[t] EXCEPT !.pc = "insert"]
  <2>1. l \in Local
    BY <1>2 DEF Local, Labels
  <2>2. LocalOK(l) /\ FoundIsVouched(l, vouched)
    BY <1>1, <1>2, <2>1, SameResult DEF Local, LocalOK
  <2> QED
    BY <1>1, <1>3, <2>2, ReadKeeps
<1>4. ASSUME NEW d \in Claims, Goto(t, [task[t] EXCEPT !.pc = "rename", !.others = {d}])
      PROVE  IInv'
  <2> DEFINE l == [task[t] EXCEPT !.pc = "rename", !.others = {d}]
  <2>1. l \in Local
    BY <1>2 DEF Local, Labels
  <2>2. LocalOK(l) /\ FoundIsVouched(l, vouched)
    BY <1>1, <1>2, <2>1, SameResult DEF Local, LocalOK
  <2> QED
    BY <1>1, <1>4, <2>2, ReadKeeps
<1> QED
  BY <1>3, <1>4 DEF FindOldId

\* The GPUs of the old id go to the new one, and so does what vouches for them.
LEMMA RenameKeeps ==
  ASSUME IInv, NEW t \in Tasks, Rename(t)
  PROVE  IInv'
<1> DEFINE c == task[t].claim
           l == [task[t] EXCEPT !.pc = "insert", !.others = {}]
<1>1. task[t].pc = "rename" /\ Goto(t, l) /\ UNCHANGED <<clean, results>>
  BY DEF Rename, At
<1>2. LocalOK(task[t]) /\ task[t] \in Local /\ c \in Claims
  BY <1>1, Storing
<1>3. PICK d \in task[t].others :
        /\ owner' = [g \in Gpus |-> IF owner[g] = d THEN c ELSE owner[g]]
        /\ rows' = [rows EXCEPT ![d] = NoRow]
        /\ vouched' = [vouched EXCEPT ![c] = @ \cup vouched[d]]
  BY DEF Rename
<1>4. d \in Claims
  BY <1>2 DEF Local
<1>5. TablesOK'
  BY <1>2, <1>3, <1>4 DEF IInv, TablesOK
<1>6. \A x \in Claims : vouched[x] \subseteq vouched'[x]
  BY <1>2, <1>3 DEF IInv, TablesOK
<1>7. l \in Local
  BY <1>2 DEF Local, Labels
<1>8. LocalOK(l) /\ FoundIsVouched(l, vouched)
  BY <1>1, <1>2, <1>7, SameResult DEF Local, LocalOK
<1>9. l.claim \in Claims
  BY <1>2 DEF Local
<1> HIDE DEF l
<1>10. TasksOK'
  <2>1. FoundIsVouched(l, vouched')
    BY <1>6, <1>8, <1>9 DEF FoundIsVouched
  <2> QED
    BY <1>1, <1>6, <1>8, <2>1, GotoKeeps DEF IInv
<1>11. AssignmentIsVouched'
  <2>1. ASSUME NEW g \in Gpus, owner'[g] # NoClaim
        PROVE  g \in vouched'[owner'[g]]
    <3>1. CASE owner[g] = d
      <4>1. owner'[g] = c
        BY <1>3, <3>1
      <4>2. g \in vouched[d]
        BY <1>4, <3>1, RegistryAssumption DEF IInv, AssignmentIsVouched
      <4>3. vouched'[c] = vouched[c] \cup vouched[d]
        BY <1>2, <1>3 DEF IInv, TablesOK
      <4> QED
        BY <4>1, <4>2, <4>3
    <3>2. CASE owner[g] # d
      <4>1. owner'[g] = owner[g]
        BY <1>3, <3>2
      <4>2. owner[g] \in Claims /\ g \in vouched[owner[g]]
        BY <2>1, <4>1 DEF IInv, TablesOK, AssignmentIsVouched
      <4> QED
        BY <1>6, <4>1, <4>2
    <3> QED
      BY <3>1, <3>2
  <2> QED
    BY <2>1 DEF AssignmentIsVouched
<1> QED
  BY <1>1, <1>5, <1>10, <1>11 DEF IInv, CleanOK

LEMMA InsertRowKeeps ==
  ASSUME IInv, NEW t \in Tasks, InsertRow(t)
  PROVE  IInv'
<1> DEFINE c == task[t].claim
           l == [task[t] EXCEPT !.pc = "purge"]
<1>1. task[t].pc = "insert" /\ Goto(t, l) /\ UNCHANGED <<owner, clean, results, vouched>>
  BY DEF InsertRow, At
<1>2. LocalOK(task[t]) /\ task[t] \in Local /\ c \in Claims
  BY <1>1, Storing
<1>3. rows' \in [Claims -> {NoRow} \cup Row]
  <2>1. 0 \in Counts
    BY IdleOK DEF LocalOK, Idle, Local
  <2>2. [status |-> "online", count |-> 0] \in Row
    BY <2>1 DEF Row, Statuses, Active
  <2> QED
    BY <1>2, <2>2 DEF InsertRow, IInv, TablesOK
<1>4. l \in Local
  BY <1>2 DEF Local, Labels
<1>5. LocalOK(l) /\ FoundIsVouched(l, vouched)
  BY <1>1, <1>2, <1>4, SameResult DEF Local, LocalOK
<1>6. TasksOK'
  BY <1>1, <1>5, GotoKeeps DEF IInv
<1> QED
  BY <1>1, <1>3, <1>6 DEF IInv, TablesOK, CleanOK, AssignmentIsVouched

LEMMA FindDuplicatesKeeps ==
  ASSUME IInv, NEW t \in Tasks, FindDuplicates(t)
  PROVE  IInv'
<1> DEFINE dups == SameAddress(task[t].claim)
           l == [task[t] EXCEPT !.pc = IF dups = {} THEN "purge" ELSE "offline", !.others = dups]
<1>1. task[t].pc = "duplicates" /\ Goto(t, l) /\ Reads
  BY DEF FindDuplicates, At
<1>2. LocalOK(task[t]) /\ task[t] \in Local
  BY <1>1, Storing
<1>3. dups \in SUBSET Claims
  BY DEF SameAddress
<1> HIDE DEF dups
<1>4. l \in Local
  BY <1>2, <1>3 DEF Local, Labels
<1>5. LocalOK(l) /\ FoundIsVouched(l, vouched)
  BY <1>1, <1>2, <1>4, SameResult DEF Local, LocalOK
<1> QED
  BY <1>1, <1>5, ReadKeeps

LEMMA DuplicateOfflineKeeps ==
  ASSUME IInv, NEW t \in Tasks, DuplicateOffline(t)
  PROVE  IInv'
<1>1. PICK d \in task[t].others :
        rows' = WithStatus({d}, "offline")
        /\ Goto(t, [task[t] EXCEPT !.pc = "forget", !.item = d])
  BY DEF DuplicateOffline
<1> DEFINE l == [task[t] EXCEPT !.pc = "forget", !.item = d]
<1>2. task[t].pc = "offline" /\ UNCHANGED <<owner, clean, results, vouched>>
  BY DEF DuplicateOffline, At
<1>3. LocalOK(task[t]) /\ task[t] \in Local
  BY <1>2, Storing
<1>4. d \in Claims
  BY <1>3 DEF Local
<1>5. l \in Local
  BY <1>3, <1>4 DEF Local, Labels
<1>6. LocalOK(l) /\ FoundIsVouched(l, vouched)
  BY <1>2, <1>3, <1>5, SameResult DEF Local, LocalOK
<1>7. TasksOK'
  BY <1>1, <1>2, <1>6, GotoKeeps DEF IInv
<1>8. rows' \in [Claims -> {NoRow} \cup Row]
  BY <1>1, StatusKeepsRows DEF IInv, Statuses
<1> QED
  BY <1>2, <1>7, <1>8 DEF IInv, TablesOK, CleanOK, AssignmentIsVouched

LEMMA ForgetDuplicateKeeps ==
  ASSUME IInv, NEW t \in Tasks, ForgetDuplicate(t)
  PROVE  IInv'
<1> DEFINE d == task[t].item
           rest == task[t].others \ {d}
           l == [task[t] EXCEPT !.pc = IF rest = {} THEN "purge" ELSE "offline",
                                !.others = rest, !.item = None]
<1>1. task[t].pc = "forget" /\ Goto(t, l) /\ UNCHANGED <<rows, clean, results, vouched>>
  BY DEF ForgetDuplicate, At
<1>2. LocalOK(task[t]) /\ task[t] \in Local
  BY <1>1, Storing
<1>3. rest \in SUBSET Claims
  BY <1>2 DEF Local
<1>4. /\ owner' \in [Gpus -> Claims \cup {NoClaim}]
      /\ \A g \in Gpus : owner'[g] = owner[g] \/ owner'[g] = NoClaim
  BY DEF ForgetDuplicate, IInv, TablesOK
<1>5. TablesOK' /\ AssignmentIsVouched'
  BY <1>1, <1>4, DeletingKeeps DEF IInv, TablesOK
<1> HIDE DEF rest
<1>6. l \in Local
  BY <1>2, <1>3 DEF Local, Labels
<1>7. LocalOK(l) /\ FoundIsVouched(l, vouched)
  BY <1>1, <1>2, <1>6, SameResult DEF Local, LocalOK
<1>8. TasksOK'
  BY <1>1, <1>7, GotoKeeps DEF IInv
<1> QED
  BY <1>1, <1>5, <1>8 DEF IInv, CleanOK

-----------------------------------------------------------------------------
(* The assignments.                                                        *)

LEMMA PurgeKeeps ==
  ASSUME IInv, NEW t \in Tasks, Purge(t)
  PROVE  IInv'
<1> DEFINE l == [task[t] EXCEPT !.pc = "gpu", !.todo = task[t].found]
<1>1. task[t].pc = "purge" /\ Goto(t, l) /\ UNCHANGED <<rows, clean, results, vouched>>
  BY DEF Purge, At
<1>2. LocalOK(task[t]) /\ task[t] \in Local
  BY <1>1, Storing
<1>3. /\ owner' \in [Gpus -> Claims \cup {NoClaim}]
      /\ \A g \in Gpus : owner'[g] = owner[g] \/ owner'[g] = NoClaim
  BY DEF Purge, IInv, TablesOK
<1>4. TablesOK' /\ AssignmentIsVouched'
  BY <1>1, <1>3, DeletingKeeps DEF IInv, TablesOK
<1>5. l \in Local
  BY <1>2 DEF Local, Labels
<1>6. LocalOK(l) /\ FoundIsVouched(l, vouched)
  BY <1>1, <1>2, <1>5, SameResult DEF Local, LocalOK
<1>7. TasksOK'
  BY <1>1, <1>6, GotoKeeps DEF IInv
<1> QED
  BY <1>1, <1>4, <1>7 DEF IInv, CleanOK

LEMMA NextGpuKeeps ==
  ASSUME IInv, NEW t \in Tasks, NextGpu(t)
  PROVE  IInv'
<1>1. task[t].pc = "gpu" /\ Reads
  BY DEF NextGpu, At
<1>2. LocalOK(task[t]) /\ task[t] \in Local
  BY <1>1, Storing
<1>3. PICK g \in task[t].todo :
        LET next == [task[t] EXCEPT !.todo = @ \ {g}, !.item = g]
        IN  Goto(t, CASE owner[g] = NoClaim -> [next EXCEPT !.pc = "new"]
                      [] owner[g] = task[t].claim -> [next EXCEPT !.item = None]
                      [] OTHER -> [next EXCEPT !.pc = "other", !.others = {owner[g]}])
  BY DEF NextGpu
<1> DEFINE next == [task[t] EXCEPT !.todo = @ \ {g}, !.item = g]
<1>4. g \in Gpus /\ g \in task[t].found /\ task[t].todo \subseteq task[t].found
  BY <1>2 DEF LocalOK, Local
<1>5. /\ next \in Local
      /\ next.claim = task[t].claim /\ next.found = task[t].found /\ next.full = task[t].full
      /\ next.ok = task[t].ok /\ next.todo \subseteq next.found /\ next.pc = "gpu"
      /\ next.item = g
  BY <1>1, <1>2, <1>4 DEF Local
<1> HIDE DEF next
<1>6. CASE owner[g] = NoClaim
  <2> DEFINE l == [next EXCEPT !.pc = "new"]
  <2>4. owner[g] # task[t].claim
    BY <1>1, <1>6, Storing, RegistryAssumption
  <2>1. Goto(t, l)
    BY <1>3, <1>6, <2>4 DEF next
  <2>2. l \in Local
    BY <1>5 DEF Local, Labels
  <2>3. LocalOK(l) /\ FoundIsVouched(l, vouched)
    BY <1>1, <1>4, <1>5, <2>2, SameResult DEF Local
  <2> QED
    BY <1>1, <2>1, <2>3, ReadKeeps
<1>7. CASE owner[g] # NoClaim /\ owner[g] = task[t].claim
  <2> DEFINE l == [next EXCEPT !.item = None]
  <2>1. Goto(t, l)
    BY <1>3, <1>7 DEF next
  <2>2. l \in Local
    BY <1>5 DEF Local, Labels
  <2>3. LocalOK(l) /\ FoundIsVouched(l, vouched)
    BY <1>1, <1>4, <1>5, <2>2, SameResult DEF Local
  <2> QED
    BY <1>1, <2>1, <2>3, ReadKeeps
<1>8. CASE owner[g] # NoClaim /\ owner[g] # task[t].claim
  <2> DEFINE l == [next EXCEPT !.pc = "other", !.others = {owner[g]}]
  <2>1. Goto(t, l)
    BY <1>3, <1>8 DEF next
  <2>2. l \in Local
    <3>1. {owner[g]} \in SUBSET Claims
      BY <1>4, <1>8 DEF IInv, TablesOK
    <3> QED
      BY <1>5, <3>1 DEF Local, Labels
  <2>3. LocalOK(l) /\ FoundIsVouched(l, vouched)
    BY <1>1, <1>4, <1>5, <2>2, SameResult DEF Local
  <2> QED
    BY <1>1, <2>1, <2>3, ReadKeeps
<1> QED
  BY <1>6, <1>7, <1>8

\* An assignment that a full success makes is of a GPU that it found.
LEMMA AssigningKeeps ==
  ASSUME IInv, NEW t \in Tasks, task[t].pc \in {"new", "take"},
         NEW n \in {task[t].claim, owner[task[t].item]},
         owner' = [owner EXCEPT ![task[t].item] = n],
         Goto(t, [task[t] EXCEPT !.pc = "gpu", !.item = None]),
         UNCHANGED <<rows, clean, results, vouched>>
  PROVE  IInv'
<1> DEFINE c == task[t].claim
           h == task[t].item
           l == [task[t] EXCEPT !.pc = "gpu", !.item = None]
<1>1. /\ LocalOK(task[t]) /\ task[t] \in Local /\ c \in Claims
      /\ task[t].found \subseteq vouched[c]
  BY Storing
<1>2. h \in task[t].found /\ h \in Gpus
  BY <1>1 DEF LocalOK, Local
<1>3. l \in Local
  BY <1>1 DEF Local, Labels
<1>4. LocalOK(l) /\ FoundIsVouched(l, vouched)
  BY <1>1, <1>3, SameResult DEF Local, LocalOK
<1>5. TasksOK'
  BY <1>4, GotoKeeps DEF IInv
<1>6. TablesOK'
  BY <1>1, <1>2 DEF IInv, TablesOK
<1>7. AssignmentIsVouched'
  BY <1>1, <1>2 DEF IInv, TablesOK, AssignmentIsVouched
<1> QED
  BY <1>5, <1>6, <1>7 DEF IInv, CleanOK

LEMMA InsertGpuKeeps ==
  ASSUME IInv, NEW t \in Tasks, InsertGpu(t)
  PROVE  IInv'
<1>1. task[t].pc = "new" /\ UNCHANGED <<rows, clean, results, vouched>>
  BY DEF InsertGpu, At
<1>2. CASE Goto(t, Idle) /\ UNCHANGED owner
  BY <1>1, <1>2, GiveUpKeeps DEF Reads
<1>3. CASE /\ owner' = [owner EXCEPT ![task[t].item] = task[t].claim]
           /\ Goto(t, [task[t] EXCEPT !.pc = "gpu", !.item = None])
  BY <1>1, <1>3, AssigningKeeps
<1> QED
  BY <1>2, <1>3 DEF InsertGpu

LEMMA CheckOtherKeeps ==
  ASSUME IInv, NEW t \in Tasks, CheckOther(t)
  PROVE  IInv'
<1>1. task[t].pc = "other" /\ Reads
  BY DEF CheckOther, At
<1>2. LocalOK(task[t]) /\ task[t] \in Local
  BY <1>1, Storing
<1>3. CASE Goto(t, [task[t] EXCEPT !.pc = "gpu", !.others = {}, !.item = None])
  <2> DEFINE l == [task[t] EXCEPT !.pc = "gpu", !.others = {}, !.item = None]
  <2>1. l \in Local
    BY <1>2 DEF Local, Labels
  <2>2. LocalOK(l) /\ FoundIsVouched(l, vouched)
    BY <1>1, <1>2, <2>1, SameResult DEF Local, LocalOK
  <2> QED
    BY <1>1, <1>3, <2>2, ReadKeeps
<1>4. CASE Goto(t, [task[t] EXCEPT !.pc = "take", !.others = {}])
  <2> DEFINE l == [task[t] EXCEPT !.pc = "take", !.others = {}]
  <2>1. l \in Local
    BY <1>2 DEF Local, Labels
  <2>2. LocalOK(l) /\ FoundIsVouched(l, vouched)
    BY <1>1, <1>2, <2>1, SameResult DEF Local, LocalOK
  <2> QED
    BY <1>1, <1>4, <2>2, ReadKeeps
<1> QED
  BY <1>3, <1>4 DEF CheckOther

LEMMA TakeGpuKeeps ==
  ASSUME IInv, NEW t \in Tasks, TakeGpu(t)
  PROVE  IInv'
<1> DEFINE n == IF owner[task[t].item] = NoClaim THEN owner[task[t].item] ELSE task[t].claim
<1>1. task[t].pc = "take" /\ UNCHANGED <<rows, clean, results, vouched>>
      /\ Goto(t, [task[t] EXCEPT !.pc = "gpu", !.item = None])
      /\ owner' = [owner EXCEPT ![task[t].item] = n]
  BY DEF TakeGpu, At
<1>2. n \in {task[t].claim, owner[task[t].item]}
  OBVIOUS
<1> HIDE DEF n
<1> QED
  BY <1>1, <1>2, AssigningKeeps

LEMMA CountGpusKeeps ==
  ASSUME IInv, NEW t \in Tasks, CountGpus(t)
  PROVE  IInv'
<1> DEFINE n == Cardinality(Held(task[t].claim))
           l == [task[t] EXCEPT !.pc = "current", !.count = n]
<1>1. task[t].pc = "gpu" /\ Reads /\ Goto(t, l)
  BY DEF CountGpus, At
<1>2. LocalOK(task[t]) /\ task[t] \in Local
  BY <1>1, Storing
<1>3. n \in Counts
  BY HeldCount
<1> HIDE DEF n
<1>4. l \in Local
  BY <1>2, <1>3 DEF Local, Labels
<1>5. LocalOK(l) /\ FoundIsVouched(l, vouched)
  BY <1>1, <1>2, <1>4, SameResult DEF Local, LocalOK
<1> QED
  BY <1>1, <1>5, ReadKeeps

LEMMA ReadCurrentKeeps ==
  ASSUME IInv, NEW t \in Tasks, ReadCurrent(t)
  PROVE  IInv'
<1> DEFINE c == task[t].claim
<1>1. task[t].pc = "current" /\ Reads
  BY DEF ReadCurrent, At
<1>2. LocalOK(task[t]) /\ task[t] \in Local /\ c \in Claims
  BY <1>1, Storing
<1>3. CASE Exists(c)
  <2> DEFINE l == [task[t] EXCEPT !.pc = "final", !.status = rows[c].status]
  <2>1. rows[c].status \in Statuses
    BY <1>2, <1>3 DEF Exists, IInv, TablesOK, Row
  <2>2. l \in Local
    BY <1>2, <2>1 DEF Local, Labels
  <2>3. LocalOK(l) /\ FoundIsVouched(l, vouched)
    BY <1>1, <1>2, <2>1, <2>2, SameResult DEF Local, LocalOK
  <2>4. Goto(t, l)
    BY <1>3 DEF ReadCurrent
  <2> QED
    BY <1>1, <2>3, <2>4, ReadKeeps
<1>4. CASE ~Exists(c)
  BY <1>1, <1>4, GiveUpKeeps DEF ReadCurrent
<1> QED
  BY <1>3, <1>4

LEMMA WriteRowKeeps ==
  ASSUME IInv, NEW t \in Tasks, WriteRow(t)
  PROVE  IInv'
<1> DEFINE c == task[t].claim
           n == task[t].count
           s == NewStatus(task[t].status, n > 0)
<1>1. task[t].pc = "final" /\ Goto(t, Idle) /\ UNCHANGED <<owner, clean, results, vouched>>
  BY DEF WriteRow, At
<1>2. LocalOK(task[t]) /\ task[t] \in Local /\ c \in Claims
  BY <1>1, Storing
<1>3. s \in Statuses /\ n \in Counts
  BY <1>2 DEF NewStatus, Statuses, Active, Local
<1>4. rows' = IF ~Exists(c) THEN rows ELSE [rows EXCEPT ![c] = [status |-> s, count |-> n]]
  BY DEF WriteRow
<1> HIDE DEF s, n
<1>5. rows' \in [Claims -> {NoRow} \cup Row]
  BY <1>2, <1>3, <1>4 DEF IInv, TablesOK, Row
<1>6. TasksOK'
  BY <1>1, IdleOK, GotoKeeps DEF IInv
<1> QED
  BY <1>1, <1>5, <1>6 DEF IInv, TablesOK, CleanOK, AssignmentIsVouched

-----------------------------------------------------------------------------
(* The clean-ups, which only delete assignments.                           *)

LEMMA CleanKeeps ==
  ASSUME IInv, UNCHANGED <<task, results, vouched>>, CleanOK',
         rows' \in [Claims -> {NoRow} \cup Row],
         owner' \in [Gpus -> Claims \cup {NoClaim}],
         \A g \in Gpus : owner'[g] = owner[g] \/ owner'[g] = NoClaim
  PROVE  IInv'
<1>1. AssignmentIsVouched'
  BY DeletingKeeps DEF IInv
<1>2. TasksOK'
  BY DEF IInv, TasksOK
<1> QED
  BY <1>1, <1>2 DEF IInv, TablesOK

LEMMA CleanIdleOK == CleanIdle \in CleanLocal
BY DEF CleanIdle, CleanLocal, CleanLabels

\* A query of the clean-up.
LEMMA FindingKeeps ==
  ASSUME IInv, FindOffline \/ FindMismatched \/ FindLongOffline \/ FindFailed \/ CleanFails
  PROVE  IInv'
<1> USE DEF IInv, TablesOK
<1>1. ASSUME NEW found \in SUBSET Claims, NEW p \in CleanLabels,
             clean' = [CleanIdle EXCEPT !.pc = p, !.claims = found]
      PROVE  CleanOK'
  BY <1>1, CleanIdleOK DEF CleanOK, CleanLocal
<1>2. ASSUME NEW found \in SUBSET Claims, NEW p \in CleanLabels,
             clean' = [clean EXCEPT !.pc = p, !.claims = found]
      PROVE  CleanOK'
  BY <1>2 DEF CleanOK, CleanLocal
<1>3. CASE FindOffline
  <2>1. CleanOK'
    BY <1>1, <1>3 DEF FindOffline, Offline, Loop, CleanLabels
  <2> QED
    BY <1>3, <2>1, CleanKeeps DEF FindOffline
<1>4. CASE FindMismatched
  <2>1. CleanOK'
    BY <1>4 DEF FindMismatched, Mismatched, Loop, CleanOK, CleanLocal, CleanLabels
  <2> QED
    BY <1>4, <2>1, CleanKeeps DEF FindMismatched
<1>5. CASE FindFailed
  <2>1. CleanOK'
    BY <1>2, <1>5 DEF FindFailed, Offline, Loop, CleanLabels
  <2> QED
    BY <1>5, <2>1, CleanKeeps DEF FindFailed
<1>6. CASE CleanFails
  <2>1. CleanOK'
    BY <1>6, CleanIdleOK DEF CleanFails, CleanOK
  <2> QED
    BY <1>6, <2>1, CleanKeeps DEF CleanFails
<1>7. CASE FindLongOffline
  <2>1. CleanOK'
    BY <1>2, <1>7 DEF FindLongOffline, Offline, Loop, CleanLabels
  <2> QED
    BY <1>7, <2>1, CleanKeeps DEF FindLongOffline
<1> QED
  BY <1>3, <1>4, <1>5, <1>6, <1>7

\* A statement that deletes assignments or rows.
LEMMA CleanDeletesKeeps ==
  ASSUME IInv, ForgetOffline \/ DeleteStale \/ ForgetLongOffline \/ DeleteFailed \/ DeleteLongOffline
  PROVE  IInv'
<1> USE DEF IInv, TablesOK
<1>1. CASE ForgetOffline
  <2>1. CleanOK'
    BY <1>1 DEF ForgetOffline, Loop, CleanOK, CleanLocal, CleanLabels
  <2> QED
    BY <1>1, <2>1, CleanKeeps DEF ForgetOffline, WithoutGpusOf
<1>2. CASE DeleteStale
  <2>1. CleanOK'
    BY <1>2 DEF DeleteStale, CleanOK, CleanLocal, CleanLabels
  <2> QED
    BY <1>2, <2>1, CleanKeeps DEF DeleteStale
<1>3. CASE DeleteFailed
  <2>1. CleanOK'
    BY <1>3 DEF DeleteFailed, Loop, CleanOK, CleanLocal, CleanLabels
  <2> QED
    BY <1>3, <2>1, CleanKeeps DEF DeleteFailed, WithoutGpusOf
<1>4. CASE DeleteLongOffline
  <2>1. CleanOK'
    BY <1>4, CleanIdleOK DEF DeleteLongOffline, CleanOK
  <2> QED
    BY <1>4, <2>1, CleanKeeps DEF DeleteLongOffline
<1>5. CASE ForgetLongOffline
  <2>1. CleanOK'
    BY <1>5 DEF ForgetLongOffline, Loop, CleanOK, CleanLocal, CleanLabels
  <2> QED
    BY <1>5, <2>1, CleanKeeps DEF ForgetLongOffline, WithoutGpusOf
<1> QED
  BY <1>1, <1>2, <1>3, <1>4, <1>5

\* A statement that updates a row.
LEMMA CleanUpdatesKeeps ==
  ASSUME IInv, ResetCount \/ MarkOffline
  PROVE  IInv'
<1>1. CASE ResetCount
  <2>1. PICK c \in clean.claims :
          /\ rows' = IF Exists(c) THEN [rows EXCEPT ![c].count = 0] ELSE rows
          /\ clean' = IF c \in clean.active
                      THEN [clean EXCEPT !.pc = "mark", !.claims = @ \ {c}, !.item = c]
                      ELSE [clean EXCEPT !.pc = Loop(clean.claims \ {c}, @, "stale"),
                                         !.claims = @ \ {c}]
    BY <1>1 DEF ResetCount
  <2>2. c \in Claims
    BY DEF IInv, CleanOK, CleanLocal
  <2>3. CleanOK'
    BY <2>1, <2>2 DEF IInv, CleanOK, Loop, CleanLocal, CleanLabels
  <2>4. 0 \in Counts
    BY IdleOK DEF LocalOK, Idle, Local
  <2>5. rows' \in [Claims -> {NoRow} \cup Row]
    BY <2>1, <2>2, <2>4 DEF IInv, TablesOK, Exists, Row
  <2> QED
    BY <1>1, <2>3, <2>5, CleanKeeps DEF ResetCount, IInv, TablesOK
<1>2. CASE MarkOffline
  <2>1. CleanOK'
    BY <1>2 DEF MarkOffline, Loop, IInv, CleanOK, CleanLocal, CleanLabels
  <2>2. rows' \in [Claims -> {NoRow} \cup Row]
    BY <1>2, StatusKeepsRows DEF MarkOffline, IInv, Statuses
  <2> QED
    BY <1>2, <2>1, <2>2, CleanKeeps DEF MarkOffline, IInv, TablesOK
<1> QED
  BY <1>1, <1>2

\* The transaction of the second clean-up.
LEMMA StaleKeeps ==
  ASSUME IInv, CleanupStaleExecutors
  PROVE  IInv'
<1>1. PICK stale \in SUBSET Claims :
        /\ owner' = [g \in Gpus |-> IF owner[g] \in stale THEN NoClaim ELSE owner[g]]
        /\ rows' = WithStatus(stale, "offline")
  BY DEF CleanupStaleExecutors
<1>2. UNCHANGED <<task, clean, results, vouched>>
  BY DEF CleanupStaleExecutors
<1>3. rows' \in [Claims -> {NoRow} \cup Row]
  BY <1>1, StatusKeepsRows DEF IInv, Statuses
<1>4. /\ owner' \in [Gpus -> Claims \cup {NoClaim}]
      /\ \A g \in Gpus : owner'[g] = owner[g] \/ owner'[g] = NoClaim
  BY <1>1 DEF IInv, TablesOK
<1>5. CleanOK'
  BY <1>2 DEF IInv, CleanOK
<1> QED
  BY <1>2, <1>3, <1>4, <1>5, CleanKeeps

-----------------------------------------------------------------------------

LEMMA InitOK == Init => IInv
<1> SUFFICES ASSUME Init
             PROVE  IInv
  OBVIOUS
<1>1. TablesOK
  <2>1. ASSUME NEW c \in Claims
        PROVE  [status |-> "online", count |-> Cardinality(Held(c))] \in Row
    BY HeldCount DEF Row, Statuses, Active
  <2>2. rows \in [Claims -> {NoRow} \cup Row]
    BY <2>1 DEF Init
  <2>3. vouched \in [Claims -> SUBSET Gpus]
    BY DEF Init, Held
  <2> QED
    BY <2>2, <2>3 DEF Init, TablesOK
<1>2. CleanOK
  BY CleanIdleOK DEF Init, CleanOK
<1>3. TasksOK
  BY IdleOK DEF Init, TasksOK, LocalOK
<1>4. results \in 0 .. MaxResults
  BY RegistryAssumption DEF Init
<1>5. AssignmentIsVouched
  BY <1>1 DEF Init, TablesOK, AssignmentIsVouched, Held
<1> QED
  BY <1>1, <1>2, <1>3, <1>4, <1>5 DEF IInv

LEMMA TaskStepKeeps ==
  ASSUME IInv, NEW t \in Tasks, TaskStep(t)
  PROVE  IInv'
<1>1. CASE \E c \in Claims : Begin(t, c, FALSE, FALSE, {}) \/ Begin(t, c, FALSE, TRUE, {})
  <2>1. {} \in SUBSET Gpus /\ FALSE \in BOOLEAN /\ TRUE \in BOOLEAN
    OBVIOUS
  <2> QED
    BY <1>1, <2>1, BeginKeeps
<1>2. CASE \E c \in Claims, found \in SUBSET Gpus : Begin(t, c, TRUE, TRUE, found)
  BY <1>2, BeginKeeps
<1>3. CASE ReadStatus(t) \/ SetStatus(t)
  BY <1>3, ReadStatusKeeps, SetStatusKeeps
<1>4. CASE EnsureRelationship(t) \/ CheckAddress(t) \/ FindOldId(t) \/ Rename(t) \/ InsertRow(t)
  BY <1>4, EnsureRelationshipKeeps, CheckAddressKeeps, FindOldIdKeeps, RenameKeeps, InsertRowKeeps
<1>5. CASE FindDuplicates(t) \/ DuplicateOffline(t) \/ ForgetDuplicate(t)
  BY <1>5, FindDuplicatesKeeps, DuplicateOfflineKeeps, ForgetDuplicateKeeps
<1>6. CASE Purge(t) \/ NextGpu(t) \/ InsertGpu(t) \/ CheckOther(t) \/ TakeGpu(t)
  BY <1>6, PurgeKeeps, NextGpuKeeps, InsertGpuKeeps, CheckOtherKeeps, TakeGpuKeeps
<1>7. CASE CountGpus(t) \/ ReadCurrent(t) \/ WriteRow(t)
  BY <1>7, CountGpusKeeps, ReadCurrentKeeps, WriteRowKeeps
<1> QED
  BY <1>1, <1>2, <1>3, <1>4, <1>5, <1>6, <1>7 DEF TaskStep

LEMMA StepKeeps == IInv /\ [Next]_vars => IInv'
<1> SUFFICES ASSUME IInv, [Next]_vars
             PROVE  IInv'
  OBVIOUS
<1>1. ASSUME NEW t \in Tasks, TaskStep(t)
      PROVE  IInv'
  BY <1>1, TaskStepKeeps
<1>2. ASSUME NEW t \in Tasks, TaskFails(t)
      PROVE  IInv'
  BY <1>2, GiveUpKeeps DEF TaskFails
<1>3. CASE CleanStep \/ CleanFails \/ CleanupStaleExecutors
  BY <1>3, FindingKeeps, CleanDeletesKeeps, CleanUpdatesKeeps, StaleKeeps DEF CleanStep
<1>4. CASE UNCHANGED vars
  BY <1>4 DEF vars, IInv, TablesOK, CleanOK, TasksOK, AssignmentIsVouched
<1> QED
  BY <1>1, <1>2, <1>3, <1>4 DEF Next

\* The inductive invariant holds in every reachable state.
THEOREM Inductive == Spec => []IInv
BY InitOK, StepKeeps, PTL DEF Spec

\* Rows, assignments and local states keep their types: only a full success gets to
\* the tables of executors and GPUs, and a row never counts more GPUs than there are.
THEOREM TypeCorrect == Spec => []TypeOK
<1>1. IInv => TypeOK
  BY DEF IInv, TablesOK, CleanOK, CleanLocal, TasksOK, LocalOK, Local, TypeOK, Row, Counts
<1> QED
  BY <1>1, Inductive, PTL

\* However tasks and the clean-up interleave and fail, a GPU is assigned only to an
\* executor that a successful full verification, not older than the executor's last
\* failure, reported it for (store_executor_verification_result_with_miner_info and
\* what it calls).
THEOREM AssignmentsAreVouched == Spec => []AssignmentIsVouched
<1>1. IInv => AssignmentIsVouched
  BY DEF IInv
<1> QED
  BY <1>1, Inductive, PTL

=============================================================================
