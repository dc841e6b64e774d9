------------------------ MODULE SshSessions_proofs -------------------------
(***************************************************************************)
(* The miner's SSH sessions, for any number of handlers, validators,       *)
(* executors and sessions.                                                 *)
(*                                                                         *)
(* A handler goes on from what it saw before an await: the session it will *)
(* close, the limit it checked.  The invariant says that the first is      *)
(* still true when it is used; of the second, which may not be, it keeps   *)
(* count of the requests past the check.                                   *)
(*                                                                         *)
(* The rate limit has an invariant of its own, Rates, about every suffix   *)
(* of the last hour: what passed in it is bounded by one limit, one more   *)
(* for each restart in it, and the count of the window that is open; and   *)
(* the count covers what passed since the window's first tick.             *)
(***************************************************************************)
EXTENDS SshSessions, SumTheorems, TLAPS

Session ==
  [validator: Validators, executor: Executors, key: Keys,
   left: 0 .. MaxDuration, status: {"Active", "Expired"}]

HandlerLabels == {"idle", "limit", "provision", "store", "spawn", "revoke", "mark"}
TimerLabels == {"none", "armed", "revoke", "mark", "done"}

TablesOK ==
  /\ sessions \in [Ids -> {NoSession} \cup Session]
  /\ stored \in 0 .. MaxIds
  /\ \A s \in Ids : s > stored => sessions[s] = NoSession
  /\ keys \in [Executors -> SUBSET (Validators \X Keys)]

TimersOK ==
  /\ timer \in [Ids -> TimerLabels]
  /\ \A s \in Ids : timer[s] # "none" => sessions[s] \in Session
  /\ \A s \in Ids : timer[s] \in {"revoke", "mark"} => sessions[s].left = 0

\* What a handler relies on at its awaits.
HandlerOK(h) ==
  /\ pc[h] \in {"limit", "provision", "store"} => req[h] \in Requests
  /\ pc[h] \in {"spawn", "revoke", "mark"} => target[h] \in Ids /\ sessions[target[h]] \in Session
  /\ pc[h] \in {"revoke", "mark"} => req[h].validator = sessions[target[h]].validator

HandlersOK ==
  /\ pc \in [Handlers -> HandlerLabels]
  /\ DOMAIN req = Handlers /\ req = [h \in Handlers |-> req[h]]
  /\ DOMAIN target = Handlers /\ target = [h \in Handlers |-> target[h]]
  /\ \A h \in Handlers : HandlerOK(h)

IInv ==
  /\ TablesOK
  /\ TimersOK
  /\ HandlersOK
  /\ OvershootBounded

-----------------------------------------------------------------------------
(* Counting.                                                               *)

\* Sessions and requests of a validator are finitely many.
LEMMA Finite ==
  ASSUME NEW v
  PROVE  /\ IsFiniteSet(ActiveOf(v)) /\ Cardinality(ActiveOf(v)) \in Nat
         /\ IsFiniteSet(Admitted(v)) /\ Cardinality(Admitted(v)) \in Nat
         /\ Cardinality(Handlers) \in Nat
         /\ Cardinality(Admitted(v)) <= Cardinality(Handlers)
<1>1. IsFiniteSet(Ids)
  BY SshAssumption, FS_Interval DEF Ids
<1>2. IsFiniteSet(Handlers)
  BY SshAssumption
<1>3. ActiveOf(v) \subseteq Ids /\ Admitted(v) \subseteq Handlers
  BY DEF ActiveOf, Admitted
<1>4. IsFiniteSet(ActiveOf(v)) /\ IsFiniteSet(Admitted(v))
      /\ Cardinality(Admitted(v)) <= Cardinality(Handlers)
  BY <1>1, <1>2, <1>3, FS_Subset
<1> QED
  BY <1>2, <1>4, FS_CardinalityType

\* A step after which no validator has more.
LEMMA FewerKeeps ==
  ASSUME OvershootBounded,
         \A v \in Validators : ActiveOf(v)' \subseteq ActiveOf(v),
         \A v \in Validators : Admitted(v)' \subseteq Admitted(v)
  PROVE  OvershootBounded'
<1> SUFFICES ASSUME NEW v \in Validators
             PROVE  Cardinality(ActiveOf(v)') + Cardinality(Admitted(v)')
                      <= MaxSessions + Cardinality(Handlers) - 1
  BY DEF OvershootBounded
<1>1. /\ IsFiniteSet(ActiveOf(v)) /\ Cardinality(ActiveOf(v)) \in Nat
      /\ IsFiniteSet(Admitted(v)) /\ Cardinality(Admitted(v)) \in Nat
      /\ Cardinality(Handlers) \in Nat
  BY Finite
<1>2. /\ IsFiniteSet(ActiveOf(v)') /\ Cardinality(ActiveOf(v)') <= Cardinality(ActiveOf(v))
      /\ IsFiniteSet(Admitted(v)') /\ Cardinality(Admitted(v)') <= Cardinality(Admitted(v))
  BY <1>1, FS_Subset
<1>3. Cardinality(ActiveOf(v)') \in Nat /\ Cardinality(Admitted(v)') \in Nat
  BY <1>2, FS_CardinalityType
<1>4. Cardinality(ActiveOf(v)) + Cardinality(Admitted(v))
        <= MaxSessions + Cardinality(Handlers) - 1
  BY DEF OvershootBounded
<1> QED
  BY <1>1, <1>2, <1>3, <1>4, SshAssumption

\* check_concurrent_limits lets a request pass: fewer than MaxSessions are stored now.
LEMMA PassingKeeps ==
  ASSUME OvershootBounded, NEW w \in Validators, BelowLimit(w),
         \A v \in Validators : ActiveOf(v)' = ActiveOf(v),
         \A v \in Validators : v # w => Admitted(v)' = Admitted(v)
  PROVE  OvershootBounded'
<1> SUFFICES ASSUME NEW v \in Validators
             PROVE  Cardinality(ActiveOf(v)') + Cardinality(Admitted(v)')
                      <= MaxSessions + Cardinality(Handlers) - 1
  BY DEF OvershootBounded
<1>1. CASE v # w
  BY <1>1 DEF OvershootBounded
<1>2. CASE v = w
  <2>1. Cardinality(ActiveOf(v)) \in Nat /\ Cardinality(Handlers) \in Nat
    BY Finite
  <2>2. Admitted(v)' \subseteq Handlers
    BY DEF Admitted
  <2>3. IsFiniteSet(Admitted(v)') /\ Cardinality(Admitted(v)') <= Cardinality(Handlers)
    BY <2>2, SshAssumption, FS_Subset
  <2>4. Cardinality(Admitted(v)') \in Nat
    BY <2>3, FS_CardinalityType
  <2>5. Cardinality(ActiveOf(v)) < MaxSessions
    BY <1>2 DEF BelowLimit
  <2> QED
    BY <2>1, <2>3, <2>4, <2>5, SshAssumption
<1> QED
  BY <1>1, <1>2

\* A request that passed becomes a session.
LEMMA StoringKeeps ==
  ASSUME OvershootBounded, NEW w \in Validators, NEW h \in Admitted(w), NEW n,
         ActiveOf(w)' \subseteq ActiveOf(w) \cup {n},
         Admitted(w)' \subseteq Admitted(w) \ {h},
         \A v \in Validators : v # w => ActiveOf(v)' = ActiveOf(v) /\ Admitted(v)' = Admitted(v)
  PROVE  OvershootBounded'
<1> SUFFICES ASSUME NEW v \in Validators
             PROVE  Cardinality(ActiveOf(v)') + Cardinality(Admitted(v)')
                      <= MaxSessions + Cardinality(Handlers) - 1
  BY DEF OvershootBounded
<1>1. CASE v # w
  BY <1>1 DEF OvershootBounded
<1>2. CASE v = w
  <2>1. /\ IsFiniteSet(ActiveOf(w)) /\ Cardinality(ActiveOf(w)) \in Nat
        /\ IsFiniteSet(Admitted(w)) /\ Cardinality(Admitted(w)) \in Nat
        /\ Cardinality(Handlers) \in Nat
    BY Finite
  <2>7. IsFiniteSet(ActiveOf(w) \cup {n})
        /\ Cardinality(ActiveOf(w) \cup {n})
             = IF n \in ActiveOf(w) THEN Cardinality(ActiveOf(w)) ELSE Cardinality(ActiveOf(w)) + 1
    BY <2>1, FS_AddElement
  <2>2. IsFiniteSet(ActiveOf(w) \cup {n})
        /\ Cardinality(ActiveOf(w) \cup {n}) <= Cardinality(ActiveOf(w)) + 1
    BY <2>1, <2>7
  <2>3. IsFiniteSet(Admitted(w) \ {h})
        /\ Cardinality(Admitted(w) \ {h}) = Cardinality(Admitted(w)) - 1
    BY <2>1, FS_RemoveElement
  <2>4. /\ IsFiniteSet(ActiveOf(w)')
        /\ Cardinality(ActiveOf(w)') <= Cardinality(ActiveOf(w) \cup {n})
        /\ IsFiniteSet(Admitted(w)')
        /\ Cardinality(Admitted(w)') <= Cardinality(Admitted(w) \ {h})
    BY <2>2, <2>3, FS_Subset
  <2>5. Cardinality(ActiveOf(w)') \in Nat /\ Cardinality(Admitted(w)') \in Nat
        /\ Cardinality(ActiveOf(w) \cup {n}) \in Nat
    BY <2>2, <2>4, FS_CardinalityType
  <2>6. Cardinality(ActiveOf(w)) + Cardinality(Admitted(w))
          <= MaxSessions + Cardinality(Handlers) - 1
    BY DEF OvershootBounded
  <2> QED
    BY <1>2, <2>1, <2>2, <2>3, <2>4, <2>5, <2>6, SshAssumption
<1> QED
  BY <1>1, <1>2

-----------------------------------------------------------------------------
(* What a step leaves to the other handlers.                               *)

\* Sessions stay, with their validator.
Grows ==
  \A s \in Ids : sessions[s] \in Session =>
    sessions'[s] \in Session /\ sessions'[s].validator = sessions[s].validator

\* One handler moves on, and the others may still rely on what they saw.
LEMMA MoveKeeps ==
  ASSUME HandlersOK, Grows, NEW h \in Handlers, NEW p \in HandlerLabels, NEW r, NEW k,
         pc' = [pc EXCEPT ![h] = p], req' = [req EXCEPT ![h] = r],
         target' = [target EXCEPT ![h] = k], HandlerOK(h)'
  PROVE  HandlersOK'
<1>1. pc' \in [Handlers -> HandlerLabels]
  BY DEF HandlersOK
<1>2. DOMAIN req' = Handlers /\ req' = [x \in Handlers |-> req'[x]]
  BY DEF HandlersOK
<1>3. DOMAIN target' = Handlers /\ target' = [x \in Handlers |-> target'[x]]
  BY DEF HandlersOK
<1>4. ASSUME NEW x \in Handlers, x # h
      PROVE  HandlerOK(x)'
  <2>1. pc'[x] = pc[x] /\ req'[x] = req[x] /\ target'[x] = target[x]
    BY <1>4 DEF HandlersOK
  <2>2. HandlerOK(x)
    BY DEF HandlersOK
  <2>4. pc[x] \in {"spawn", "revoke", "mark"} =>
          target[x] \in Ids /\ sessions'[target[x]] \in Session
          /\ sessions'[target[x]].validator = sessions[target[x]].validator
    BY <2>2 DEF HandlerOK, Grows
  <2> QED
    BY <2>1, <2>2, <2>4 DEF HandlerOK
<1>5. \A x \in Handlers : HandlerOK(x)'
  BY <1>4
<1> QED
  BY <1>1, <1>2, <1>3, <1>5 DEF HandlersOK

\* A handler that ends, whatever it was doing.
LEMMA FinishKeeps ==
  ASSUME HandlersOK, Grows, NEW h \in Handlers, Finish(h)
  PROVE  HandlersOK' /\ \A v \in Validators : Admitted(v)' \subseteq Admitted(v)
<1>1. pc'[h] = "idle"
  BY DEF Finish, HandlersOK
<1>2. HandlerOK(h)'
  BY <1>1 DEF HandlerOK
<1>3. HandlersOK'
  BY <1>2, MoveKeeps DEF Finish, HandlerLabels
<1>4. \A v \in Validators : Admitted(v)' \subseteq Admitted(v)
  BY DEF Finish, HandlersOK, Admitted
<1> QED
  BY <1>3, <1>4

\* A handler that goes to its next await with the same request.
LEMMA GotoKeeps ==
  ASSUME HandlersOK, Grows, NEW h \in Handlers, NEW p \in HandlerLabels, Goto(h, p), HandlerOK(h)'
  PROVE  HandlersOK'
<1>1. req' = [req EXCEPT ![h] = req[h]] /\ target' = [target EXCEPT ![h] = target[h]]
  BY DEF HandlersOK, Goto
<1> QED
  BY <1>1, MoveKeeps DEF Goto

\* Handlers do nothing and may still rely on what they saw.
LEMMA StayKeeps ==
  ASSUME HandlersOK, Grows, UNCHANGED handler
  PROVE  HandlersOK' /\ \A v \in Validators : Admitted(v)' \subseteq Admitted(v)
<1>1. UNCHANGED <<pc, req, target>>
  BY DEF handler
<1>2. ASSUME NEW x \in Handlers
      PROVE  HandlerOK(x)'
  <2>1. HandlerOK(x)
    BY DEF HandlersOK
  <2>4. pc[x] \in {"spawn", "revoke", "mark"} =>
          target[x] \in Ids /\ sessions'[target[x]] \in Session
          /\ sessions'[target[x]].validator = sessions[target[x]].validator
    BY <2>1 DEF HandlerOK, Grows
  <2> QED
    BY <1>1, <2>1, <2>4 DEF HandlerOK
<1> QED
  BY <1>1, <1>2 DEF HandlersOK, Admitted

\* A call to the executor, whatever its outcome.
LEMMA CallType ==
  ASSUME TablesOK, NEW r, r.validator \in Validators, r.key \in Keys, r.executor \in Executors,
         NEW d, keys' \in {keys, Provision(r.executor, r, d)}
  PROVE  keys' \in [Executors -> SUBSET (Validators \X Keys)]
BY DEF TablesOK, Provision, WithKey

\* A step that changes no session, after which no validator has more requests
\* past the check.
LEMMA QuietKeeps ==
  ASSUME IInv, UNCHANGED <<sessions, stored>>,
         keys' \in [Executors -> SUBSET (Validators \X Keys)],
         TimersOK', HandlersOK', \A v \in Validators : Admitted(v)' \subseteq Admitted(v)
  PROVE  IInv'
<1>1. TablesOK'
  BY DEF IInv, TablesOK
<1>3. OvershootBounded'
  <2>1. \A v \in Validators : ActiveOf(v)' \subseteq ActiveOf(v)
    BY DEF ActiveOf, Active
  <2> QED
    BY <2>1, FewerKeeps DEF IInv
<1> QED
  BY <1>1, <1>3 DEF IInv

\* A session ends.
LEMMA EndingKeeps ==
  ASSUME IInv, NEW s \in Ids, sessions[s] \in Session,
         sessions' = [sessions EXCEPT ![s].status = "Expired"], UNCHANGED <<stored, keys>>,
         TimersOK', HandlersOK', \A v \in Validators : Admitted(v)' \subseteq Admitted(v)
  PROVE  IInv'
<1>1. sessions'[s] \in Session /\ sessions'[s].status = "Expired"
  BY DEF IInv, TablesOK, Session
<1>2. \A x \in Ids : x # s => sessions'[x] = sessions[x]
  BY DEF IInv, TablesOK
<1>3. TablesOK'
  <2>1. sessions' \in [Ids -> {NoSession} \cup Session]
    BY <1>1 DEF IInv, TablesOK
  <2>2. s <= stored
    BY SshAssumption DEF IInv, TablesOK, Session, NoSession, Ids
  <2> QED
    BY <1>2, <2>1, <2>2, SshAssumption DEF IInv, TablesOK, Ids
<1>5. OvershootBounded'
  <2>1. \A v \in Validators : ActiveOf(v)' \subseteq ActiveOf(v)
    BY <1>1, <1>2 DEF ActiveOf, Active
  <2> QED
    BY <2>1, FewerKeeps DEF IInv
<1> QED
  BY <1>3, <1>5 DEF IInv

\* Ending a session leaves its time, its validator and its timer.
LEMMA EndingGrows ==
  ASSUME TablesOK, TimersOK, NEW s \in Ids, sessions[s] \in Session,
         sessions' = [sessions EXCEPT ![s].status = "Expired"], UNCHANGED keys
  PROVE  /\ Grows
         /\ \A x \in Ids : sessions'[x].left = sessions[x].left
BY DEF TablesOK, Grows, Session

-----------------------------------------------------------------------------
(* create_session.                                                         *)

LEMMA CreateSessionKeeps ==
  ASSUME IInv, NEW h \in Handlers, CreateSession(h)
  PROVE  IInv'
<1>1. UNCHANGED <<sessions, stored, target, timer, keys>>
  BY DEF CreateSession
<1>2. PICK r \in Requests : req' = [req EXCEPT ![h] = r]
  BY DEF CreateSession
<1>3. pc' = [pc EXCEPT ![h] = "limit"]
  BY DEF CreateSession
<1>4. Grows
  BY <1>1 DEF Grows
<1>5. pc'[h] = "limit" /\ req'[h] = r
  BY <1>2, <1>3 DEF IInv, HandlersOK
<1>6. HandlerOK(h)'
  BY <1>5 DEF HandlerOK
<1>7. HandlersOK'
  <2>1. target' = [target EXCEPT ![h] = target[h]]
    BY <1>1 DEF IInv, HandlersOK
  <2> QED
    BY <1>2, <1>3, <1>4, <1>6, <2>1, MoveKeeps DEF IInv, HandlerLabels
<1>8. \A v \in Validators : Admitted(v)' \subseteq Admitted(v)
  BY <1>2, <1>3 DEF IInv, HandlersOK, Admitted
<1>9. TimersOK'
  BY <1>1 DEF IInv, TimersOK
<1> QED
  BY <1>1, <1>7, <1>8, <1>9, QuietKeeps DEF IInv, TablesOK

\* The limit counts sessions that are stored, not requests that passed before.
LEMMA CheckConcurrentLimitsKeeps ==
  ASSUME IInv, NEW h \in Handlers, CheckConcurrentLimits(h)
  PROVE  IInv'
<1> DEFINE w == req[h].validator
<1>1. UNCHANGED <<sessions, stored, timer, keys>> /\ pc[h] = "limit"
  BY DEF CheckConcurrentLimits
<1>2. Grows
  BY <1>1 DEF Grows
<1>3. TimersOK'
  BY <1>1 DEF IInv, TimersOK
<1>4. req[h] \in Requests /\ w \in Validators
  BY <1>1 DEF IInv, HandlersOK, HandlerOK, Requests
<1>5. CASE ~BelowLimit(w)
  <2>1. Finish(h)
    BY <1>5 DEF CheckConcurrentLimits
  <2> QED
    BY <1>1, <1>2, <1>3, <2>1, FinishKeeps, QuietKeeps DEF IInv, TablesOK
<1>6. CASE BelowLimit(w)
  <2>1. Goto(h, "provision")
    BY <1>6 DEF CheckConcurrentLimits
  <2>2. pc'[h] = "provision" /\ req'[h] = req[h]
    BY <2>1 DEF Goto, IInv, HandlersOK
  <2>3. HandlerOK(h)'
    BY <1>4, <2>2 DEF HandlerOK
  <2>4. HandlersOK'
    BY <1>2, <2>1, <2>3, GotoKeeps DEF IInv, HandlerLabels
  <2>5. OvershootBounded'
    <3>1. \A v \in Validators : ActiveOf(v)' = ActiveOf(v)
      BY <1>1 DEF ActiveOf, Active
    <3>2. \A v \in Validators : v # w => Admitted(v)' = Admitted(v)
      BY <1>1, <2>1 DEF Goto, IInv, HandlersOK, Admitted
    <3> QED
      BY <1>4, <1>6, <3>1, <3>2, PassingKeeps DEF IInv
  <2> QED
    BY <1>1, <1>3, <2>4, <2>5 DEF IInv, TablesOK
<1> QED
  BY <1>5, <1>6

LEMMA AddValidatorKeyKeeps ==
  ASSUME IInv, NEW h \in Handlers, AddValidatorKey(h)
  PROVE  IInv'
<1> DEFINE r == req[h]
<1>1. UNCHANGED <<sessions, stored, timer>> /\ pc[h] = "provision"
  BY DEF AddValidatorKey
<1>2. r \in Requests /\ r.validator \in Validators /\ r.key \in Keys /\ r.executor \in Executors
  BY <1>1 DEF IInv, HandlersOK, HandlerOK, Requests
<1>3. keys' \in {keys, Provision(r.executor, r, r.duration)}
  BY DEF AddValidatorKey, FailedCall
<1>4. keys' \in [Executors -> SUBSET (Validators \X Keys)]
  BY <1>2, <1>3, CallType DEF IInv
<1>5. Grows
  BY <1>1, <1>4 DEF Grows
<1>6. TimersOK'
  BY <1>1 DEF IInv, TimersOK
<1>7. CASE keys' = Provision(r.executor, r, r.duration) /\ Goto(h, "store")
  <2>1. pc'[h] = "store" /\ req'[h] = req[h]
    BY <1>7 DEF Goto, IInv, HandlersOK
  <2>3. HandlerOK(h)'
    BY <1>2, <2>1 DEF HandlerOK
  <2>4. HandlersOK'
    BY <1>5, <1>7, <2>3, GotoKeeps DEF IInv, HandlerLabels
  <2>5. \A v \in Validators : Admitted(v)' \subseteq Admitted(v)
    BY <1>1, <1>7 DEF Goto, IInv, HandlersOK, Admitted
  <2> QED
    BY <1>1, <1>4, <1>6, <2>4, <2>5, QuietKeeps
<1>8. CASE Finish(h)
  BY <1>1, <1>4, <1>5, <1>6, <1>8, FinishKeeps, QuietKeeps DEF IInv
<1> QED
  BY <1>7, <1>8 DEF AddValidatorKey

\* A request past the check becomes a session.
LEMMA StoreSessionKeeps ==
  ASSUME IInv, NEW h \in Handlers, StoreSession(h)
  PROVE  IInv'
<1> DEFINE r == req[h]
           n == stored + 1
           new == [validator |-> r.validator, executor |-> r.executor,
                   key |-> r.key, left |-> r.duration, status |-> "Active"]
<1>1. /\ pc[h] = "store" /\ stored < MaxIds /\ stored' = n
      /\ sessions' = [sessions EXCEPT ![n] = new]
      /\ target' = [target EXCEPT ![h] = n]
      /\ pc' = [pc EXCEPT ![h] = "spawn"]
      /\ req' = [req EXCEPT ![h] = NoRequest]
      /\ UNCHANGED <<timer, keys>>
  BY DEF StoreSession
<1>2. r \in Requests
  BY <1>1 DEF IInv, HandlersOK, HandlerOK
<1>3. new \in Session
  BY <1>2, SshAssumption DEF Requests, Session
<1>4. n \in Ids /\ sessions[n] = NoSession /\ NoSession \notin Session
  BY <1>1, SshAssumption DEF IInv, TablesOK, Ids, NoSession, Session
<1>5. sessions'[n] = new /\ \A x \in Ids : x # n => sessions'[x] = sessions[x]
  BY <1>1, <1>4 DEF IInv, TablesOK
<1>6. TablesOK'
  <2>1. sessions' \in [Ids -> {NoSession} \cup Session]
    BY <1>1, <1>3 DEF IInv, TablesOK
  <2>2. stored' \in 0 .. MaxIds
    BY <1>1, SshAssumption DEF IInv, TablesOK
  <2>3. \A s \in Ids : s > stored' => sessions'[s] = NoSession
    BY <1>1, <1>5, SshAssumption DEF IInv, TablesOK, Ids
  <2> QED
    BY <1>1, <2>1, <2>2, <2>3 DEF IInv, TablesOK
<1>7. new.validator = r.validator /\ new.key = r.key /\ new.executor = r.executor
      /\ new.status = "Active"
  OBVIOUS
<1> HIDE DEF new
<1>8. Grows
  BY <1>1, <1>4, <1>5 DEF Grows
<1>9. HandlersOK'
  <2>1. pc'[h] = "spawn" /\ target'[h] = n
    BY <1>1 DEF IInv, HandlersOK
  <2>2. HandlerOK(h)'
    BY <1>3, <1>4, <1>5, <2>1 DEF HandlerOK
  <2> QED
    BY <1>1, <1>8, <2>2, MoveKeeps DEF IInv, HandlerLabels
<1>10. TimersOK'
  BY <1>1, <1>3, <1>4, <1>5 DEF IInv, TimersOK
<1>12. OvershootBounded'
  <2>1. PICK w \in Validators : w = r.validator
    BY <1>2 DEF Requests
  <2>2. h \in Admitted(w)
    BY <1>1, <2>1 DEF Admitted
  <2>3. ActiveOf(w)' \subseteq ActiveOf(w) \cup {n}
    BY <1>5 DEF ActiveOf, Active
  <2>4. Admitted(w)' \subseteq Admitted(w) \ {h}
    BY <1>1 DEF IInv, HandlersOK, Admitted
  <2>5. ASSUME NEW v \in Validators, v # w
        PROVE  ActiveOf(v)' = ActiveOf(v) /\ Admitted(v)' = Admitted(v)
    <3>1. ActiveOf(v)' = ActiveOf(v)
      BY <1>4, <1>5, <1>7, <2>1, <2>5 DEF ActiveOf, Active, NoSession
    <3>2. Admitted(v)' = Admitted(v)
      BY <1>1, <2>1, <2>5 DEF IInv, HandlersOK, Admitted
    <3> QED
      BY <3>1, <3>2
  <2> QED
    BY <2>1, <2>2, <2>3, <2>4, <2>5, StoringKeeps DEF IInv
<1> QED
  BY <1>6, <1>9, <1>10, <1>12 DEF IInv

LEMMA SpawnTimerKeeps ==
  ASSUME IInv, NEW h \in Handlers, SpawnTimer(h)
  PROVE  IInv'
<1>1. /\ pc[h] = "spawn" /\ timer' = [timer EXCEPT ![target[h]] = "armed"] /\ Finish(h)
      /\ UNCHANGED <<sessions, stored, keys>>
  BY DEF SpawnTimer
<1>2. target[h] \in Ids /\ sessions[target[h]] \in Session
  BY <1>1 DEF IInv, HandlersOK, HandlerOK
<1>3. TimersOK'
  BY <1>1, <1>2 DEF IInv, TimersOK, TimerLabels
<1>4. Grows
  BY <1>1 DEF Grows
<1> QED
  BY <1>1, <1>3, <1>4, FinishKeeps, QuietKeeps DEF IInv, TablesOK

-----------------------------------------------------------------------------
(* close_session, the timers, and the rest.                                *)

LEMMA CloseSessionKeeps ==
  ASSUME IInv, NEW h \in Handlers, CloseSession(h)
  PROVE  IInv'
<1>1. pc' = [pc EXCEPT ![h] = "revoke"] /\ UNCHANGED <<sessions, stored, timer, keys>>
  BY DEF CloseSession
<1>2. PICK v \in Hotkeys, s \in Ids :
        /\ Owns(v, s)
        /\ req' = [req EXCEPT ![h] = [validator |-> v]]
        /\ target' = [target EXCEPT ![h] = s]
  BY DEF CloseSession
<1>3. sessions[s] \in Session /\ sessions[s].validator = v
  BY <1>2 DEF Owns, IInv, TablesOK, NoSession
<1>4. Grows
  BY <1>1 DEF Grows
<1>5. pc'[h] = "revoke" /\ req'[h].validator = v /\ target'[h] = s
  BY <1>1, <1>2 DEF IInv, HandlersOK
<1>6. HandlerOK(h)'
  BY <1>1, <1>3, <1>5 DEF HandlerOK
<1>7. HandlersOK'
  BY <1>1, <1>2, <1>4, <1>6, MoveKeeps DEF IInv, HandlerLabels
<1>8. \A x \in Validators : Admitted(x)' \subseteq Admitted(x)
  BY <1>1, <1>2 DEF IInv, HandlersOK, Admitted
<1>9. TimersOK'
  BY <1>1 DEF IInv, TimersOK
<1> QED
  BY <1>1, <1>7, <1>8, <1>9, QuietKeeps DEF IInv, TablesOK

LEMMA RevokeForCloseKeeps ==
  ASSUME IInv, NEW h \in Handlers, RevokeForClose(h)
  PROVE  IInv'
<1> DEFINE r == sessions[target[h]]
<1>1. UNCHANGED <<sessions, stored, timer>> /\ pc[h] = "revoke"
  BY DEF RevokeForClose
<1>2. HandlerOK(h)
  BY DEF IInv, HandlersOK
<1>3. target[h] \in Ids /\ r \in Session
  BY <1>1, <1>2 DEF HandlerOK
<1>4. r.validator \in Validators /\ r.key \in Keys /\ r.executor \in Executors
  BY <1>3 DEF Session
<1>5. keys' \in {keys, Provision(r.executor, r, 0)}
  BY DEF RevokeForClose, FailedCall
<1>6. keys' \in [Executors -> SUBSET (Validators \X Keys)]
  BY <1>4, <1>5, CallType DEF IInv
<1>7. Grows
  BY <1>1, <1>6 DEF Grows
<1>8. TimersOK'
  BY <1>1 DEF IInv, TimersOK
<1>9. CASE Goto(h, "mark")
  <2>1. pc'[h] = "mark" /\ req'[h] = req[h] /\ target'[h] = target[h]
    BY <1>9 DEF Goto, IInv, HandlersOK
  <2>2. HandlerOK(h)'
    BY <1>1, <1>2, <1>3, <2>1 DEF HandlerOK
  <2>3. HandlersOK'
    BY <1>7, <1>9, <2>2, GotoKeeps DEF IInv, HandlerLabels
  <2>4. \A v \in Validators : Admitted(v)' \subseteq Admitted(v)
    BY <1>9 DEF Goto, IInv, HandlersOK, Admitted
  <2> QED
    BY <1>1, <1>6, <1>8, <2>3, <2>4, QuietKeeps
<1>10. CASE Finish(h)
  BY <1>1, <1>6, <1>7, <1>8, <1>10, FinishKeeps, QuietKeeps DEF IInv
<1> QED
  BY <1>9, <1>10 DEF RevokeForClose

LEMMA MarkClosedKeeps ==
  ASSUME IInv, NEW h \in Handlers, MarkClosed(h)
  PROVE  IInv'
<1>1. /\ pc[h] = "mark" /\ sessions' = [sessions EXCEPT ![target[h]].status = "Expired"]
      /\ Finish(h) /\ UNCHANGED <<stored, timer, keys>>
  BY DEF MarkClosed
<1>2. PICK s \in Ids : s = target[h] /\ sessions[s] \in Session
  BY <1>1 DEF IInv, HandlersOK, HandlerOK
<1>3. sessions' = [sessions EXCEPT ![s].status = "Expired"]
  BY <1>1, <1>2
<1>4. Grows /\ \A x \in Ids : sessions'[x].left = sessions[x].left
  BY <1>1, <1>2, <1>3, EndingGrows DEF IInv
<1>5. TimersOK'
  BY <1>1, <1>4 DEF IInv, TimersOK, Grows
<1> QED
  BY <1>1, <1>2, <1>3, <1>4, <1>5, FinishKeeps, EndingKeeps DEF IInv

LEMMA TimerStepKeeps ==
  ASSUME IInv, NEW s \in Ids, TimerStep(s)
  PROVE  IInv'
<1>1. CASE TimerFires(s)
  <2>1. UNCHANGED <<sessions, stored, handler, keys>>
        /\ timer' = [timer EXCEPT ![s] = IF Active(s) THEN "revoke" ELSE "done"]
        /\ timer[s] = "armed" /\ sessions[s].left = 0
    BY <1>1 DEF TimerFires
  <2>2. TimersOK'
    BY <2>1 DEF IInv, TimersOK, TimerLabels
  <2>3. Grows
    BY <2>1 DEF Grows
  <2> QED
    BY <2>1, <2>2, <2>3, StayKeeps, QuietKeeps DEF IInv, TablesOK
<1>2. CASE TimerRevokes(s)
  <2>1. UNCHANGED <<sessions, stored, handler>> /\ timer[s] = "revoke"
        /\ timer' = [timer EXCEPT ![s] = "mark"]
    BY <1>2 DEF TimerRevokes, AfterFailedRevoke
  <2>2. sessions[s].validator \in Validators /\ sessions[s].key \in Keys
        /\ sessions[s].executor \in Executors
    BY <2>1 DEF IInv, TimersOK, Session
  <2>3. keys' \in {keys, Provision(sessions[s].executor, sessions[s], 0)}
    BY <1>2 DEF TimerRevokes, FailedCall
  <2>4. keys' \in [Executors -> SUBSET (Validators \X Keys)]
    BY <2>2, <2>3, CallType DEF IInv
  <2>5. TimersOK'
    BY <2>1 DEF IInv, TimersOK, TimerLabels
  <2>6. Grows
    BY <2>1, <2>4 DEF Grows
  <2> QED
    BY <2>1, <2>4, <2>5, <2>6, StayKeeps, QuietKeeps DEF IInv
<1>3. CASE TimerMarks(s)
  <2>1. /\ timer[s] = "mark" /\ sessions' = [sessions EXCEPT ![s].status = "Expired"]
        /\ timer' = [timer EXCEPT ![s] = "done"] /\ UNCHANGED <<stored, handler, keys>>
    BY <1>3 DEF TimerMarks
  <2>2. sessions[s] \in Session
    BY <2>1 DEF IInv, TimersOK
  <2>3. Grows /\ \A x \in Ids : sessions'[x].left = sessions[x].left
    BY <2>1, <2>2, EndingGrows DEF IInv
  <2>4. TimersOK'
    BY <2>1, <2>3 DEF IInv, TimersOK, TimerLabels, Grows
  <2> QED
    BY <2>1, <2>2, <2>3, <2>4, StayKeeps, EndingKeeps DEF IInv
<1> QED
  BY <1>1, <1>2, <1>3 DEF TimerStep

LEMMA DropHandlerKeeps ==
  ASSUME IInv, NEW h \in Handlers, DropHandler(h)
  PROVE  IInv'
<1>1. Finish(h) /\ UNCHANGED <<sessions, stored, timer, keys>>
  BY DEF DropHandler
<1>2. Grows
  BY <1>1 DEF Grows
<1>3. TimersOK'
  BY <1>1 DEF IInv, TimersOK
<1> QED
  BY <1>1, <1>2, <1>3, FinishKeeps, QuietKeeps DEF IInv, TablesOK

LEMMA TickKeeps ==
  ASSUME IInv, Tick
  PROVE  IInv'
<1>0. sessions' = [s \in Ids |->
        IF sessions[s].status # "none" /\ sessions[s].left > 0
          THEN [sessions[s] EXCEPT !.left = @ - 1] ELSE sessions[s]]
  BY DEF Tick
<1>1. UNCHANGED <<stored, handler, timer, keys>>
  BY DEF Tick
<1>2. ASSUME NEW s \in Ids
      PROVE  /\ sessions[s] = NoSession => sessions'[s] = NoSession
             /\ sessions[s] \in Session =>
                  /\ sessions'[s] \in Session
                  /\ sessions'[s].validator = sessions[s].validator
                  /\ sessions'[s].executor = sessions[s].executor
                  /\ sessions'[s].key = sessions[s].key
                  /\ sessions'[s].status = sessions[s].status
                  /\ sessions[s].left = 0 => sessions'[s].left = 0
  BY <1>0, SshAssumption DEF NoSession, Session
<1>3. TablesOK'
  <2>1. sessions' = [s \in Ids |-> sessions'[s]]
    BY DEF Tick
  <2>2. sessions' \in [Ids -> {NoSession} \cup Session]
    BY <1>2, <2>1 DEF IInv, TablesOK
  <2> QED
    BY <1>1, <1>2, <2>2 DEF IInv, TablesOK
<1>4. Grows
  BY <1>1, <1>2 DEF Grows
<1>5. HandlersOK' /\ \A v \in Validators : Admitted(v)' \subseteq Admitted(v)
  BY <1>1, <1>4, StayKeeps DEF IInv
<1>6. TimersOK'
  BY <1>1, <1>2 DEF IInv, TimersOK, TimerLabels
<1>7. \A s \in Ids : Active(s)' =>
        /\ Active(s)
        /\ sessions'[s].validator = sessions[s].validator
        /\ sessions'[s].executor = sessions[s].executor
        /\ sessions'[s].key = sessions[s].key
  BY <1>2 DEF Active, IInv, TablesOK, NoSession
<1>9. OvershootBounded'
  <2>1. \A v \in Validators : ActiveOf(v)' \subseteq ActiveOf(v)
    BY <1>7 DEF ActiveOf
  <2> QED
    BY <1>5, <2>1, FewerKeeps DEF IInv
<1> QED
  BY <1>3, <1>5, <1>6, <1>9 DEF IInv

LEMMA InitOK == Init => IInv
<1> SUFFICES ASSUME Init
             PROVE  IInv
  OBVIOUS
<1>1. TablesOK
  BY SshAssumption DEF Init, TablesOK
<1>2. TimersOK
  BY DEF Init, TimersOK, TimerLabels
<1>3. HandlersOK
  BY DEF Init, HandlersOK, HandlerOK, HandlerLabels
<1>5. OvershootBounded
  <2>1. \A v : ActiveOf(v) = {} /\ Admitted(v) = {}
    BY DEF Init, ActiveOf, Active, NoSession, Admitted
  <2>2. Cardinality({}) = 0
    BY FS_EmptySet
  <2>3. Cardinality(Handlers) \in Nat /\ Cardinality(Handlers) # 0
    BY SshAssumption, FS_CardinalityType, FS_EmptySet
  <2>4. \A v : Cardinality(ActiveOf(v)) = 0 /\ Cardinality(Admitted(v)) = 0
    BY <2>1, <2>2
  <2>5. 0 + 0 <= MaxSessions + Cardinality(Handlers) - 1
    BY <2>3, SshAssumption
  <2> QED
    BY <2>4, <2>5 DEF OvershootBounded
<1> QED
  BY <1>1, <1>2, <1>3, <1>5 DEF IInv

LEMMA CrashKeeps ==
  ASSUME IInv, Crash
  PROVE  IInv'
<1>1. keys' \in [Executors -> SUBSET (Validators \X Keys)]
  BY DEF Crash, IInv, TablesOK
<1>2. TablesOK'
  BY <1>1, SshAssumption DEF Crash, TablesOK
<1>3. TimersOK'
  BY DEF Crash, TimersOK, TimerLabels
<1>4. HandlersOK'
  BY DEF Crash, HandlersOK, HandlerOK, HandlerLabels
<1>6. OvershootBounded'
  <2>1. \A v \in Validators : ActiveOf(v)' \subseteq ActiveOf(v) /\ Admitted(v)' \subseteq Admitted(v)
    BY DEF Crash, ActiveOf, Active, NoSession, Admitted
  <2> QED
    BY <2>1, FewerKeeps DEF IInv
<1> QED
  BY <1>2, <1>3, <1>4, <1>6 DEF IInv

LEMMA StepKeeps == IInv /\ [Next]_vars => IInv'
<1> SUFFICES ASSUME IInv, [Next]_vars
             PROVE  IInv'
  OBVIOUS
<1>1. ASSUME NEW h \in Handlers, HandlerStep(h)
      PROVE  IInv'
  BY <1>1, CreateSessionKeeps, CheckConcurrentLimitsKeeps, AddValidatorKeyKeeps,
     StoreSessionKeeps, SpawnTimerKeeps, CloseSessionKeeps, RevokeForCloseKeeps,
     MarkClosedKeeps, DropHandlerKeeps DEF HandlerStep
<1>2. ASSUME NEW s \in Ids, TimerStep(s)
      PROVE  IInv'
  BY <1>2, TimerStepKeeps
<1>3. CASE Tick
  BY <1>3, TickKeeps
<1>4. CASE Crash
  BY <1>4, CrashKeeps
<1>5. CASE UNCHANGED vars
  <2>1. UNCHANGED <<sessions, stored, handler, timer, keys>>
    BY <1>5 DEF vars
  <2>2. Grows
    BY <2>1 DEF Grows
  <2>3. TimersOK'
    BY <2>1 DEF IInv, TimersOK
  <2> QED
    BY <2>1, <2>2, <2>3, StayKeeps, QuietKeeps DEF IInv, TablesOK
<1> QED
  BY <1>1, <1>2, <1>3, <1>4, <1>5 DEF Next

\* The inductive invariant holds in every reachable state.
THEOREM Inductive == Spec => []IInv
BY InitOK, StepKeeps, PTL DEF Spec

\* Requests that overlap between check_concurrent_limits and the insert exceed
\* max_sessions_per_validator by no more than the handlers that overlap, less one.
THEOREM OvershootIsBounded == Spec => []OvershootBounded
<1>1. IInv => OvershootBounded
  BY DEF IInv
<1> QED
  BY <1>1, Inductive, PTL

\* A session ends after its time, or by a close_session whose request names the
\* hotkey of the session's validator: the check made before the call to the executor
\* still holds when the session is marked after it.
THEOREM EndsByItsHotkeyOrTime == Spec => EndedByItsHotkeyOrTime
<1> DEFINE Rightly ==
      \A s \in Ids :
        Active(s) /\ sessions'[s].status = "Expired" =>
          \/ sessions[s].left = 0
          \/ \E h \in Handlers : /\ pc[h] = "mark" /\ target[h] = s
                                 /\ req[h].validator = sessions[s].validator
<1>1. IInv /\ [Next]_vars => [Rightly]_vars
  <2> SUFFICES ASSUME IInv, Next, NEW s \in Ids, Active(s), sessions'[s].status = "Expired"
               PROVE  \/ sessions[s].left = 0
                      \/ \E h \in Handlers : /\ pc[h] = "mark" /\ target[h] = s
                                             /\ req[h].validator = sessions[s].validator
    OBVIOUS
  <2>1. sessions[s].status = "Active"
    BY DEF Active
  <2>2. ASSUME NEW h \in Handlers, MarkClosed(h)
        PROVE  /\ pc[h] = "mark" /\ target[h] = s
               /\ req[h].validator = sessions[s].validator
    BY <2>1, <2>2 DEF MarkClosed, IInv, HandlersOK, HandlerOK, TablesOK
  <2>3. ASSUME NEW h \in Handlers, StoreSession(h)
        PROVE  FALSE
    BY <2>1, <2>3 DEF StoreSession, IInv, TablesOK
  <2>4. ASSUME NEW h \in Handlers, HandlerStep(h), ~MarkClosed(h), ~StoreSession(h)
        PROVE  FALSE
    <3>1. UNCHANGED sessions
      BY <2>4 DEF HandlerStep, CreateSession, CheckConcurrentLimits, AddValidatorKey, SpawnTimer,
                  CloseSession, RevokeForClose, DropHandler
    <3> QED
      BY <2>1, <3>1
  <2>5. ASSUME NEW x \in Ids, TimerStep(x)
        PROVE  sessions[s].left = 0
    <3>1. CASE TimerMarks(x)
      BY <2>1, <3>1 DEF TimerMarks, IInv, TimersOK, TablesOK
    <3>2. CASE TimerFires(x) \/ TimerRevokes(x)
      BY <2>1, <3>2 DEF TimerFires, TimerRevokes
    <3> QED
      BY <2>5, <3>1, <3>2 DEF TimerStep
  <2>6. CASE Tick
    BY <2>1, <2>6 DEF Tick, IInv, TablesOK, Session, NoSession
  <2>7. CASE Crash
    BY <2>7 DEF Crash, NoSession
  <2> QED
    BY <2>2, <2>3, <2>4, <2>5, <2>6, <2>7 DEF Next
<1> QED
  BY <1>1, Inductive, PTL DEF Spec, EndedByItsHotkeyOrTime

-----------------------------------------------------------------------------
(* The rate limit.                                                         *)

\* What happened in the last k ticks and the current one.
Recent(f, k) == SumFunctionOnSet(f, 0 .. k)

\* One limit, and one more for each restart.
Allowed(n) == RateLimit * (1 + n)

\* In every suffix of the hour the count covers the requests of the open window, and
\* one limit those of the window before it, unless a restart cut a window short.  A
\* window only starts when the last one is over, so when it is over in its turn
\* nothing before its first tick is left in the hour, and the count covers the rest.
RateOK(v) ==
  /\ \A k \in Ages : Recent(passes[v], k) <= Allowed(Recent(restarts, k)) + WindowCount(v)
  /\ \A k \in Ages : ~NewWindow(v) /\ k < elapsed[v] => Recent(passes[v], k) <= count[v]

Rates ==
  /\ count \in [Validators -> 0 .. RateLimit]
  /\ elapsed \in [Validators -> 0 .. Window + 1]
  /\ passes \in [Validators -> [Ages -> Nat]]
  /\ restarts \in [Ages -> Nat]
  /\ \A v \in Validators : RateOK(v)

LEMMA AllowedArith ==
  ASSUME NEW n \in Nat
  PROVE  Allowed(n) \in Nat /\ Allowed(n) >= RateLimit /\ Allowed(n + 1) = Allowed(n) + RateLimit
<1>1. RateLimit \in Nat
  BY SshAssumption
<1>2. RateLimit * n \in Nat /\ RateLimit * (1 + n) = RateLimit + RateLimit * n
  BY <1>1
<1>3. RateLimit * (1 + (n + 1)) = RateLimit * (1 + n) + RateLimit
  BY <1>1
<1> QED BY <1>1, <1>2, <1>3 DEF Allowed

LEMMA RecentNat ==
  ASSUME NEW p \in [Ages -> Nat], NEW k \in Ages
  PROVE  IsFiniteSet(0 .. k) /\ 0 .. k \subseteq Ages /\ 0 \in 0 .. k /\ Recent(p, k) \in Nat
<1>1. k \in Nat /\ 0 .. k \subseteq Ages /\ 0 \in 0 .. k
  BY SshAssumption DEF Ages
<1>2. IsFiniteSet(0 .. k)
  BY <1>1, FS_Interval
<1>3. \A a \in 0 .. k : p[a] \in Nat
  BY <1>1
<1> QED BY <1>1, <1>2, <1>3, SumBound DEF Recent

\* One more, now.
LEMMA RecentBump ==
  ASSUME NEW p \in [Ages -> Nat], NEW q \in [Ages -> Nat], q[0] = p[0] + 1,
         \A a \in Ages \ {0} : p[a] = q[a]
  PROVE  \A k \in Ages : Recent(q, k) = Recent(p, k) + 1
<1>1. 0 \in Ages
  BY SshAssumption DEF Ages
<1>2. q \in [Ages -> Nat] /\ q[0] = p[0] + 1 /\ \A a \in Ages \ {0} : p[a] = q[a]
  OBVIOUS
<1>3. ASSUME NEW k \in Ages PROVE Recent(q, k) = Recent(p, k) + 1
  <2>0. PICK Y : Y = 0 .. k
    OBVIOUS
  <2>1. IsFiniteSet(Y) /\ Y \subseteq Ages /\ 0 \in Y
    BY <2>0, RecentNat
  <2>2. \A a \in Y : p[a] \in Int /\ q[a] \in Int
    BY <1>2, <2>1
  <2>3. \A a \in Y \ {0} : p[a] = q[a]
    BY <1>2, <2>1
  <2>4. SumFunctionOnSet(q, Y) = SumFunctionOnSet(p, Y) + (q[0] - p[0])
    BY <2>1, <2>2, <2>3, SumUpdate
  <2>5. q[0] - p[0] = 1
    BY <1>1, <1>2
  <2> QED BY <2>0, <2>4, <2>5 DEF Recent
<1> QED BY <1>3

\* Sums over ages that are d apart.
LEMMA ShiftedSums ==
  ASSUME NEW p, NEW q, NEW d \in Int, NEW A, IsFiniteSet(A), NEW B, IsFiniteSet(B),
         \A a \in A : a \in Int /\ a + d \in B /\ p[a] \in Nat /\ p[a] <= q[a + d],
         \A b \in B : q[b] \in Nat
  PROVE  SumFunctionOnSet(p, A) <= SumFunctionOnSet(q, B)
<1>1. PICK h : h = [a \in A |-> a + d]
  OBVIOUS
<1>2. \A a \in A : h[a] = a + d
  BY <1>1
<1>3. \A a \in A : h[a] \in B /\ p[a] <= q[h[a]]
  BY <1>2
<1>4. \A x, y \in A : h[x] = h[y] => x = y
  BY <1>2
<1>5. \A a \in A : p[a] \in Nat
  OBVIOUS
<1> QED BY <1>3, <1>4, <1>5, SumInject

\* An age at which nothing happened.
LEMMA EmptyAge ==
  ASSUME NEW q, NEW A, IsFiniteSet(A), \A a \in A : q[a] \in Nat, 0 \in A, q[0] = 0
  PROVE  SumFunctionOnSet(q, A) = SumFunctionOnSet(q, A \ {0})
<1>1. \A a \in A : q[a] \in Int
  OBVIOUS
<1>2. SumFunctionOnSet(q, A) = q[0] + SumFunctionOnSet(q, A \ {0})
  BY <1>1, SumSplit
<1>3. IsFiniteSet(A \ {0}) /\ \A a \in A \ {0} : q[a] \in Nat
  BY FS_Subset
<1>4. SumFunctionOnSet(q, A \ {0}) \in Nat
  BY <1>3, SumBound
<1> QED BY <1>2, <1>4

\* After a tick everything is one older.
LEMMA RecentShift ==
  ASSUME NEW p \in [Ages -> Nat], NEW q \in [Ages -> Nat], q[0] = 0,
         \A a \in Ages : a # 0 => q[a] = p[a - 1]
  PROVE  /\ Recent(q, 0) = 0
         /\ \A k \in Ages : k # 0 => k - 1 \in Ages /\ Recent(q, k) = Recent(p, k - 1)
<1>1. \A a \in Ages : a \in Nat /\ (a # 0 => a - 1 \in Ages)
  BY SshAssumption DEF Ages
<1>2. q \in [Ages -> Nat] /\ (\A a \in Ages : a # 0 => q[a] = p[a - 1]) /\ q[0] = 0
  OBVIOUS
<1>3. 0 \in Ages
  BY SshAssumption DEF Ages
<1>4. Recent(q, 0) = 0
  <2>1. IsFiniteSet(0 .. 0)
    BY <1>3, RecentNat
  <2>2. \A a \in 0 .. 0 : q[a] = 0
    <3>1. \A a \in 0 .. 0 : a = 0
      OBVIOUS
    <3> QED BY <1>2, <1>3, <3>1
  <2> QED BY <2>1, <2>2, SumZero DEF Recent
<1>5. ASSUME NEW k \in Ages, k # 0 PROVE k - 1 \in Ages /\ Recent(q, k) = Recent(p, k - 1)
  <2>1. k \in Nat /\ k - 1 \in Ages /\ k - 1 \in Nat
    BY <1>1, <1>5
  <2> PICK C, B : C = 1 .. k /\ B = 0 .. k - 1
    OBVIOUS
  <2>2. IsFiniteSet(B) /\ B \subseteq Ages /\ IsFiniteSet(0 .. k) /\ 0 .. k \subseteq Ages
    BY <2>1, RecentNat
  <2>3. C = (0 .. k) \ {0} /\ C \subseteq Ages /\ \A a \in C : a \in Int /\ a # 0 /\ a - 1 \in B
    BY <2>1, <2>2
  <2>4. IsFiniteSet(C)
    BY <2>2, <2>3, FS_Subset
  <2>5. (\A a \in C : q[a] \in Nat) /\ (\A a \in B : p[a] \in Nat)
    BY <1>2, <2>2, <2>3
  <2>6. SumFunctionOnSet(q, C) \in Nat /\ SumFunctionOnSet(p, B) \in Nat
    BY <2>2, <2>4, <2>5, SumBound
  <2>7. SumFunctionOnSet(q, C) <= SumFunctionOnSet(p, B)
    <3>1. \A a \in C : a \in Int /\ a + (-1) \in B /\ q[a] \in Nat /\ q[a] <= p[a + (-1)]
      BY <1>2, <2>3, <2>5
    <3>2. -1 \in Int
      OBVIOUS
    <3> QED BY <2>2, <2>4, <2>5, <3>1, <3>2, ShiftedSums, Zenon
  <2>8. SumFunctionOnSet(p, B) <= SumFunctionOnSet(q, C)
    <3>1. \A a \in B : a \in Int /\ a + 1 \in C /\ a + 1 # 0 /\ a + 1 \in Ages /\ (a + 1) - 1 = a
      BY <2>1, <2>3
    <3>2. \A a \in B : a \in Int /\ a + 1 \in C /\ p[a] \in Nat /\ p[a] <= q[a + 1]
      <4> SUFFICES ASSUME NEW a \in B PROVE p[a] = q[a + 1]
        BY <2>5, <3>1
      <4>1. q[a + 1] = p[(a + 1) - 1]
        BY <1>2, <3>1
      <4> QED BY <3>1, <4>1
    <3>3. 1 \in Int
      OBVIOUS
    <3> QED BY <2>2, <2>4, <2>5, <3>2, <3>3, ShiftedSums, Zenon
  <2>9. SumFunctionOnSet(q, 0 .. k) = SumFunctionOnSet(q, C)
    <3>1. 0 \in 0 .. k /\ \A a \in 0 .. k : q[a] \in Nat
      BY <1>2, <2>1, <2>2
    <3> QED BY <1>2, <2>2, <2>3, <3>1, EmptyAge, Zenon
  <2> QED BY <2>1, <2>6, <2>7, <2>8, <2>9 DEF Recent
<1> QED BY <1>4, <1>5

\* A request passes check_rate_limits.
LEMMA CreateRates ==
  ASSUME Rates, NEW h \in Handlers, CreateSession(h)
  PROVE  Rates'
<1>1. PICK r \in Requests :
        /\ MayPass(r.validator)
        /\ count' = [count EXCEPT ![r.validator] = WindowCount(r.validator) + 1]
        /\ elapsed' = [elapsed EXCEPT ![r.validator] = WindowAge(r.validator)]
        /\ passes' = [passes EXCEPT ![r.validator][0] = @ + 1]
  BY DEF CreateSession
<1>2. PICK v \in Validators : v = r.validator
  BY DEF Requests
<1>0. restarts' = restarts
  BY DEF CreateSession
<1> PICK p, c, e, q : p = passes[v] /\ c = WindowCount(v) /\ e = WindowAge(v) /\ q = [p EXCEPT ![0] = @ + 1]
  OBVIOUS
<1>3. /\ p \in [Ages -> Nat] /\ c \in Nat /\ c + 1 <= RateLimit /\ e \in 0 .. Window
      /\ RateLimit \in Nat /\ Window \in Nat
  BY <1>1, <1>2, SshAssumption DEF Rates, MayPass, WindowCount, WindowAge, NewWindow
<1>4. q \in [Ages -> Nat] /\ \A k \in Ages : Recent(q, k) = Recent(p, k) + 1
  <2>1. q \in [Ages -> Nat] /\ q[0] = p[0] + 1 /\ \A a \in Ages \ {0} : p[a] = q[a]
    BY <1>3, SshAssumption DEF Ages
  <2> QED BY <1>3, <2>1, RecentBump
<1>5. /\ count' = [count EXCEPT ![v] = c + 1] /\ elapsed' = [elapsed EXCEPT ![v] = e]
      /\ passes' = [passes EXCEPT ![v] = q]
  BY <1>1, <1>2
<1>6. count' \in [Validators -> 0 .. RateLimit] /\ count'[v] = c + 1
  BY <1>3, <1>5 DEF Rates
<1>7. elapsed' \in [Validators -> 0 .. Window + 1] /\ elapsed'[v] = e
  BY <1>3, <1>5 DEF Rates
<1>8. passes' \in [Validators -> [Ages -> Nat]] /\ passes'[v] = q
  BY <1>4, <1>5 DEF Rates
<1>9. ASSUME NEW t \in Validators, t # v PROVE RateOK(t)'
  <2>1. count'[t] = count[t] /\ elapsed'[t] = elapsed[t] /\ passes'[t] = passes[t]
    BY <1>5, <1>9 DEF Rates
  <2>2. RateOK(t)
    BY DEF Rates
  <2> QED BY <1>0, <2>1, <2>2 DEF RateOK, NewWindow, WindowCount
<1>10. RateOK(v)'
  <2>1. RateOK(v)
    BY DEF Rates
  <2>2. ~NewWindow(v)' /\ WindowCount(v)' = c + 1
    BY <1>3, <1>6, <1>7 DEF NewWindow, WindowCount
  <2>3. ASSUME NEW k \in Ages
        PROVE  Recent(q, k) <= Allowed(Recent(restarts, k)) + (c + 1)
    <3>1. Recent(p, k) \in Nat /\ Recent(restarts, k) \in Nat
      BY <1>3, RecentNat DEF Rates
    <3>2. Allowed(Recent(restarts, k)) \in Nat
      BY <3>1, AllowedArith
    <3>3. Recent(p, k) <= Allowed(Recent(restarts, k)) + c
      BY <2>1 DEF RateOK
    <3>4. Recent(q, k) = Recent(p, k) + 1
      BY <1>4
    <3> QED BY <1>3, <3>1, <3>2, <3>3, <3>4
  <2>4. ASSUME NEW k \in Ages, k < e PROVE Recent(q, k) <= c + 1
    <3>1. CASE NewWindow(v)
      BY <2>4, <3>1 DEF WindowAge, Ages
    <3>2. CASE ~NewWindow(v)
      <4>1. c = count[v] /\ e = elapsed[v]
        BY <3>2 DEF WindowCount, WindowAge
      <4>2. Recent(p, k) <= c /\ Recent(p, k) \in Nat
        BY <1>3, <2>1, <2>4, <3>2, <4>1, RecentNat DEF RateOK
      <4>3. Recent(q, k) = Recent(p, k) + 1
        BY <1>4
      <4> QED BY <1>3, <4>2, <4>3
    <3> QED BY <3>1, <3>2
  <2> QED BY <1>0, <1>6, <1>7, <1>8, <2>2, <2>3, <2>4 DEF RateOK
<1> QED BY <1>0, <1>6, <1>7, <1>8, <1>9, <1>10 DEF Rates

\* Time passes, and a window may be over.
LEMMA TickRates ==
  ASSUME Rates, Tick
  PROVE  Rates'
<1>1. /\ count' = count
      /\ elapsed' = [v \in Validators |-> IF elapsed[v] > Window THEN elapsed[v] ELSE elapsed[v] + 1]
  BY DEF Tick
<1>2. elapsed' \in [Validators -> 0 .. Window + 1]
  BY <1>1, SshAssumption DEF Rates
<1>3. \A v \in Validators : passes'[v] = [a \in Ages |-> IF a = 0 THEN 0 ELSE passes[v][a - 1]]
  BY DEF Tick
<1>4. restarts' = [a \in Ages |-> IF a = 0 THEN 0 ELSE restarts[a - 1]]
  BY DEF Tick
<1>5. /\ restarts' \in [Ages -> Nat]
      /\ \A k \in Ages : k # 0 => k - 1 \in Ages /\ Recent(restarts', k) = Recent(restarts, k - 1)
  <2>1. restarts \in [Ages -> Nat]
    BY DEF Rates
  <2>2. /\ restarts' \in [Ages -> Nat] /\ restarts'[0] = 0
        /\ \A a \in Ages : a # 0 => restarts'[a] = restarts[a - 1]
    BY <1>4, <2>1, SshAssumption DEF Ages
  <2> QED BY <2>1, <2>2, RecentShift
<1>6. ASSUME NEW v \in Validators
      PROVE  /\ passes'[v] \in [Ages -> Nat]
             /\ Recent(passes'[v], 0) = 0
             /\ \A k \in Ages : k # 0 => k - 1 \in Ages /\ Recent(passes'[v], k) = Recent(passes[v], k - 1)
  <2>1. passes[v] \in [Ages -> Nat]
    BY DEF Rates
  <2>2. PICK p, q : p = passes[v] /\ q = passes'[v]
    OBVIOUS
  <2>3. p \in [Ages -> Nat] /\ q = [a \in Ages |-> IF a = 0 THEN 0 ELSE p[a - 1]]
    BY <1>3, <2>1, <2>2
  <2>4. q \in [Ages -> Nat] /\ q[0] = 0 /\ \A a \in Ages : a # 0 => q[a] = p[a - 1]
    BY <2>3, SshAssumption DEF Ages
  <2> QED BY <2>2, <2>3, <2>4, RecentShift
<1>7. passes' \in [Validators -> [Ages -> Nat]]
  <2>1. passes' = [v \in Validators |-> passes'[v]]
    BY DEF Tick
  <2> QED BY <1>6, <2>1
<1>8. ASSUME NEW v \in Validators PROVE RateOK(v)'
  <2> PICK e, d : e = elapsed[v] /\ d = elapsed'[v]
    OBVIOUS
  <2>1. /\ e \in 0 .. Window + 1 /\ d = (IF e > Window THEN e ELSE e + 1)
        /\ Window \in Nat /\ RateLimit \in Nat /\ count[v] \in 0 .. RateLimit
    BY <1>1, SshAssumption DEF Rates
  <2>2. RateOK(v)
    BY DEF Rates
  <2>3. ASSUME NEW k \in Ages
        PROVE  /\ k \in 0 .. Window /\ Recent(passes'[v], k) \in Nat
               /\ Allowed(Recent(restarts', k)) \in Nat /\ Allowed(Recent(restarts', k)) >= RateLimit
    BY <1>5, <1>6, RecentNat, AllowedArith DEF Ages
  <2>4. ASSUME NEW k \in Ages, ~NewWindow(v), k < d PROVE Recent(passes'[v], k) <= count[v]
    <3>1. e <= Window
      BY <2>1, <2>4 DEF NewWindow
    <3>2. CASE k = 0
      BY <1>6, <2>1, <3>2
    <3>3. CASE k # 0
      <4>1. k - 1 \in Ages /\ Recent(passes'[v], k) = Recent(passes[v], k - 1)
        BY <1>6, <3>3
      <4>2. k - 1 < e
        BY <2>1, <2>3, <2>4, <3>1
      <4> QED BY <2>2, <2>4, <4>1, <4>2 DEF RateOK
    <3> QED BY <3>2, <3>3
  <2>5. NewWindow(v) => NewWindow(v)'
    BY <2>1 DEF NewWindow
  <2>6. ASSUME NEW k \in Ages
        PROVE  Recent(passes'[v], k) <= Allowed(Recent(restarts', k)) + WindowCount(v)'
    <3>1. CASE NewWindow(v)' /\ ~NewWindow(v)
      <4>1. d = Window + 1
        BY <2>1, <3>1 DEF NewWindow
      <4>2. Recent(passes'[v], k) <= count[v]
        BY <2>1, <2>3, <2>4, <3>1, <4>1
      <4>3. WindowCount(v)' = 0
        BY <3>1 DEF WindowCount
      <4> QED BY <2>1, <2>3, <4>2, <4>3
    <3>2. CASE ~(NewWindow(v)' /\ ~NewWindow(v))
      <4>1. WindowCount(v)' = WindowCount(v) /\ WindowCount(v) \in Nat
        BY <1>1, <2>1, <2>5, <3>2 DEF WindowCount
      <4>2. CASE k = 0
        BY <1>6, <2>3, <4>1, <4>2
      <4>3. CASE k # 0
        <5>1. /\ k - 1 \in Ages /\ Recent(passes'[v], k) = Recent(passes[v], k - 1)
              /\ Recent(restarts', k) = Recent(restarts, k - 1)
          BY <1>5, <1>6, <4>3
        <5>2. Recent(passes[v], k - 1) <= Allowed(Recent(restarts, k - 1)) + WindowCount(v)
          BY <2>2, <5>1 DEF RateOK
        <5> QED BY <4>1, <5>1, <5>2
      <4> QED BY <4>2, <4>3
    <3> QED BY <3>1, <3>2
  <2>7. \A k \in Ages : ~NewWindow(v)' /\ k < elapsed'[v] => Recent(passes'[v], k) <= count'[v]
    BY <1>1, <2>4, <2>5
  <2> QED BY <2>6, <2>7 DEF RateOK
<1> QED BY <1>1, <1>2, <1>5, <1>7, <1>8 DEF Rates

\* A restart forgets the count and the window, not what has passed.
LEMMA CrashRates ==
  ASSUME Rates, Crash
  PROVE  Rates'
<1>1. /\ count' = [v \in Validators |-> 0] /\ elapsed' = [v \in Validators |-> Window + 1]
      /\ restarts' = [restarts EXCEPT ![0] = @ + 1] /\ passes' = passes
  BY DEF Crash
<1>2. restarts' \in [Ages -> Nat] /\ \A k \in Ages : Recent(restarts', k) = Recent(restarts, k) + 1
  <2>1. restarts \in [Ages -> Nat] /\ 0 \in Ages
    BY SshAssumption DEF Rates, Ages
  <2>2. /\ restarts' \in [Ages -> Nat] /\ restarts'[0] = restarts[0] + 1
        /\ \A a \in Ages \ {0} : restarts[a] = restarts'[a]
    BY <1>1, <2>1
  <2> QED BY <2>1, <2>2, RecentBump
<1>3. ASSUME NEW v \in Validators PROVE RateOK(v)'
  <2>1. NewWindow(v)'
    BY <1>1, SshAssumption DEF NewWindow
  <2>2. WindowCount(v)' = 0
    BY <2>1 DEF WindowCount
  <2>3. ASSUME NEW k \in Ages
        PROVE  Recent(passes[v], k) <= Allowed(Recent(restarts, k) + 1) + 0
    <3>1. Recent(passes[v], k) \in Nat /\ Recent(restarts, k) \in Nat
      BY RecentNat DEF Rates
    <3>2. /\ Allowed(Recent(restarts, k)) \in Nat
          /\ Allowed(Recent(restarts, k) + 1) = Allowed(Recent(restarts, k)) + RateLimit
      BY <3>1, AllowedArith
    <3>3. WindowCount(v) \in Nat /\ WindowCount(v) <= RateLimit
      BY SshAssumption DEF WindowCount, Rates
    <3>4. Recent(passes[v], k) <= Allowed(Recent(restarts, k)) + WindowCount(v)
      BY DEF Rates, RateOK
    <3> QED BY <3>1, <3>2, <3>3, <3>4, SshAssumption
  <2> QED BY <1>1, <1>2, <2>1, <2>2, <2>3 DEF RateOK
<1> QED BY <1>1, <1>2, <1>3, SshAssumption DEF Rates

LEMMA InitRates == ASSUME Init PROVE Rates
<1>1. /\ count = [v \in Validators |-> 0] /\ elapsed = [v \in Validators |-> Window + 1]
      /\ passes = [v \in Validators |-> [a \in Ages |-> 0]] /\ restarts = [a \in Ages |-> 0]
  BY DEF Init
<1>2. ASSUME NEW v \in Validators PROVE RateOK(v)
  <2>1. NewWindow(v)
    BY <1>1, SshAssumption DEF NewWindow
  <2>2. WindowCount(v) = 0
    BY <2>1 DEF WindowCount
  <2>3. ASSUME NEW k \in Ages PROVE Recent(passes[v], k) <= Allowed(Recent(restarts, k)) + 0
    <3>1. passes[v] \in [Ages -> Nat] /\ restarts \in [Ages -> Nat] /\ \A a \in Ages : passes[v][a] = 0
      BY <1>1
    <3>2. IsFiniteSet(0 .. k) /\ (\A a \in 0 .. k : passes[v][a] = 0) /\ Recent(restarts, k) \in Nat
      BY <3>1, RecentNat
    <3>3. Recent(passes[v], k) = 0
      BY <3>2, SumZero DEF Recent
    <3>4. Allowed(Recent(restarts, k)) \in Nat
      BY <3>2, AllowedArith
    <3> QED BY <3>3, <3>4
  <2> QED BY <2>1, <2>2, <2>3 DEF RateOK
<1> QED BY <1>1, <1>2, SshAssumption DEF Rates

LEMMA StepRates == Rates /\ [Next]_vars => Rates'
<1> SUFFICES ASSUME Rates, [Next]_vars PROVE Rates'
  OBVIOUS
<1>1. ASSUME NEW h \in Handlers, CreateSession(h) PROVE Rates'
  BY <1>1, CreateRates
<1>2. CASE UNCHANGED rates
  BY <1>2 DEF rates, Rates, RateOK, WindowCount, NewWindow
<1>3. \/ \E h \in Handlers : CreateSession(h)
      \/ Tick \/ Crash \/ UNCHANGED rates
  BY DEF Next, HandlerStep, TimerStep, CheckConcurrentLimits, AddValidatorKey, StoreSession, SpawnTimer,
     CloseSession, RevokeForClose, MarkClosed, DropHandler, TimerFires, TimerRevokes, TimerMarks, vars
<1> QED BY <1>1, <1>2, <1>3, TickRates, CrashRates

\* In any span of one hour at most twice session_rate_limit requests of a validator
\* pass check_rate_limits, and one limit more for each restart of the miner in that
\* hour, for every limit, window and sequence of requests, windows and restarts.
THEOREM RateIsBounded == Spec => []RateBounded
<1>1. Init => Rates
  BY InitRates
<1>2. Rates => RateBounded
  <2> SUFFICES ASSUME Rates, NEW v \in Validators
               PROVE  SumFunction(passes[v]) <= (2 + SumFunction(restarts)) * RateLimit
    BY DEF RateBounded
  <2>1. passes[v] \in [Ages -> Nat] /\ restarts \in [Ages -> Nat]
    BY DEF Rates
  <2>2. Window \in Ages /\ Ages = 0 .. Window
    BY SshAssumption DEF Ages
  <2>3. DOMAIN passes[v] = 0 .. Window /\ DOMAIN restarts = 0 .. Window
    BY <2>1, <2>2
  <2>4. SumFunction(passes[v]) = Recent(passes[v], Window)
    BY <2>3, Zenon DEF SumFunction, Recent
  <2>5. SumFunction(restarts) = Recent(restarts, Window)
    BY <2>3, Zenon DEF SumFunction, Recent
  <2> PICK n, m : n = Recent(restarts, Window) /\ m = Recent(passes[v], Window)
    OBVIOUS
  <2>6. n \in Nat /\ m \in Nat
    BY <2>1, <2>2, RecentNat
  <2>7. m <= Allowed(n) + WindowCount(v)
    BY <2>2 DEF Rates, RateOK
  <2>8. WindowCount(v) \in Nat /\ WindowCount(v) <= RateLimit /\ RateLimit \in Nat
    BY SshAssumption DEF WindowCount, Rates
  <2>9. (2 + n) * RateLimit = RateLimit * (1 + n) + RateLimit
    BY <2>6, <2>8
  <2>10. m <= (2 + n) * RateLimit
    <3>1. RateLimit * (1 + n) \in Nat
      BY <2>6, <2>8
    <3> QED BY <2>6, <2>7, <2>8, <2>9, <3>1 DEF Allowed
  <2> QED BY <2>4, <2>5, <2>10
<1> QED BY <1>1, <1>2, StepRates, PTL DEF Spec

=============================================================================
