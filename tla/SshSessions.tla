---------------------------- MODULE SshSessions ----------------------------
(***************************************************************************)
(* SSH sessions of validators on a miner's executors: the miner's          *)
(* SshSessionOrchestrator (ssh/session_orchestrator.rs) and the part of    *)
(* the executor it calls (provision_validator_access and                   *)
(* grant_ssh_access), which edits the validator's authorized_keys.         *)
(*                                                                         *)
(* An action is the work of a request handler, or of the timer task a new  *)
(* session spawns, between two awaits.  A call to the executor may fail    *)
(* before or after it took effect (timeouts and the attempts of            *)
(* retry_grpc_call, whose repeated nonce the executor refuses, give no     *)
(* other outcome), and a handler is dropped at any await when its client   *)
(* goes away.  The miner keeps everything in memory, so a crash loses it;  *)
(* the executor's files stay.  A request names a validator's hotkey, and   *)
(* nothing here says who sent it: the hotkey is all the orchestrator has.  *)
(*                                                                         *)
(* Time is relative: left is what remains of a session's time, elapsed the *)
(* age of a rate-limit window.  Requests that validate_session_request     *)
(* refuses, listing, audit logs and sessions_by_validator (written, never  *)
(* read) are left out, and so are run_cleanup_task, which nothing starts,  *)
(* and the executor's own revocation, which the miner never asks for.      *)
(***************************************************************************)
EXTENDS Integers, FiniteSets, Functions

CONSTANTS
  Handlers,      \* requests that may be served at the same time
  Validators,    \* hotkeys named in requests that create sessions
  OtherHotkeys,  \* hotkeys named only in requests that close them
  Executors,
  Keys,          \* public keys of validators
  MaxSessions,   \* max_sessions_per_validator
  RateLimit,     \* session_rate_limit
  Window,        \* the rate limit's hour, in ticks
  MaxDuration,   \* max_session_duration, in ticks
  MaxIds,        \* bound: sessions stored between two restarts
  MaxRestarts    \* bound: restarts of the miner within an hour

ASSUME SshAssumption ==
  /\ IsFiniteSet(Handlers) /\ Handlers # {}
  /\ MaxSessions \in Nat \ {0} /\ RateLimit \in Nat /\ Window \in Nat
  /\ MaxDuration \in Nat \ {0} /\ MaxIds \in Nat /\ MaxRestarts \in Nat

VARIABLES
  sessions,   \* id -> session, or NoSession
  stored,     \* sessions stored since the start; the last one's id
  count,      \* validator -> session_count of its window
  elapsed,    \* validator -> age of its window, at most Window + 1
  pc,         \* handler -> its next await
  req,        \* handler -> the request it serves
  target,     \* handler -> the session it closes
  timer,      \* id -> state of the session's timer task
  keys,       \* executor -> <<validator, key>> pairs in authorized_keys
  passes,     \* history: validator -> requests that passed the rate limit, by age
  restarts    \* history: restarts of the miner, by age

rates == <<count, elapsed, passes, restarts>>
handler == <<pc, req, target>>
vars == <<sessions, stored, rates, handler, timer, keys>>

Ids == 1 .. MaxIds
Ages == 0 .. Window
Requests ==
  [validator: Validators, executor: Executors, key: Keys, duration: 1 .. MaxDuration]
Hotkeys == Validators \cup OtherHotkeys
NoSession == [status |-> "none"]
NoRequest == [validator |-> "none"]

Init ==
  /\ sessions = [s \in Ids |-> NoSession]
  /\ stored = 0
  /\ count = [v \in Validators |-> 0]
  /\ elapsed = [v \in Validators |-> Window + 1]
  /\ passes = [v \in Validators |-> [a \in Ages |-> 0]]
  /\ restarts = [a \in Ages |-> 0]
  /\ pc = [h \in Handlers |-> "idle"]
  /\ req = [h \in Handlers |-> NoRequest]
  /\ target = [h \in Handlers |-> 0]
  /\ timer = [s \in Ids |-> "none"]
  /\ keys = [e \in Executors |-> {}]

Active(s) == sessions[s].status = "Active"
ActiveOf(v) == {s \in Ids : Active(s) /\ sessions[s].validator = v}

Goto(h, l) == pc' = [pc EXCEPT ![h] = l] /\ UNCHANGED <<req, target>>

Finish(h) ==
  /\ pc' = [pc EXCEPT ![h] = "idle"]
  /\ req' = [req EXCEPT ![h] = NoRequest]
  /\ target' = [target EXCEPT ![h] = 0]

-----------------------------------------------------------------------------
(* The executor.                                                           *)

\* append_key_safely_atomic, under the file's lock: no second entry for a key.
WithKey(file, v, k) == file \cup {<<v, k>>}

\* provision_validator_access grants access; duration_seconds is not read.
Provision(e, r, duration) == [keys EXCEPT ![e] = WithKey(@, r.validator, r.key)]

\* A call that returned an error, and may have taken effect.
FailedCall(r, duration) ==
  keys' \in {keys, Provision(r.executor, r, duration)}

-----------------------------------------------------------------------------
(* create_session.                                                         *)

\* check_rate_limits: an expired window starts again; the count is not taken
\* back when the request fails later.
NewWindow(v) == elapsed[v] > Window
WindowAge_Mutant(v) == elapsed[v]

WindowAge(v) == IF NewWindow(v) THEN 0 ELSE elapsed[v]
WindowCount(v) == IF NewWindow(v) THEN 0 ELSE count[v]

MayPass(v) == WindowCount(v) < RateLimit

CreateSession(h) ==
  /\ pc[h] = "idle"
  /\ \E r \in Requests :
       /\ MayPass(r.validator)
       /\ count' = [count EXCEPT ![r.validator] = WindowCount(r.validator) + 1]
       /\ elapsed' = [elapsed EXCEPT ![r.validator] = WindowAge(r.validator)]
       /\ passes' = [passes EXCEPT ![r.validator][0] = @ + 1]
       /\ req' = [req EXCEPT ![h] = r]
  /\ pc' = [pc EXCEPT ![h] = "limit"]
  /\ UNCHANGED <<sessions, stored, restarts, target, timer, keys>>

BelowLimit_Mutant(v) == Cardinality(ActiveOf(v)) <= MaxSessions

\* check_concurrent_limits counts what is stored now.
BelowLimit(v) == Cardinality(ActiveOf(v)) < MaxSessions

CheckConcurrentLimits(h) ==
  /\ pc[h] = "limit"
  /\ IF BelowLimit(req[h].validator) THEN Goto(h, "provision") ELSE Finish(h)
  /\ UNCHANGED <<sessions, stored, rates, timer, keys>>

\* The call to the executor; on an error the request fails.
AddValidatorKey(h) ==
  /\ pc[h] = "provision"
  /\ \/ /\ keys' = Provision(req[h].executor, req[h], req[h].duration)
        /\ Goto(h, "store")
     \/ /\ FailedCall(req[h], req[h].duration)
        /\ Finish(h)
  /\ UNCHANGED <<sessions, stored, rates, timer>>

\* The session is stored as Active; its timer task is spawned after the awaits
\* on sessions_by_validator and the audit log.
StoreSession(h) ==
  /\ pc[h] = "store"
  /\ stored < MaxIds
  /\ stored' = stored + 1
  /\ sessions' = [sessions EXCEPT ![stored + 1] =
       [validator |-> req[h].validator, executor |-> req[h].executor,
        key |-> req[h].key, left |-> req[h].duration, status |-> "Active"]]
  /\ target' = [target EXCEPT ![h] = stored + 1]
  /\ pc' = [pc EXCEPT ![h] = "spawn"]
  /\ req' = [req EXCEPT ![h] = NoRequest]
  /\ UNCHANGED <<rates, timer, keys>>

SpawnTimer(h) ==
  /\ pc[h] = "spawn"
  /\ timer' = [timer EXCEPT ![target[h]] = "armed"]
  /\ Finish(h)
  /\ UNCHANGED <<sessions, stored, rates, keys>>

-----------------------------------------------------------------------------
(* close_session and cleanup_expired_session.                              *)

Owns_Mutant(v, s) == sessions[s].status # "none"

\* A request closes a session, in whatever state it is, if the hotkey it names is
\* that of the session's validator.
Owns(v, s) == sessions[s].status # "none" /\ sessions[s].validator = v

CloseSession(h) ==
  /\ pc[h] = "idle"
  /\ \E v \in Hotkeys, s \in Ids :
       /\ Owns(v, s)
       /\ req' = [req EXCEPT ![h] = [validator |-> v]]
       /\ target' = [target EXCEPT ![h] = s]
  /\ pc' = [pc EXCEPT ![h] = "revoke"]
  /\ UNCHANGED <<sessions, stored, rates, timer, keys>>

\* remove_validator_key_from_executor provisions with duration 0.
RevokeForClose(h) ==
  /\ pc[h] = "revoke"
  /\ \/ /\ keys' = Provision(sessions[target[h]].executor, sessions[target[h]], 0)
        /\ Goto(h, "mark")
     \/ /\ FailedCall(sessions[target[h]], 0)
        /\ Finish(h)
  /\ UNCHANGED <<sessions, stored, rates, timer>>

MarkClosed(h) ==
  /\ pc[h] = "mark"
  /\ sessions' = [sessions EXCEPT ![target[h]].status = "Expired"]
  /\ Finish(h)
  /\ UNCHANGED <<stored, rates, timer, keys>>

TimerFires(s) ==
  /\ timer[s] = "armed" /\ sessions[s].left = 0
  /\ timer' = [timer EXCEPT ![s] = IF Active(s) THEN "revoke" ELSE "done"]
  /\ UNCHANGED <<sessions, stored, rates, handler, keys>>

AfterFailedRevoke_Mutant == "done"

\* Unlike close_session it goes on when the executor cannot be reached.
AfterFailedRevoke == "mark"

TimerRevokes(s) ==
  /\ timer[s] = "revoke"
  /\ \/ /\ keys' = Provision(sessions[s].executor, sessions[s], 0)
        /\ timer' = [timer EXCEPT ![s] = "mark"]
     \/ /\ FailedCall(sessions[s], 0)
        /\ timer' = [timer EXCEPT ![s] = AfterFailedRevoke]
  /\ UNCHANGED <<sessions, stored, rates, handler>>

TimerMarks(s) ==
  /\ timer[s] = "mark"
  /\ sessions' = [sessions EXCEPT ![s].status = "Expired"]
  /\ timer' = [timer EXCEPT ![s] = "done"]
  /\ UNCHANGED <<stored, rates, handler, keys>>

-----------------------------------------------------------------------------

\* The client of a request is gone: its handler is dropped at the await it is in.
DropHandler(h) ==
  /\ pc[h] # "idle"
  /\ Finish(h)
  /\ UNCHANGED <<sessions, stored, rates, timer, keys>>

Tick ==
  /\ sessions' = [s \in Ids |->
       IF sessions[s].status # "none" /\ sessions[s].left > 0
         THEN [sessions[s] EXCEPT !.left = @ - 1] ELSE sessions[s]]
  /\ elapsed' = [v \in Validators |->
       IF elapsed[v] > Window THEN elapsed[v] ELSE elapsed[v] + 1]
  /\ passes' = [v \in Validators |->
       [a \in Ages |-> IF a = 0 THEN 0 ELSE passes[v][a - 1]]]
  /\ restarts' = [a \in Ages |-> IF a = 0 THEN 0 ELSE restarts[a - 1]]
  /\ UNCHANGED <<stored, count, handler, timer, keys>>

\* The miner restarts: sessions, timers and rate limits are gone, and what passed
\* before the restart is still in the last hour.
Crash ==
  /\ SumFunction(restarts) < MaxRestarts
  /\ restarts' = [restarts EXCEPT ![0] = @ + 1]
  /\ sessions' = [s \in Ids |-> NoSession]
  /\ timer' = [s \in Ids |-> "none"]
  /\ count' = [v \in Validators |-> 0]
  /\ elapsed' = [v \in Validators |-> Window + 1]
  /\ pc' = [h \in Handlers |-> "idle"]
  /\ req' = [h \in Handlers |-> NoRequest]
  /\ target' = [h \in Handlers |-> 0]
  /\ stored' = 0
  /\ UNCHANGED <<passes, keys>>

HandlerStep(h) ==
  \/ CreateSession(h) \/ CheckConcurrentLimits(h) \/ AddValidatorKey(h)
  \/ StoreSession(h) \/ SpawnTimer(h) \/ CloseSession(h) \/ RevokeForClose(h)
  \/ MarkClosed(h) \/ DropHandler(h)

TimerStep(s) == TimerFires(s) \/ TimerRevokes(s) \/ TimerMarks(s)

Next ==
  \/ \E h \in Handlers : HandlerStep(h)
  \/ \E s \in Ids : TimerStep(s)
  \/ Tick
  \/ Crash

Spec == Init /\ [][Next]_vars

\* Time passes, and while a spawned task can take a step some task does; every
\* call a task makes ends, by its timeout at the latest.
FairSpec == Spec /\ WF_vars(Tick) /\ WF_vars(\E s \in Ids : TimerStep(s))

-----------------------------------------------------------------------------
(* Properties.                                                             *)

\* Requests past the limit check, whose session is not stored yet.
Admitted(v) == {h \in Handlers : pc[h] \in {"provision", "store"} /\ req[h].validator = v}

\* The limit of concurrent sessions is checked before the call to the executor
\* and the session is stored after it, so overlapping requests exceed it; but
\* never by more than the requests that overlap.
OvershootBounded ==
  \A v \in Validators :
    Cardinality(ActiveOf(v)) + Cardinality(Admitted(v))
      <= MaxSessions + Cardinality(Handlers) - 1

\* In any span of one hour at most twice session_rate_limit requests of a
\* validator pass, and one limit more for each restart of the miner in that hour:
\* the fixed window lets through two full counts around its end, and a restart
\* forgets the count and the window together.
RateBounded ==
  \A v \in Validators :
    SumFunction(passes[v]) <= (2 + SumFunction(restarts)) * RateLimit

\* A session ends when its time is over or by a close request that names the
\* hotkey of its validator: no request that names another one, no close of another
\* session and no timer that fires early ends it.
EndedByItsHotkeyOrTime ==
  [][\A s \in Ids :
       Active(s) /\ sessions'[s].status = "Expired" =>
         \/ sessions[s].left = 0
         \/ \E h \in Handlers : /\ pc[h] = "mark" /\ target[h] = s
                                /\ req[h].validator = sessions[s].validator]_vars

\* Every session whose timer was spawned ends, also when its executor can no
\* longer be reached and whatever close requests fail halfway.  (A handler
\* dropped after it stored the session leaves one without a timer: nothing ends
\* it, and it counts against the limit until the miner restarts.)
SessionsEnd == \A s \in Ids : (Active(s) /\ timer[s] # "none") ~> ~Active(s)

=============================================================================
