---------------------------- MODULE PriceOracle -----------------------------
(***************************************************************************)
(* The price oracle of the payments service (price_oracle/mod.rs): a cache *)
(* of the TAO/USD price behind a tokio RwLock, read by conversions and     *)
(* written by a background task.                                           *)
(*                                                                         *)
(* tokio's RwLock is fair: requests are granted in the order they arrive,  *)
(* a read when no task writes, a write when no task holds a guard.  Both   *)
(* write().await statements of the code assign and drop the guard at once, *)
(* so a granted write is one step.  Prices are told apart by their age.    *)
(***************************************************************************)
EXTENDS Naturals, Sequences

CONSTANTS
  Callers,    \* tasks calling get_tao_usd_price: the dispatcher of the process
  Refresher   \* the task run() spawns, none of the callers

VARIABLES
  cached,  \* cached_price: "none", "fresh" or "stale"
  queue,   \* requests waiting for the lock, oldest first
  guards,  \* task -> read guards it holds
  pc       \* task -> where it is

vars == <<cached, queue, guards, pc>>

Tasks == Callers \cup {Refresher}
Read(c) == [task |-> c, mode |-> "read"]
Write(t) == [task |-> t, mode |-> "write"]

Init ==
  /\ cached = "none"
  /\ queue = <<>>
  /\ guards = [t \in Tasks |-> 0]
  /\ pc = [t \in Tasks |-> "idle"]

IsHead(r) == queue # <<>> /\ Head(queue) = r

\* No guard is held, the writer's own included.
CanWrite(t) == \A u \in Tasks : guards[u] = 0

\* The guards of the call are dropped when it returns.
Return(t) ==
  /\ guards' = [guards EXCEPT ![t] = 0]
  /\ pc' = [pc EXCEPT ![t] = "idle"]

-----------------------------------------------------------------------------
(* get_tao_usd_price of a caller, refresh_price of the background task.    *)

\* let cache = self.cached_price.read().await
GetPrice(c) ==
  /\ pc[c] = "idle"
  /\ queue' = Append(queue, Read(c))
  /\ pc' = [pc EXCEPT ![c] = "lookup"]
  /\ UNCHANGED <<cached, guards>>

\* The guard `cache` lives to the end of the call: with a fresh price that is the
\* lookup, otherwise it is kept across the fetch.
KeptGuard(c) == IF cached = "fresh" THEN 0 ELSE 1

\* The guard is granted: a fresh price is returned, otherwise the API is called.
Lookup(c) ==
  /\ pc[c] = "lookup"
  /\ IsHead(Read(c))
  /\ queue' = Tail(queue)
  /\ guards' = [guards EXCEPT ![c] = KeptGuard(c)]
  /\ pc' = [pc EXCEPT ![c] = IF cached = "fresh" THEN "idle" ELSE "fetch"]
  /\ UNCHANGED cached

\* The interval of run() ticks; the API is called before the lock is asked for.
Tick ==
  /\ pc[Refresher] = "idle"
  /\ pc' = [pc EXCEPT ![Refresher] = "fetch"]
  /\ UNCHANGED <<cached, queue, guards>>

\* The API answers with a price, which is to be written.
Fetched(t) ==
  /\ pc[t] = "fetch"
  /\ queue' = Append(queue, Write(t))
  /\ pc' = [pc EXCEPT ![t] = "store"]
  /\ UNCHANGED <<cached, guards>>

\* The API fails or times out: a caller reads the cache a second time, the background
\* task waits for its next tick.
FetchFailed(t) ==
  /\ pc[t] = "fetch"
  /\ IF t \in Callers
     THEN queue' = Append(queue, Read(t)) /\ pc' = [pc EXCEPT ![t] = "fallback"]
     ELSE pc' = [pc EXCEPT ![t] = "idle"] /\ UNCHANGED queue
  /\ UNCHANGED <<cached, guards>>

\* *self.cached_price.write().await = Some(cached)
Store(t) ==
  /\ pc[t] = "store"
  /\ IsHead(Write(t))
  /\ CanWrite(t)
  /\ queue' = Tail(queue)
  /\ cached' = "fresh"
  /\ Return(t)

\* The second guard is granted: the old price is returned, or an error without one.
Fallback(c) ==
  /\ pc[c] = "fallback"
  /\ IsHead(Read(c))
  /\ queue' = Tail(queue)
  /\ Return(c)
  /\ UNCHANGED cached

\* max_price_age passes.
Age ==
  /\ cached = "fresh"
  /\ cached' = "stale"
  /\ UNCHANGED <<queue, guards, pc>>

-----------------------------------------------------------------------------

Next ==
  \/ \E c \in Callers : GetPrice(c) \/ Lookup(c) \/ Fallback(c)
  \/ \E t \in Tasks : Fetched(t) \/ FetchFailed(t) \/ Store(t)
  \/ Tick
  \/ Age

Spec == Init /\ [][Next]_vars

\* A task whose future is ready is polled: the lock wakes the oldest request, the HTTP
\* client answers or times out and the interval ticks.  Nobody has to ask for a price.
Fairness ==
  /\ \A c \in Callers : WF_vars(Lookup(c)) /\ WF_vars(Fallback(c))
  /\ \A t \in Tasks : WF_vars(Fetched(t) \/ FetchFailed(t)) /\ WF_vars(Store(t))
  /\ WF_vars(Tick)

FairSpec == Spec /\ Fairness

-----------------------------------------------------------------------------
(* Properties.                                                             *)

\* price_oracle/mod.rs: "Get current TAO/USD price, fetching from API if cache is
\* stale".  Here: a call that finds no fresh price and goes to the API returns.
FetchingCallsReturn == \A c \in Callers : pc[c] = "fetch" ~> pc[c] = "idle"

\* What happens instead: a call that fetched a price waits for the read guard it holds
\* itself, so it never returns, and no refresh makes the cache fresh again.
StuckForGood ==
  [][\A c \in Callers :
       pc[c] = "store" => pc'[c] = "store" /\ (cached' = "fresh" => cached = "fresh")]_vars

=============================================================================
