----------------------------- MODULE RateLimiter -----------------------------
(***************************************************************************)
(* RateLimiter (rpc_rate_limiter.cc), a token bucket whose fields are      *)
(* separate atomics.  try_acquire refills under mutex_ with a load and a   *)
(* store of tokens_, and takes its permits outside it with a CAS, so the   *)
(* refill of one thread and the CAS of another interleave.  set_rate takes *)
(* no lock at all.  Every load, store and CAS is a step of its own.        *)
(*                                                                         *)
(* PerSecond is the 1000 of the code (milliseconds in a second): the model *)
(* counts time in coarser ticks.                                           *)
(***************************************************************************)
EXTENDS Integers

CONSTANTS Threads,      \* the threads that call try_acquire
          NoThread,     \* the owner of mutex_ when it is free
          Permits,      \* the arguments of try_acquire
          InitialRate,  \* the qps of the constructor
          Rates,        \* the arguments of set_rate
          NoRate,       \* no set_rate is running
          TopRate,      \* no rate is higher than this
          PerSecond,    \* clock ticks in a second
          MaxClock,     \* bound: the clock stops here
          MaxSets       \* bound: calls of set_rate

ASSUME ThreadAssumption == NoThread \notin Threads
ASSUME RateAssumption ==
  /\ InitialRate \in Nat \ {0}
  /\ Rates \subseteq Nat
  /\ NoRate \notin Rates
  /\ TopRate \in Nat /\ \A r \in Rates \cup {InitialRate} : r <= TopRate
  /\ Permits \subseteq Nat \ {0}
  /\ PerSecond \in Nat \ {0}
  /\ MaxClock \in Nat
  /\ MaxSets \in Nat

VARIABLES
  qps,          \* qps_
  tokens,       \* tokens_
  last_refill,  \* last_refill_time_
  mutex,        \* the thread that holds mutex_, or NoThread
  setting,      \* the qps of the set_rate that is half done, or NoRate
  clock,        \* system_clock
  pc,           \* the next step of each thread
  permits,      \* try_acquire: permits
  now,          \* try_acquire_internal: now
  last_time,    \* try_acquire_internal: last_time, before the lock
  rate,         \* try_acquire_internal: the local qps
  current,      \* try_acquire_internal: current, then current_tokens
  granted,      \* history: permits granted
  credited,     \* history: tokens credited by refills
  overwrites,   \* history: stores to tokens_ by refills and set_rate
  sets          \* history: calls of set_rate

shared  == <<qps, tokens, last_refill, mutex, setting, clock>>
locals  == <<permits, now, last_time, rate, current>>
history == <<granted, credited, overwrites, sets>>
vars    == <<shared, pc, locals, history>>

Locations == {"Idle", "ReadNow", "LoadLast", "LoadQps", "Lock", "LoadCurrent",
              "StoreTokens", "StoreLast", "LoadTokens", "Cas"}

Lesser(a, b) == IF a <= b THEN a ELSE b

\* new_tokens: what a period of time is worth, rounded down.
NewTokens(elapsed, r) == (elapsed * r) \div PerSecond

Goto(t, from, to) == pc[t] = from /\ pc' = [pc EXCEPT ![t] = to]

-----------------------------------------------------------------------------
Init ==
  /\ qps = InitialRate
  /\ tokens = InitialRate
  /\ last_refill = 0 /\ clock = 0
  /\ mutex = NoThread
  /\ setting = NoRate
  /\ pc = [t \in Threads |-> "Idle"]
  /\ permits = [t \in Threads |-> 0]
  /\ now = [t \in Threads |-> 0]
  /\ last_time = [t \in Threads |-> 0]
  /\ rate = [t \in Threads |-> 0]
  /\ current = [t \in Threads |-> 0]
  /\ granted = 0 /\ credited = 0 /\ overwrites = 0 /\ sets = 0

\* try_acquire: the rate must be positive.
TryAcquire(t, p) ==
  /\ qps > 0
  /\ Goto(t, "Idle", "ReadNow")
  /\ permits' = [permits EXCEPT ![t] = p]
  /\ UNCHANGED <<shared, now, last_time, rate, current, history>>

\* try_acquire: the early return.
Refuse(t) == pc[t] = "Idle" /\ qps <= 0 /\ UNCHANGED vars

ReadNow(t) ==
  /\ Goto(t, "ReadNow", "LoadLast")
  /\ now' = [now EXCEPT ![t] = clock]
  /\ UNCHANGED <<shared, permits, last_time, rate, current, history>>

LoadLast(t) ==
  /\ Goto(t, "LoadLast", "LoadQps")
  /\ last_time' = [last_time EXCEPT ![t] = last_refill]
  /\ UNCHANGED <<shared, permits, now, rate, current, history>>

\* The load of qps_, and the first test of new_tokens.
LoadQps(t) ==
  /\ rate' = [rate EXCEPT ![t] = qps]
  /\ \/ NewTokens(now[t] - last_time[t], qps) > 0  /\ Goto(t, "LoadQps", "Lock")
     \/ NewTokens(now[t] - last_time[t], qps) <= 0 /\ Goto(t, "LoadQps", "LoadTokens")
  /\ UNCHANGED <<shared, permits, now, last_time, current, history>>

\* The refill of thread t is worth this once it holds mutex_: last_refill_time_
\* cannot change before it is done.
Refill(t) == NewTokens(now[t] - last_refill, rate[t])

\* The lock, and the second test of new_tokens.
Lock(t) ==
  /\ mutex = NoThread
  /\ \/ Refill(t) > 0  /\ Goto(t, "Lock", "LoadCurrent") /\ mutex' = t
     \/ Refill(t) <= 0 /\ Goto(t, "Lock", "LoadTokens")  /\ UNCHANGED mutex
  /\ UNCHANGED <<qps, tokens, last_refill, setting, clock, locals, history>>

LoadCurrent(t) ==
  /\ Goto(t, "LoadCurrent", "StoreTokens")
  /\ current' = [current EXCEPT ![t] = tokens]
  /\ UNCHANGED <<shared, permits, now, last_time, rate, history>>

\* Faulty variant: the bucket has no capacity.
StoreTokens_NoCap(t) ==
  /\ Goto(t, "StoreTokens", "StoreLast")
  /\ tokens' = current[t] + Refill(t)
  /\ overwrites' = overwrites + 1
  /\ UNCHANGED <<qps, last_refill, mutex, setting, clock, locals, granted, credited, sets>>

\* The store of the refilled bucket, whatever was taken since LoadCurrent.
StoreTokens(t) ==
  /\ Goto(t, "StoreTokens", "StoreLast")
  /\ tokens' = Lesser(current[t] + Refill(t), rate[t])
  /\ overwrites' = overwrites + 1
  /\ UNCHANGED <<qps, last_refill, mutex, setting, clock, locals, granted, credited, sets>>

\* Faulty variant: last_refill_time_ is not moved.
StoreLast_Forgets(t) ==
  /\ Goto(t, "StoreLast", "LoadTokens")
  /\ credited' = credited + Refill(t)
  /\ mutex' = NoThread
  /\ UNCHANGED <<qps, tokens, last_refill, setting, clock, locals, granted, overwrites, sets>>

\* The store of last_refill_time_, and the unlock.
StoreLast(t) ==
  /\ Goto(t, "StoreLast", "LoadTokens")
  /\ last_refill' = now[t]
  /\ credited' = credited + Refill(t)
  /\ mutex' = NoThread
  /\ UNCHANGED <<qps, tokens, setting, clock, locals, granted, overwrites, sets>>

\* current_tokens, and the first test of the loop: the permits are refused if
\* there are not enough tokens.
LoadTokens(t) ==
  /\ current' = [current EXCEPT ![t] = tokens]
  /\ \/ tokens >= permits[t] /\ Goto(t, "LoadTokens", "Cas")
     \/ tokens < permits[t]  /\ Goto(t, "LoadTokens", "Idle")
  /\ UNCHANGED <<shared, permits, now, last_time, rate, history>>

\* Faulty variant: a store for the compare-and-swap.
Cas_Store(t) ==
  /\ Goto(t, "Cas", "Idle")
  /\ tokens' = current[t] - permits[t]
  /\ granted' = granted + permits[t]
  /\ UNCHANGED <<qps, last_refill, mutex, setting, clock, locals, credited, overwrites, sets>>

\* compare_exchange_weak: the permits are granted, or current_tokens is what
\* another thread left and the loop goes on.
Cas(t) ==
  \/ /\ tokens = current[t]
     /\ Goto(t, "Cas", "Idle")
     /\ tokens' = tokens - permits[t]
     /\ granted' = granted + permits[t]
     /\ UNCHANGED <<qps, last_refill, mutex, setting, clock, locals, credited, overwrites, sets>>
  \/ /\ tokens # current[t]
     /\ current' = [current EXCEPT ![t] = tokens]
     /\ \/ tokens >= permits[t] /\ Goto(t, "Cas", "Cas")
        \/ tokens < permits[t]  /\ Goto(t, "Cas", "Idle")
     /\ UNCHANGED <<shared, permits, now, last_time, rate, history>>

-----------------------------------------------------------------------------
\* set_rate, called under the governance manager's mutex: qps_ ...
SetRate(r) ==
  /\ setting = NoRate
  /\ sets < MaxSets
  /\ qps' = r
  /\ setting' = r
  /\ sets' = sets + 1
  /\ UNCHANGED <<tokens, last_refill, mutex, clock, pc, locals, granted, credited, overwrites>>

\* ... then tokens_.
SetRateTokens ==
  /\ setting # NoRate
  /\ tokens' = setting
  /\ setting' = NoRate
  /\ overwrites' = overwrites + 1
  /\ UNCHANGED <<qps, last_refill, mutex, clock, pc, locals, granted, credited, sets>>

Tick ==
  /\ clock < MaxClock
  /\ clock' = clock + 1
  /\ UNCHANGED <<qps, tokens, last_refill, mutex, setting, pc, locals, history>>

Step(t) ==
  \/ ReadNow(t) \/ LoadLast(t) \/ LoadQps(t) \/ Lock(t) \/ LoadCurrent(t)
  \/ StoreTokens(t) \/ StoreLast(t) \/ LoadTokens(t) \/ Cas(t)

Next ==
  \/ Tick \/ SetRateTokens
  \/ \E r \in Rates : SetRate(r)
  \/ \E t \in Threads : Step(t) \/ Refuse(t) \/ \E p \in Permits : TryAcquire(t, p)

Spec == Init /\ [][Next]_vars

-----------------------------------------------------------------------------
\* Types; tokens_ never goes below zero.
TypeOK ==
  /\ qps \in Nat /\ tokens \in Nat
  /\ last_refill \in Nat /\ clock \in Nat
  /\ mutex \in Threads \cup {NoThread}
  /\ setting \in Rates \cup {NoRate}
  /\ pc \in [Threads -> Locations]
  /\ permits \in [Threads -> Nat]
  /\ now \in [Threads -> Nat]
  /\ last_time \in [Threads -> Nat]
  /\ rate \in [Threads -> Nat]
  /\ current \in [Threads -> Nat]
  /\ granted \in Nat /\ credited \in Nat /\ overwrites \in Nat /\ sets \in Nat

(***************************************************************************)
(* last_refill_time_ never moves back, although each thread stores a clock *)
(* value it read before it waited for the lock                             *)
(* (rpc_rate_limiter.cc:44-66).                                            *)
(***************************************************************************)
RefillMonotone == [][last_refill' >= last_refill]_vars

(***************************************************************************)
(* No period of time is credited twice: what the refills were worth is at  *)
(* most the time up to last_refill_time_ at the highest rate               *)
(* (rpc_rate_limiter.cc:56-66).                                            *)
(***************************************************************************)
CreditBound == credited * PerSecond <= last_refill * TopRate

(***************************************************************************)
(* What is granted is bounded although a refill may overwrite what other   *)
(* threads took meanwhile: at most one full bucket per store to tokens_    *)
(* (rpc_rate_limiter.cc:62-75, 26-30).                                     *)
(***************************************************************************)
AdmissionBound == granted + tokens <= TopRate * (1 + overwrites)

-----------------------------------------------------------------------------
(***************************************************************************)
(* Refinement mapping to TokenBucket for one thread and a fixed rate: a    *)
(* refill takes effect with its store to tokens_.                          *)
(***************************************************************************)
RefillTime == IF \E t \in Threads : pc[t] = "StoreLast"
                THEN now[CHOOSE t \in Threads : pc[t] = "StoreLast"]
                ELSE last_refill

Bucket == INSTANCE TokenBucket WITH Rate <- InitialRate, last_refill <- RefillTime

(***************************************************************************)
(* Used by one thread at a fixed rate, the limiter is a token bucket.      *)
(***************************************************************************)
RefinesTokenBucket == Bucket!Spec
=============================================================================
