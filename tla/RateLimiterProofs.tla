------------------------- MODULE RateLimiterProofs -------------------------
(***************************************************************************)
(* Proofs about RateLimiter, for any number of threads, any rates and any  *)
(* length of a second.                                                     *)
(***************************************************************************)
EXTENDS RateLimiter, TLAPS

\* The product of a natural number with a nonpositive one is nonpositive.
LEMMA ProductSign ==
  ASSUME NEW e \in Int, NEW r \in Nat, e <= 0
  PROVE  e * r <= 0
  OBVIOUS

\* new_tokens of an int64_t period and a rate is an integer.
LEMMA NewTokensInt ==
  ASSUME NEW e \in Int, NEW r \in Nat
  PROVE  NewTokens(e, r) \in Int
  BY RateAssumption DEF NewTokens

\* new_tokens > 0 only for time that has passed.
LEMMA NewTokensPositive ==
  ASSUME NEW e \in Int, NEW r \in Nat, NewTokens(e, r) > 0
  PROVE  e > 0
<1> SUFFICES ASSUME e <= 0 PROVE FALSE
  OBVIOUS
<1> DEFINE p == e * r
<1>1. p \in Int /\ p <= 0
  BY ProductSign
<1>2. p \div PerSecond > 0
  BY DEF NewTokens
<1> HIDE DEF p
<1> QED
  BY <1>1, <1>2, RateAssumption

\* new_tokens is never worth more than the time it stands for.
LEMMA NewTokensWorth ==
  ASSUME NEW e \in Int, NEW r \in Nat
  PROVE  NewTokens(e, r) * PerSecond <= e * r
<1> DEFINE p == e * r
<1>1. p \in Int
  OBVIOUS
<1> HIDE DEF p
<1>2. (p \div PerSecond) * PerSecond <= p
  BY <1>1, RateAssumption
<1> QED
  BY <1>2 DEF NewTokens, p

-----------------------------------------------------------------------------
(***************************************************************************)
(* The types are not inductive by themselves: that a refill does not lower *)
(* tokens_ below zero needs the second test of new_tokens to still hold at *)
(* the store, hence the mutex, and a grant needs the test of the loop to   *)
(* hold for the value the CAS compares with.                               *)
(***************************************************************************)
Refilling == {"LoadCurrent", "StoreTokens", "StoreLast"}

RefillInv ==
  \A t \in Threads : pc[t] \in Refilling => mutex = t /\ Refill(t) > 0

CasInv == \A t \in Threads : pc[t] = "Cas" => current[t] >= permits[t]

IInv == TypeOK /\ RefillInv /\ CasInv

\* The constructor establishes the inductive invariant.
LEMMA InitIInv == Init => IInv
  BY RateAssumption DEF Init, IInv, TypeOK, RefillInv, CasInv, Refilling, Locations

\* What a refill is worth is an integer in every well-typed state.
LEMMA RefillInt ==
  ASSUME TypeOK, NEW t \in Threads
  PROVE  Refill(t) \in Int
  BY NewTokensInt DEF Refill, TypeOK

\* The inductive step for the types.
LEMMA TypeNext == IInv /\ [Next]_vars => TypeOK'
<1> SUFFICES ASSUME IInv, [Next]_vars PROVE TypeOK'
  OBVIOUS
<1> USE RateAssumption, ThreadAssumption DEF IInv, TypeOK, Locations, shared, locals, history
<1>1. CASE Tick \/ SetRateTokens
  BY <1>1 DEF Tick, SetRateTokens
<1>2. ASSUME NEW r \in Rates, SetRate(r) PROVE TypeOK'
  BY <1>2 DEF SetRate
<1>3. ASSUME NEW t \in Threads, NEW p \in Permits, TryAcquire(t, p) PROVE TypeOK'
  BY <1>3 DEF TryAcquire, Goto
<1>4. ASSUME NEW t \in Threads, Step(t) PROVE TypeOK'
  <2>1. CASE ReadNow(t) \/ LoadLast(t) \/ LoadCurrent(t)
    BY <2>1 DEF ReadNow, LoadLast, LoadCurrent, Goto
  <2>2. CASE LoadQps(t)
    BY <2>2 DEF LoadQps, Goto
  <2>3. CASE Lock(t)
    BY <2>3 DEF Lock, Goto
  <2>4. CASE StoreTokens(t)
    <3>1. Refill(t) \in Int /\ Refill(t) > 0
      BY <2>4, RefillInt DEF StoreTokens, Goto, RefillInv, Refilling
    <3> QED
      BY <2>4, <3>1 DEF StoreTokens, Goto, Lesser
  <2>5. CASE StoreLast(t)
    <3>1. Refill(t) \in Int /\ Refill(t) > 0
      BY <2>5, RefillInt DEF StoreLast, Goto, RefillInv, Refilling
    <3> QED
      BY <2>5, <3>1 DEF StoreLast, Goto
  <2>6. CASE LoadTokens(t)
    BY <2>6 DEF LoadTokens, Goto
  <2>7. CASE Cas(t)
    BY <2>7 DEF Cas, Goto, CasInv
  <2> QED
    BY <1>4, <2>1, <2>2, <2>3, <2>4, <2>5, <2>6, <2>7 DEF Step
<1>5. ASSUME NEW t \in Threads, Refuse(t) PROVE TypeOK'
  BY <1>5 DEF Refuse, vars
<1>6. CASE UNCHANGED vars
  BY <1>6 DEF vars
<1> QED
  BY <1>1, <1>2, <1>3, <1>4, <1>5, <1>6 DEF Next

\* The inductive step for the section under mutex_.
LEMMA RefillNext == IInv /\ [Next]_vars => RefillInv'
<1> SUFFICES ASSUME IInv, [Next]_vars, NEW u \in Threads, pc'[u] \in Refilling
             PROVE  mutex' = u /\ Refill(u)' > 0
  BY DEF RefillInv
<1> USE ThreadAssumption DEF IInv, TypeOK, RefillInv, Refilling, Refill, shared, locals, history
<1>1. CASE Tick \/ SetRateTokens
  BY <1>1 DEF Tick, SetRateTokens
<1>2. ASSUME NEW r \in Rates, SetRate(r) PROVE mutex' = u /\ Refill(u)' > 0
  BY <1>2 DEF SetRate
<1>3. ASSUME NEW t \in Threads, NEW p \in Permits, TryAcquire(t, p)
      PROVE  mutex' = u /\ Refill(u)' > 0
  BY <1>3 DEF TryAcquire, Goto
<1>4. ASSUME NEW t \in Threads, Step(t) PROVE mutex' = u /\ Refill(u)' > 0
  <2>1. CASE ReadNow(t)
    BY <2>1 DEF ReadNow, Goto
  <2>2. CASE LoadLast(t)
    BY <2>2 DEF LoadLast, Goto
  <2>3. CASE LoadQps(t)
    BY <2>3 DEF LoadQps, Goto
  <2>4. CASE Lock(t)
    BY <2>4 DEF Lock, Goto
  <2>5. CASE LoadCurrent(t)
    BY <2>5 DEF LoadCurrent, Goto
  <2>6. CASE StoreTokens(t)
    BY <2>6 DEF StoreTokens, Goto
  <2>7. CASE StoreLast(t)
    BY <2>7 DEF StoreLast, Goto
  <2>8. CASE LoadTokens(t)
    BY <2>8 DEF LoadTokens, Goto
  <2>9. CASE Cas(t)
    BY <2>9 DEF Cas, Goto
  <2> QED
    BY <1>4, <2>1, <2>2, <2>3, <2>4, <2>5, <2>6, <2>7, <2>8, <2>9 DEF Step
<1>5. ASSUME NEW t \in Threads, Refuse(t) PROVE mutex' = u /\ Refill(u)' > 0
  BY <1>5 DEF Refuse, vars
<1>6. CASE UNCHANGED vars
  BY <1>6 DEF vars
<1> QED
  BY <1>1, <1>2, <1>3, <1>4, <1>5, <1>6 DEF Next

\* The inductive step for the compare-and-swap loop.
LEMMA CasNext == IInv /\ [Next]_vars => CasInv'
<1> SUFFICES ASSUME IInv, [Next]_vars, NEW u \in Threads, pc'[u] = "Cas"
             PROVE  current'[u] >= permits'[u]
  BY DEF CasInv
<1> USE DEF IInv, TypeOK, CasInv, shared, locals, history
<1>1. CASE Tick \/ SetRateTokens
  BY <1>1 DEF Tick, SetRateTokens
<1>2. ASSUME NEW r \in Rates, SetRate(r) PROVE current'[u] >= permits'[u]
  BY <1>2 DEF SetRate
<1>3. ASSUME NEW t \in Threads, NEW p \in Permits, TryAcquire(t, p)
      PROVE  current'[u] >= permits'[u]
  BY <1>3 DEF TryAcquire, Goto
<1>4. ASSUME NEW t \in Threads, Step(t) PROVE current'[u] >= permits'[u]
  <2>1. CASE ReadNow(t) \/ LoadLast(t) \/ LoadQps(t) \/ Lock(t)
    BY <2>1 DEF ReadNow, LoadLast, LoadQps, Lock, Goto
  <2>2. CASE LoadCurrent(t) \/ StoreTokens(t) \/ StoreLast(t)
    BY <2>2 DEF LoadCurrent, StoreTokens, StoreLast, Goto
  <2>3. CASE LoadTokens(t)
    BY <2>3 DEF LoadTokens, Goto
  <2>4. CASE Cas(t)
    BY <2>4 DEF Cas, Goto
  <2> QED
    BY <1>4, <2>1, <2>2, <2>3, <2>4 DEF Step
<1>5. ASSUME NEW t \in Threads, Refuse(t) PROVE current'[u] >= permits'[u]
  BY <1>5 DEF Refuse, vars
<1>6. CASE UNCHANGED vars
  BY <1>6 DEF vars
<1> QED
  BY <1>1, <1>2, <1>3, <1>4, <1>5, <1>6 DEF Next

\* The inductive invariant holds in every reachable state.
THEOREM Invariant == Spec => []IInv
<1>1. IInv /\ [Next]_vars => IInv'
  BY TypeNext, RefillNext, CasNext DEF IInv
<1> QED
  BY InitIInv, <1>1, PTL DEF Spec

(***************************************************************************)
(* Type correctness; in particular tokens_ never becomes negative, however *)
(* refills, grants and set_rate interleave.                                *)
(***************************************************************************)
THEOREM TypeCorrect == Spec => []TypeOK
  BY Invariant, PTL DEF IInv

-----------------------------------------------------------------------------
\* Only the end of a refill moves last_refill_time_.
LEMMA LastRefillSteps ==
  ASSUME Next, last_refill' # last_refill
  PROVE  \E t \in Threads : StoreLast(t)
<1> USE DEF shared, locals, history
<1>1. ASSUME Tick \/ SetRateTokens \/ \E r \in Rates : SetRate(r) PROVE FALSE
  BY <1>1 DEF Tick, SetRateTokens, SetRate
<1>2. ASSUME NEW t \in Threads, Refuse(t) \/ \E p \in Permits : TryAcquire(t, p) PROVE FALSE
  BY <1>2 DEF Refuse, TryAcquire, vars
<1>3. ASSUME NEW t \in Threads, Step(t), ~StoreLast(t) PROVE FALSE
  BY <1>3 DEF Step, ReadNow, LoadLast, LoadQps, Lock, LoadCurrent, StoreTokens, LoadTokens, Cas
<1> QED
  BY <1>1, <1>2, <1>3 DEF Next

(***************************************************************************)
(* last_refill_time_ never moves back, whatever order the threads get the  *)
(* lock in.                                                                *)
(***************************************************************************)
THEOREM LastRefillMonotone == Spec => RefillMonotone
<1>1. IInv /\ [Next]_vars => [last_refill' >= last_refill]_vars
  <2> SUFFICES ASSUME IInv, Next PROVE last_refill' >= last_refill
    BY DEF vars, shared
  <2>1. CASE last_refill' = last_refill
    BY <2>1 DEF IInv, TypeOK
  <2>2. CASE last_refill' # last_refill
    <3>1. PICK t \in Threads : StoreLast(t)
      BY <2>2, LastRefillSteps
    <3>2. last_refill' = now[t] /\ Refill(t) > 0
      BY <3>1 DEF StoreLast, Goto, IInv, RefillInv, Refilling
    <3>3. now[t] \in Nat /\ rate[t] \in Nat /\ last_refill \in Nat
      BY DEF IInv, TypeOK
    <3>4. now[t] - last_refill > 0
      BY <3>2, <3>3, NewTokensPositive DEF Refill
    <3> QED
      BY <3>2, <3>3, <3>4
  <2> QED
    BY <2>1, <2>2
<1> QED
  BY Invariant, <1>1, PTL DEF Spec, RefillMonotone

-----------------------------------------------------------------------------
(***************************************************************************)
(* No local copy of a rate, and no content of the bucket, is above the     *)
(* highest rate.                                                           *)
(***************************************************************************)
RateInv ==
  /\ qps <= TopRate
  /\ tokens <= TopRate
  /\ setting # NoRate => setting <= TopRate
  /\ \A t \in Threads : rate[t] <= TopRate

\* The inductive step for the rates.
LEMMA RateNext == IInv /\ RateInv /\ [Next]_vars => RateInv'
<1> SUFFICES ASSUME IInv, RateInv, [Next]_vars PROVE RateInv'
  OBVIOUS
<1> USE RateAssumption DEF IInv, TypeOK, RateInv, shared, locals, history
<1>1. CASE Tick \/ SetRateTokens
  BY <1>1 DEF Tick, SetRateTokens
<1>2. ASSUME NEW r \in Rates, SetRate(r) PROVE RateInv'
  BY <1>2 DEF SetRate
<1>3. ASSUME NEW t \in Threads, NEW p \in Permits, TryAcquire(t, p) PROVE RateInv'
  BY <1>3 DEF TryAcquire, Goto
<1>4. ASSUME NEW t \in Threads, Step(t) PROVE RateInv'
  <2>1. CASE ReadNow(t) \/ LoadLast(t) \/ LoadQps(t) \/ Lock(t)
    BY <2>1 DEF ReadNow, LoadLast, LoadQps, Lock, Goto
  <2>2. CASE LoadCurrent(t) \/ StoreLast(t) \/ LoadTokens(t)
    BY <2>2 DEF LoadCurrent, StoreLast, LoadTokens, Goto
  <2>3. CASE StoreTokens(t)
    <3>1. Refill(t) \in Int
      BY RefillInt
    <3> QED
      BY <2>3, <3>1 DEF StoreTokens, Goto, Lesser
  <2>4. CASE Cas(t)
    BY <2>4 DEF Cas, Goto, CasInv
  <2> QED
    BY <1>4, <2>1, <2>2, <2>3, <2>4 DEF Step
<1>5. ASSUME NEW t \in Threads, Refuse(t) PROVE RateInv'
  BY <1>5 DEF Refuse, vars
<1>6. CASE UNCHANGED vars
  BY <1>6 DEF vars
<1> QED
  BY <1>1, <1>2, <1>3, <1>4, <1>5, <1>6 DEF Next

\* No rate in use is above the highest one.
THEOREM RatesBounded == Spec => []RateInv
<1>1. Init => RateInv
  BY RateAssumption DEF Init, RateInv
<1> QED
  BY <1>1, RateNext, Invariant, PTL DEF Spec

-----------------------------------------------------------------------------
\* One more full bucket is room for one more store to tokens_.
LEMMA OneMoreBucket ==
  ASSUME NEW n \in Nat
  PROVE  TopRate * (1 + (n + 1)) = TopRate * (1 + n) + TopRate
  BY RateAssumption

\* A full bucket in place of what is left of the old one.
LEMMA BucketArithmetic ==
  ASSUME NEW g \in Nat, NEW old \in Nat, NEW new \in Nat, NEW b \in Nat,
         g + old <= b, new <= TopRate
  PROVE  g + new <= b + TopRate
  BY RateAssumption

(***************************************************************************)
(* Lost updates are bounded: however many threads take tokens while others *)
(* refill, at most one full bucket is granted per store to tokens_.        *)
(***************************************************************************)
THEOREM GrantsAreBounded == Spec => []AdmissionBound
<1>1. Init => AdmissionBound
  BY RateAssumption DEF Init, AdmissionBound
<1>2. IInv /\ RateInv /\ RateInv' /\ AdmissionBound /\ [Next]_vars => AdmissionBound'
  <2> SUFFICES ASSUME IInv, RateInv, RateInv', AdmissionBound, [Next]_vars
               PROVE  AdmissionBound'
    OBVIOUS
  <2> USE DEF shared, locals, history
  <2>0. tokens \in Nat /\ granted \in Nat /\ overwrites \in Nat
    BY DEF IInv, TypeOK
  <2>1. CASE SetRateTokens \/ \E t \in Threads : StoreTokens(t)
    <3>1. granted' = granted /\ overwrites' = overwrites + 1
      BY <2>1 DEF SetRateTokens, StoreTokens
    <3>2. tokens' \in Nat /\ tokens' <= TopRate
      BY TypeNext DEF IInv, RateInv, TypeOK
    <3> QED
      <4> DEFINE b == TopRate * (1 + overwrites)
      <4>1. TopRate * (1 + overwrites') = b + TopRate
        BY <2>0, <3>1, OneMoreBucket
      <4>2. b \in Nat /\ TopRate \in Nat
        BY <2>0, RateAssumption
      <4>3. granted + tokens <= b
        BY DEF AdmissionBound
      <4>4. granted + tokens' <= b + TopRate
        BY <2>0, <3>2, <4>2, <4>3, BucketArithmetic
      <4> QED
        BY <3>1, <4>1, <4>4 DEF AdmissionBound
  <2>2. CASE \E t \in Threads : Cas(t)
    <3>1. PICK t \in Threads : Cas(t)
      BY <2>2
    <3>2. /\ UNCHANGED overwrites
          /\ \/ UNCHANGED <<tokens, granted>>
             \/ tokens' = tokens - permits[t] /\ granted' = granted + permits[t]
      BY <3>1 DEF Cas
    <3>3. permits[t] \in Nat
      BY DEF IInv, TypeOK
    <3> QED
      BY <2>0, <3>2, <3>3 DEF AdmissionBound
  <2>3. CASE UNCHANGED <<tokens, granted, overwrites>>
    BY <2>3 DEF AdmissionBound
  <2>4. \/ SetRateTokens \/ \E t \in Threads : StoreTokens(t)
        \/ \E t \in Threads : Cas(t)
        \/ UNCHANGED <<tokens, granted, overwrites>>
    <3>1. Tick \/ (\E r \in Rates : SetRate(r)) \/ UNCHANGED vars
            => UNCHANGED <<tokens, granted, overwrites>>
      BY DEF Tick, SetRate, vars
    <3>2. ASSUME NEW t \in Threads, Refuse(t) \/ \E p \in Permits : TryAcquire(t, p)
          PROVE  UNCHANGED <<tokens, granted, overwrites>>
      BY <3>2 DEF Refuse, TryAcquire, vars
    <3>3. ASSUME NEW t \in Threads, Step(t), ~StoreTokens(t), ~Cas(t)
          PROVE  UNCHANGED <<tokens, granted, overwrites>>
      BY <3>3 DEF Step, ReadNow, LoadLast, LoadQps, Lock, LoadCurrent, StoreLast, LoadTokens
    <3> QED
      BY <3>1, <3>2, <3>3 DEF Next
  <2> QED
    BY <2>1, <2>2, <2>3, <2>4
<1> QED
  BY <1>1, <1>2, Invariant, RatesBounded, PTL DEF Spec

-----------------------------------------------------------------------------
(***************************************************************************)
(* No period of time is credited twice, although every thread measures it  *)
(* before it has the lock.                                                 *)
(***************************************************************************)
THEOREM TimeIsCreditedOnce == Spec => []CreditBound
<1>1. Init => CreditBound
  BY RateAssumption DEF Init, CreditBound
<1>2. IInv /\ RateInv /\ CreditBound /\ [Next]_vars => CreditBound'
  <2> SUFFICES ASSUME IInv, RateInv, CreditBound, [Next]_vars PROVE CreditBound'
    OBVIOUS
  <2> USE DEF shared, locals, history
  <2>1. ASSUME NEW t \in Threads, StoreLast(t) PROVE CreditBound'
    <3> DEFINE e == now[t] - last_refill
    <3>1. credited' = credited + Refill(t) /\ last_refill' = last_refill + e
      BY <2>1 DEF StoreLast, IInv, TypeOK
    <3>2. /\ last_refill \in Nat /\ credited \in Nat /\ e \in Int
          /\ rate[t] \in Nat /\ rate[t] <= TopRate
      BY DEF IInv, TypeOK, RateInv
    <3>3. Refill(t) \in Int /\ Refill(t) > 0
      BY <2>1, RefillInt DEF StoreLast, Goto, IInv, RefillInv, Refilling
    <3>4. e > 0
      BY <3>2, <3>3, NewTokensPositive DEF Refill
    <3>5. Refill(t) * PerSecond <= e * rate[t]
      BY <3>2, NewTokensWorth DEF Refill
    <3> HIDE DEF e
    <3>6. e * rate[t] <= e * TopRate
      BY <3>2, <3>4, RateAssumption
    <3>7. (credited + Refill(t)) * PerSecond = credited * PerSecond + Refill(t) * PerSecond
      BY <3>2, <3>3, RateAssumption
    <3>8. (last_refill + e) * TopRate = last_refill * TopRate + e * TopRate
      BY <3>2, RateAssumption
    <3>9. credited * PerSecond <= last_refill * TopRate
      BY DEF CreditBound
    <3>10. /\ credited * PerSecond \in Int /\ Refill(t) * PerSecond \in Int
           /\ last_refill * TopRate \in Int /\ e * rate[t] \in Int /\ e * TopRate \in Int
      BY <3>2, <3>3, RateAssumption
    <3> QED
      BY <3>1, <3>5, <3>6, <3>7, <3>8, <3>9, <3>10 DEF CreditBound
  <2>2. CASE UNCHANGED <<credited, last_refill>>
    BY <2>2 DEF CreditBound
  <2>3. \/ \E t \in Threads : StoreLast(t)
        \/ UNCHANGED <<credited, last_refill>>
    BY DEF Next, vars, Tick, SetRate, SetRateTokens, Refuse, TryAcquire, Step, ReadNow,
           LoadLast, LoadQps, Lock, LoadCurrent, StoreTokens, LoadTokens, Cas
  <2> QED
    BY <2>1, <2>2, <2>3
<1> QED
  BY <1>1, <1>2, Invariant, RatesBounded, PTL DEF Spec

-----------------------------------------------------------------------------
(***************************************************************************)
(* One thread at a fixed rate uses a token bucket.  The rate it read is    *)
(* the rate, the clock it read is not ahead, and nobody changes tokens_    *)
(* between the load and the store of its refill.                           *)
(***************************************************************************)
Fixed == qps = InitialRate /\ setting = NoRate /\ sets = 0

OneInv(t) ==
  /\ now[t] <= clock
  /\ pc[t] # "Idle" => permits[t] \in Permits
  /\ pc[t] \in Refilling \cup {"Lock"} => rate[t] = InitialRate
  /\ pc[t] = "StoreTokens" => current[t] = tokens

\* The inductive step for the only thread.
LEMMA OneNext ==
  ASSUME NEW t, Threads = {t}, MaxSets = 0
  PROVE  IInv /\ Fixed /\ OneInv(t) /\ [Next]_vars => Fixed' /\ OneInv(t)'
<1> SUFFICES ASSUME IInv, Fixed, OneInv(t), [Next]_vars PROVE Fixed' /\ OneInv(t)'
  OBVIOUS
<1> USE DEF IInv, TypeOK, Fixed, OneInv, Refilling, shared, locals, history
<1>1. CASE Tick
  BY <1>1 DEF Tick
<1>2. CASE SetRateTokens \/ \E r \in Rates : SetRate(r)
  BY <1>2 DEF SetRateTokens, SetRate
<1>3. ASSUME NEW p \in Permits, TryAcquire(t, p) PROVE Fixed' /\ OneInv(t)'
  BY <1>3 DEF TryAcquire, Goto
<1>4. CASE Step(t)
  <2>1. CASE ReadNow(t) \/ LoadLast(t) \/ LoadQps(t)
    BY <2>1 DEF ReadNow, LoadLast, LoadQps, Goto
  <2>2. CASE Lock(t) \/ LoadCurrent(t)
    BY <2>2 DEF Lock, LoadCurrent, Goto
  <2>3. CASE StoreTokens(t) \/ StoreLast(t) \/ LoadTokens(t)
    BY <2>3 DEF StoreTokens, StoreLast, LoadTokens, Goto
  <2>4. CASE Cas(t)
    BY <2>4 DEF Cas, Goto
  <2> QED
    BY <1>4, <2>1, <2>2, <2>3, <2>4 DEF Step
<1>5. CASE Refuse(t) \/ UNCHANGED vars
  BY <1>5 DEF Refuse, vars
<1> QED
  BY <1>1, <1>2, <1>3, <1>4, <1>5 DEF Next

\* When the refill of the only thread takes effect.
LEMMA OneRefillTime ==
  ASSUME NEW t, Threads = {t}
  PROVE  /\ RefillTime = IF pc[t] = "StoreLast" THEN now[t] ELSE last_refill
         /\ RefillTime' = IF pc'[t] = "StoreLast" THEN now'[t] ELSE last_refill'
  BY DEF RefillTime

\* Every step is one of the bucket, or leaves it as it is.
LEMMA OneStep ==
  ASSUME NEW t, Threads = {t}, IInv, Fixed, OneInv(t), [Next]_vars, MaxSets = 0
  PROVE  [Bucket!Next]_(Bucket!vars)
<1> USE DEF IInv, TypeOK, Fixed, OneInv, Refilling, shared, locals, history, Bucket!vars
<1>0. t \in Threads
  OBVIOUS
<1>1. CASE Tick
  <2>1. RefillTime' = RefillTime
    BY <1>1, OneRefillTime DEF Tick
  <2>2. Bucket!Tick
    BY <1>1, <2>1 DEF Tick, Bucket!Tick
  <2> QED
    BY <2>2 DEF Bucket!Next
<1>2. CASE SetRateTokens \/ \E r \in Rates : SetRate(r)
  BY <1>2 DEF SetRateTokens, SetRate
<1>3. CASE StoreTokens(t)
  <2>1. /\ pc[t] = "StoreTokens" /\ pc'[t] = "StoreLast" /\ UNCHANGED <<clock, granted, now>>
        /\ tokens' = Lesser(tokens + Refill(t), InitialRate)
    BY <1>0, <1>3 DEF StoreTokens, Goto
  <2>2. RefillTime = last_refill /\ RefillTime' = now[t]
    BY <2>1, OneRefillTime
  <2>3. Refill(t) > 0 /\ Refill(t) = ((now[t] - last_refill) * InitialRate) \div PerSecond
    BY <1>0, <2>1 DEF RefillInv, Refill, NewTokens
  <2>4. now[t] - last_refill > 0
    BY <1>0, <2>3, NewTokensPositive DEF Refill
  <2>5. now[t] \in RefillTime .. clock
    BY <1>0, <2>2, <2>4
  <2>6. Bucket!Refill
    BY <2>1, <2>2, <2>3, <2>5 DEF Bucket!Refill, Lesser
  <2> QED
    BY <2>6 DEF Bucket!Next
<1>4. CASE Cas(t)
  <2>1. RefillTime' = RefillTime /\ clock' = clock
    BY <1>0, <1>4, OneRefillTime DEF Cas, Goto
  <2>2. CASE tokens' = tokens /\ granted' = granted
    BY <2>1, <2>2
  <2>3. CASE ~(tokens' = tokens /\ granted' = granted)
    <3>1. Bucket!Take(permits[t]) /\ permits[t] \in Permits
      BY <1>0, <1>4, <2>1, <2>3 DEF Cas, Goto, CasInv, Bucket!Take
    <3> QED
      BY <3>1 DEF Bucket!Next
  <2> QED
    BY <2>2, <2>3
<1>5. CASE StoreLast(t)
  <2>1. RefillTime' = RefillTime
    BY <1>0, <1>5, OneRefillTime DEF StoreLast, Goto
  <2> QED
    BY <1>5, <2>1 DEF StoreLast
<1>6. CASE ReadNow(t) \/ LoadLast(t) \/ LoadQps(t) \/ Lock(t) \/ LoadCurrent(t) \/ LoadTokens(t)
  <2>1. RefillTime' = RefillTime
    BY <1>0, <1>6, OneRefillTime DEF ReadNow, LoadLast, LoadQps, Lock, LoadCurrent, LoadTokens, Goto
  <2> QED
    BY <1>6, <2>1 DEF ReadNow, LoadLast, LoadQps, Lock, LoadCurrent, LoadTokens
<1>7. ASSUME NEW p \in Permits, TryAcquire(t, p) PROVE [Bucket!Next]_(Bucket!vars)
  <2>1. RefillTime' = RefillTime
    BY <1>0, <1>7, OneRefillTime DEF TryAcquire, Goto
  <2> QED
    BY <1>7, <2>1 DEF TryAcquire
<1>8. CASE Refuse(t) \/ UNCHANGED vars
  <2>1. RefillTime' = RefillTime
    BY <1>8, OneRefillTime DEF Refuse, vars
  <2> QED
    BY <1>8, <2>1 DEF Refuse, vars
<1> QED
  BY <1>1, <1>2, <1>3, <1>4, <1>5, <1>6, <1>7, <1>8 DEF Next, Step

(***************************************************************************)
(* Used by one thread at a fixed rate, the limiter is a token bucket of    *)
(* any rate: its refills and grants, spread over several loads and stores, *)
(* take effect one at a time (rpc_rate_limiter.cc:44-75).                  *)
(***************************************************************************)
THEOREM OneThreadUsesABucket ==
  ASSUME NEW t, Threads = {t}, MaxSets = 0
  PROVE  Spec => RefinesTokenBucket
<1>1. Init => Bucket!Init /\ Fixed /\ OneInv(t)
  <2> SUFFICES ASSUME Init PROVE Bucket!Init /\ Fixed /\ OneInv(t)
    OBVIOUS
  <2>1. RefillTime = 0
    BY OneRefillTime DEF Init
  <2> QED
    BY <2>1 DEF Init, Bucket!Init, Fixed, OneInv, Refilling
<1>2. IInv /\ Fixed /\ OneInv(t) /\ [Next]_vars => Fixed' /\ OneInv(t)'
  BY OneNext
<1>3. IInv /\ Fixed /\ OneInv(t) /\ [Next]_vars => [Bucket!Next]_(Bucket!vars)
  BY OneStep
<1> QED
  BY <1>1, <1>2, <1>3, Invariant, PTL DEF Spec, RefinesTokenBucket, Bucket!Spec
=============================================================================
