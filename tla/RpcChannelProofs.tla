-------------------------- MODULE RpcChannelProofs --------------------------
(***************************************************************************)
(* Proofs about RpcChannel, for any finite set of calls, any thresholds    *)
(* and any number of breaker objects.                                      *)
(***************************************************************************)
EXTENDS RpcChannel, FiniteSetTheorems, TLAPS

\* The initial state is well typed.
LEMMA TypeInit == Init => TypeOK
<1> SUFFICES ASSUME Init PROVE TypeOK
  OBVIOUS
<1> USE ChannelAssumption DEF Init
<1>1. /\ pc \in [Calls -> Locations] /\ held \in [Calls -> 0..MaxBreakers]
      /\ failed \in [Calls -> BOOLEAN] /\ code \in [Calls -> {OK, SERVER_ERROR, BREAKER_OPEN, RATE_LIMITED}]
      /\ response \in [Calls -> {"empty", "partial", "full"}] /\ done \in [Calls -> 0..1]
  BY DEF Locations
<1>2. /\ breakers \in 0..MaxBreakers /\ breaker \in 0..breakers
      /\ total \in Nat /\ success \in Nat /\ failure \in Nat /\ latencies \in Nat
  OBVIOUS
<1>3. breaker_enabled \in BOOLEAN /\ limiter \in BOOLEAN /\ limiter_enabled \in BOOLEAN
  BY Zenon
<1>4. /\ state \in {"closed", "open", "half_open"}
      /\ failure_count \in Nat /\ success_count \in Nat /\ open_age \in 0..Timeout
      /\ inflight \subseteq Calls
  BY DEF Breaker!Init
<1> QED
  BY <1>1, <1>2, <1>3, <1>4 DEF TypeOK

\* What a call does to its breaker keeps the types of the breaker.
LEMMA BreakerTypes ==
  ASSUME TypeOK, NEW c \in Calls,
         \/ Breaker!Admit(c) \/ Breaker!Probe(c) \/ Breaker!Reject(c)
         \/ Breaker!RecordSuccess(c) \/ Breaker!RecordFailure(c)
         \/ UNCHANGED breakerVars
  PROVE  /\ state' \in {"closed", "open", "half_open"}
         /\ failure_count' \in Nat /\ success_count' \in Nat /\ open_age' \in 0..Timeout
         /\ inflight' \subseteq Calls
  BY ChannelAssumption
  DEF TypeOK, breakerVars, Breaker!Admit, Breaker!Probe, Breaker!Reject, Breaker!vars,
      Breaker!RecordSuccess, Breaker!RecordFailure

(***************************************************************************)
(* BreakerHears and TypeOK need to know which calls hold a pointer: none *)
(* before it has asked for the breaker, and every one that is about to ask *)
(* allow_request; and that no call can hold an object that does not exist  *)
(* yet.                                                                    *)
(***************************************************************************)
HeldOK ==
  \A c \in Calls :
    /\ held[c] <= breakers
    /\ pc[c] \in {"Start", "GetBreaker"} => held[c] = 0
    /\ pc[c] = "AllowRequest" => held[c] # 0

\* done has not run before the call is finished.
DoneOK == \A c \in Calls : done[c] = IF pc[c] \in Finished THEN 1 ELSE 0

IInv == TypeOK /\ HeldOK /\ DoneOK /\ BreakerHears

LEMMA IInvInit == Init => IInv
  BY TypeInit, ChannelAssumption
  DEF Init, IInv, TypeOK, HeldOK, DoneOK, BreakerHears, Unheard, At, Finished, Breaker!Init

\* What a call may do to the shared state and to itself, as far as IInv needs it.
LEMMA IInvCall == ASSUME IInv, NEW c \in Calls, CallStep(c) PROVE IInv'
<1> USE ChannelAssumption DEF IInv, TypeOK, HeldOK, DoneOK, BreakerHears, Unheard, At, Finished,
        Locations, Goto, callVars, govVars, metricVars, Report, Quiet, OK, SERVER_ERROR,
        BREAKER_OPEN, RATE_LIMITED
<1>1. CASE Start(c)
  BY <1>1 DEF Start, breakerVars
<1>2. CASE GetBreaker(c)
  <2>1. CASE breaker # 0
    BY <1>2, <2>1 DEF GetBreaker, CreateBreaker, breakerVars
  <2>2. CASE breaker = 0
    <3>1. /\ breaker' = breakers + 1 /\ breakers' = breakers + 1 /\ breakers' <= MaxBreakers
          /\ held' = [held EXCEPT ![c] = breakers + 1]
          /\ pc[c] = "GetBreaker" /\ pc' = [pc EXCEPT ![c] = "AllowRequest"]
      BY <1>2, <2>2 DEF GetBreaker, CreateBreaker
    <3>2. TypeOK'
      BY <1>2, <2>2, <3>1 DEF GetBreaker, CreateBreaker, breakerVars
    <3>3. HeldOK' /\ DoneOK'
      BY <1>2, <3>1 DEF GetBreaker
    <3>4. BreakerHears'
      BY <1>2, <2>2, <3>1 DEF GetBreaker, breakerVars
    <3> QED
      BY <3>2, <3>3, <3>4
  <2> QED
    BY <2>1, <2>2
<1>3. CASE AllowRequest(c)
  BY <1>3, BreakerTypes DEF AllowRequest, breakerVars, Breaker!Admit, Breaker!Probe, Breaker!Reject, Breaker!vars
<1>4. CASE CheckLimiter(c)
  BY <1>4 DEF CheckLimiter, breakerVars
<1>5. CASE TryAcquire(c)
  BY <1>5 DEF TryAcquire, breakerVars
<1>6. CASE Send(c)
  BY <1>6, BreakerTypes DEF Send, breakerVars, ReachesBreaker, Breaker!RecordFailure
<1>7. CASE Callback(c)
  BY <1>7 DEF Callback, Fail, NetworkError, ServerError, ParseError, Succeed, ReachesBreaker, breakerVars, Breaker!RecordFailure, Breaker!RecordSuccess
<1> QED
  BY <1>1, <1>2, <1>3, <1>4, <1>5, <1>6, <1>7 DEF CallStep

\* The governance manager, by its users, and time.
LEMMA IInvNext == IInv /\ [Next]_vars => IInv'
<1> SUFFICES ASSUME IInv, [Next]_vars PROVE IInv'
  OBVIOUS
<1> USE ChannelAssumption DEF IInv, TypeOK, HeldOK, DoneOK, BreakerHears, Unheard, At, Finished,
        callVars, govVars, metricVars, breakerVars
<1>1. CASE Tick
  BY <1>1 DEF Tick, Breaker!Tick
<1>2. CASE ConfigureBreaker
  BY <1>2 DEF ConfigureBreaker, CreateBreaker
<1>3. CASE ConfigureLimiter
  BY <1>3 DEF ConfigureLimiter
<1>4. CASE SetBreakerParams
  BY <1>4 DEF SetBreakerParams
<1>5. ASSUME NEW on \in BOOLEAN, EnableBreaker(on) \/ EnableLimiter(on) PROVE IInv'
  BY <1>5 DEF EnableBreaker, EnableLimiter
<1>6. CASE UNCHANGED vars
  BY <1>6 DEF vars
<1> QED
  BY <1>1, <1>2, <1>3, <1>4, <1>5, <1>6, IInvCall DEF Next, Govern

(***************************************************************************)
(* Whatever calls, reconfigurations and time do, the breaker of the        *)
(* service hears once of every call it let through and that was sent: the  *)
(* calls it has not heard of are exactly those under way and those that    *)
(* the limiter refused.                                                    *)
(***************************************************************************)
THEOREM BreakerHearsOfSent == Spec => []ChannelInv
<1>1. IInv => ChannelInv
  BY DEF IInv, ChannelInv
<1> QED
  BY <1>1, IInvInit, IInvNext, PTL DEF Spec

-----------------------------------------------------------------------------
\* When one call moves, the number of calls at some locations changes by what it
\* leaves and what it enters.
LEMMA Moves ==
  ASSUME TypeOK, NEW c \in Calls, NEW from, NEW to, Goto(c, from, to), NEW locs
  PROVE  /\ Cardinality(At(locs)) \in Nat
         /\ Cardinality(At(locs))' = Cardinality(At(locs)) + (IF to \in locs THEN 1 ELSE 0)
                                                          - (IF from \in locs THEN 1 ELSE 0)
<1>1. IsFiniteSet(At(locs)) /\ Cardinality(At(locs)) \in Nat
  BY ChannelAssumption, FS_Subset, FS_CardinalityType DEF At
<1>2. CASE from \in locs <=> to \in locs
  <2>1. At(locs)' = At(locs)
    BY <1>2 DEF At, TypeOK, Goto
  <2> QED
    BY <1>1, <1>2, <2>1
<1>3. CASE from \notin locs /\ to \in locs
  <2>1. At(locs)' = At(locs) \cup {c} /\ c \notin At(locs)
    BY <1>3 DEF At, TypeOK, Goto
  <2> QED
    BY <1>1, <1>3, <2>1, FS_AddElement
<1>4. CASE from \in locs /\ to \notin locs
  <2>1. At(locs)' = At(locs) \ {c} /\ c \in At(locs)
    BY <1>4 DEF At, TypeOK, Goto
  <2> QED
    BY <1>1, <1>4, <2>1, FS_RemoveElement, SMTT(30)
<1> QED
  BY <1>2, <1>3, <1>4

\* Every exit of CallMethod and of the callback keeps the sums.
LEMMA AccountingNext == TypeOK /\ Accounting /\ [Next]_vars => Accounting'
<1> SUFFICES ASSUME TypeOK, Accounting, [Next]_vars PROVE Accounting'
  OBVIOUS
<1>1. ASSUME NEW c \in Calls, CallStep(c) PROVE Accounting'
  <2> DEFINE flying  == Cardinality(At({"InFlight"}))
             refused == Cardinality(At({"Rejected", "Limited"}))
             unfelt  == Cardinality(At({"InFlight", "Unsent"}))
             Is(b)   == IF b THEN 1 ELSE 0
  <2>0. /\ Accounting <=> success + failure + flying = total + refused /\ latencies = total - unfelt
        /\ Accounting' <=> /\ success' + failure' + flying' = total' + refused'
                           /\ latencies' = total' - unfelt'
    BY DEF Accounting
  <2>1. ASSUME NEW from, NEW to, Goto(c, from, to)
        PROVE  /\ flying \in Nat /\ refused \in Nat /\ unfelt \in Nat
               /\ flying' = flying + Is(to = "InFlight") - Is(from = "InFlight")
               /\ refused' = refused + Is(to \in {"Rejected", "Limited"}) - Is(from \in {"Rejected", "Limited"})
               /\ unfelt' = unfelt + Is(to \in {"InFlight", "Unsent"}) - Is(from \in {"InFlight", "Unsent"})
    <3>1. ASSUME NEW locs
          PROVE  /\ Cardinality(At(locs)) \in Nat
                 /\ Cardinality(At(locs))' = Cardinality(At(locs)) + Is(to \in locs) - Is(from \in locs)
      BY <2>1, Moves
    <3>2. flying \in Nat /\ flying' = flying + Is(to \in {"InFlight"}) - Is(from \in {"InFlight"})
      BY <3>1
    <3>3. /\ refused \in Nat
          /\ refused' = refused + Is(to \in {"Rejected", "Limited"}) - Is(from \in {"Rejected", "Limited"})
      BY <3>1
    <3>4. /\ unfelt \in Nat
          /\ unfelt' = unfelt + Is(to \in {"InFlight", "Unsent"}) - Is(from \in {"InFlight", "Unsent"})
      BY <3>1
    <3> QED
      BY <3>2, <3>3, <3>4
  <2> HIDE DEF flying, refused, unfelt
  <2> USE DEF TypeOK
  <2>2. ASSUME NEW from \in {"Start", "GetBreaker", "AllowRequest", "CheckLimiter", "TryAcquire"},
               NEW to \in {"GetBreaker", "AllowRequest", "CheckLimiter", "TryAcquire", "Send", "Invalid"},
               Goto(c, from, to), UNCHANGED metricVars
        PROVE  Accounting'
    BY <2>0, <2>1, <2>2 DEF metricVars
  <2>3. CASE Start(c) \/ GetBreaker(c) \/ CheckLimiter(c)
    BY <2>2, <2>3 DEF Start, GetBreaker, CheckLimiter
  <2>4. CASE AllowRequest(c)
    <3>1. CASE Goto(c, "AllowRequest", "Rejected") /\ failure' = failure + 1 /\ UNCHANGED <<total, success, latencies>>
      BY <2>0, <2>1, <3>1
    <3> QED
      BY <2>2, <2>4, <3>1 DEF AllowRequest
  <2>5. CASE TryAcquire(c)
    <3>1. CASE Goto(c, "TryAcquire", "Limited") /\ failure' = failure + 1 /\ UNCHANGED <<total, success, latencies>>
      BY <2>0, <2>1, <3>1
    <3> QED
      BY <2>2, <2>5, <3>1 DEF TryAcquire
  <2>6. CASE Send(c)
    <3>1. CASE Goto(c, "Send", "InFlight") /\ total' = total + 1 /\ UNCHANGED <<failure, success, latencies>>
      BY <2>0, <2>1, <3>1
    <3>2. CASE Goto(c, "Send", "Unsent") /\ total' = total + 1 /\ failure' = failure + 1 /\ UNCHANGED <<success, latencies>>
      BY <2>0, <2>1, <3>2
    <3> QED
      BY <2>6, <3>1, <3>2 DEF Send
  <2>7. ASSUME NEW err, NEW msg, Fail(c, err, msg) PROVE Accounting'
    BY <2>0, <2>1, <2>7 DEF Fail
  <2>8. CASE Succeed(c)
    BY <2>0, <2>1, <2>8 DEF Succeed
  <2> QED
    BY <1>1, <2>3, <2>4, <2>5, <2>6, <2>7, <2>8
    DEF CallStep, Callback, NetworkError, ServerError, ParseError
<1>2. CASE UNCHANGED <<pc, metricVars>>
  BY <1>2 DEF Accounting, metricVars, At
<1> QED
  BY <1>1, <1>2 DEF Next, Govern, Tick, ConfigureBreaker, ConfigureLimiter, SetBreakerParams,
     EnableBreaker, EnableLimiter, vars, callVars

(***************************************************************************)
(* The metrics of the client add up in every state, however many calls are *)
(* under way and whichever exit each of them takes.                        *)
(***************************************************************************)
THEOREM MetricsAddUp == Spec => []Accounting
<1>1. Init => Accounting
  <2> SUFFICES ASSUME Init PROVE Accounting
    OBVIOUS
  <2>1. At({"InFlight"}) = {} /\ At({"Rejected", "Limited"}) = {} /\ At({"InFlight", "Unsent"}) = {}
    BY DEF Init, At
  <2> QED
    <3>1. Cardinality({}) = 0
      BY FS_EmptySet
    <3> QED
      BY <2>1, <3>1 DEF Accounting, Init
<1>2. IInv => TypeOK
  BY DEF IInv
<1> QED
  BY <1>1, <1>2, IInvInit, IInvNext, AccountingNext, PTL DEF Spec

-----------------------------------------------------------------------------
\* A step keeps what the caller can tell.
LEMMA InformedNext == TypeOK /\ CallerInformed /\ [Next]_vars => CallerInformed'
<1> SUFFICES ASSUME TypeOK, CallerInformed, [Next]_vars PROVE CallerInformed'
  OBVIOUS
<1> USE DEF TypeOK, CallerInformed, Finished
<1>1. ASSUME NEW c \in Calls, CallStep(c) PROVE CallerInformed'
  <2> USE DEF Goto, Report, Quiet
  <2>1. CASE Start(c)
    BY <2>1 DEF Start
  <2>2. CASE GetBreaker(c) \/ CheckLimiter(c)
    BY <2>2 DEF GetBreaker, CheckLimiter
  <2>3. CASE AllowRequest(c)
    BY <2>3 DEF AllowRequest
  <2>4. CASE TryAcquire(c)
    BY <2>4 DEF TryAcquire
  <2>5. CASE Send(c)
    BY <2>5 DEF Send
  <2>6. ASSUME NEW err, NEW msg, Fail(c, err, msg), msg # "full",
               kind[c] = "async" => msg # "partial"
        PROVE  CallerInformed'
    BY <2>6 DEF Fail
  <2>7. CASE NetworkError(c) \/ ServerError(c) \/ ParseError(c)
    <3>1. CASE pc[c] = "InFlight"
      BY <2>6, <2>7, <3>1 DEF NetworkError, ServerError, ParseError
    <3> QED
      BY <2>7, <3>1 DEF NetworkError, ServerError, ParseError, Fail
  <2>8. CASE Succeed(c)
    BY <2>8 DEF Succeed
  <2> QED
    BY <1>1, <2>1, <2>2, <2>3, <2>4, <2>5, <2>7, <2>8 DEF CallStep, Callback
<1>2. CASE UNCHANGED callVars
  BY <1>2 DEF callVars
<1> QED
  BY <1>1, <1>2 DEF Next, Govern, Tick, ConfigureBreaker, ConfigureLimiter, SetBreakerParams,
     EnableBreaker, EnableLimiter, vars

(***************************************************************************)
(* Every caller can tell how its call ended: done has run exactly when the *)
(* call is finished, a TinyPb controller says failed unless it succeeded,  *)
(* and only a successful call has a full response.                         *)
(***************************************************************************)
THEOREM CallersAlwaysInformed == Spec => []CallerInformed
<1>1. Init => CallerInformed
  BY DEF Init, CallerInformed, Finished
<1>2. IInv => TypeOK
  BY DEF IInv
<1> QED
  BY <1>1, <1>2, IInvInit, IInvNext, InformedNext, PTL DEF Spec
=============================================================================
