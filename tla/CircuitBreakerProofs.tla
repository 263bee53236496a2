------------------------ MODULE CircuitBreakerProofs ------------------------
(***************************************************************************)
(* Proofs about CircuitBreaker, for any set of RPCs, any thresholds and    *)
(* any timeout.                                                            *)
(***************************************************************************)
EXTENDS CircuitBreaker, TLAPS

\* The initial state is well typed.
LEMMA TypeInit == Init => TypeOK
  BY ThresholdAssumption
  DEF Init, TypeOK, States, CLOSED, OPEN, HALF_OPEN, Locations

\* Every step of the breaker keeps the types.
LEMMA TypeNext == TypeOK /\ [Next]_vars => TypeOK'
<1> SUFFICES ASSUME TypeOK, [Next]_vars PROVE TypeOK'
  OBVIOUS
<1> USE ThresholdAssumption DEF TypeOK, States, CLOSED, OPEN, HALF_OPEN, Locations,
                                shared, history
<1>1. CASE Tick
  BY <1>1 DEF Tick, Older
<1>2. ASSUME NEW c \in Calls, Enter(c) PROVE TypeOK'
  BY <1>2 DEF Enter, AllowRequest, RecordSuccess, RecordFailure, Abandon, Goto
<1>3. ASSUME NEW c \in Calls, Step(c) PROVE TypeOK'
  <2>1. CASE LoadLastTime(c)
    BY <2>1 DEF LoadLastTime, Goto
  <2>2. CASE ShouldAttemptReset(c)
    BY <2>2 DEF ShouldAttemptReset, Goto
  <2>3. CASE TransitionToHalfOpen(c)
    BY <2>3 DEF TransitionToHalfOpen, Goto, SetState
  <2>4. CASE HalfOpenResetSuccess(c)
    BY <2>4 DEF HalfOpenResetSuccess, Goto
  <2>5. CASE ClearFailures(c)
    BY <2>5 DEF ClearFailures, Goto
  <2>6. CASE AddSuccess(c)
    BY <2>6 DEF AddSuccess, Goto
  <2>7. CASE TransitionToClosed(c)
    BY <2>7 DEF TransitionToClosed, Goto, SetState
  <2>8. CASE ClosedResetFailures(c)
    BY <2>8 DEF ClosedResetFailures, Goto
  <2>9. CASE ClosedResetSuccesses(c)
    BY <2>9 DEF ClosedResetSuccesses, Goto
  <2>10. CASE AddFailure(c)
    BY <2>10 DEF AddFailure, Goto
  <2>11. CASE TransitionToOpen(c)
    BY <2>11 DEF TransitionToOpen, Goto, SetState
  <2>12. CASE StoreLastFailureTime(c)
    BY <2>12 DEF StoreLastFailureTime, Goto
  <2> QED
    BY <1>3, <2>1, <2>2, <2>3, <2>4, <2>5, <2>6, <2>7, <2>8, <2>9, <2>10, <2>11, <2>12
    DEF Step
<1>4. CASE UNCHANGED vars
  BY <1>4 DEF vars
<1> QED
  BY <1>1, <1>2, <1>3, <1>4 DEF Next

\* Type correctness of the breaker under any interleaving.
THEOREM TypeCorrect == Spec => []TypeOK
  BY TypeInit, TypeNext, PTL DEF Spec

-----------------------------------------------------------------------------
(***************************************************************************)
(* TripNeedsThreshold is not inductive: a call that saw OPEN, or is on its *)
(* way into transition_to_open, changes state_ later, and the count must   *)
(* be known not to exceed the failures it stands for.                      *)
(***************************************************************************)
Evidence ==
  /\ failure_count <= failures \/ failures = FailureThreshold
  /\ \A c \in Calls :
       pc[c] \in {"LockOpen", "LoadTime", "CheckTime", "LockHalfOpen"}
         => failures = FailureThreshold
  /\ state # CLOSED => failures = FailureThreshold

\* The inductive step: every trip is backed by the failures counted.
LEMMA EvidenceNext == TypeOK /\ Evidence /\ [Next]_vars => Evidence'
<1> SUFFICES ASSUME TypeOK, Evidence, [Next]_vars PROVE Evidence'
  OBVIOUS
<1> USE ThresholdAssumption DEF TypeOK, Evidence, States, CLOSED, OPEN, HALF_OPEN,
                                shared, history
<1>1. CASE Tick
  BY <1>1 DEF Tick
<1>2. ASSUME NEW c \in Calls, Enter(c) PROVE Evidence'
  BY <1>2 DEF Enter, AllowRequest, RecordSuccess, RecordFailure, Abandon, Goto
<1>3. ASSUME NEW c \in Calls, Step(c) PROVE Evidence'
  <2>1. CASE LoadLastTime(c) \/ ShouldAttemptReset(c)
    BY <2>1 DEF LoadLastTime, ShouldAttemptReset, Goto
  <2>2. CASE TransitionToHalfOpen(c) \/ HalfOpenResetSuccess(c)
    BY <2>2 DEF TransitionToHalfOpen, HalfOpenResetSuccess, Goto, SetState
  <2>3. CASE ClearFailures(c) \/ AddSuccess(c)
    BY <2>3 DEF ClearFailures, AddSuccess, Goto
  <2>4. CASE TransitionToClosed(c) \/ ClosedResetFailures(c) \/ ClosedResetSuccesses(c)
    BY <2>4 DEF TransitionToClosed, ClosedResetFailures, ClosedResetSuccesses, Goto, SetState
  <2>5. CASE AddFailure(c)
    BY <2>5 DEF AddFailure, Goto
  <2>6. CASE TransitionToOpen(c) \/ StoreLastFailureTime(c)
    BY <2>6 DEF TransitionToOpen, StoreLastFailureTime, Goto, SetState
  <2> QED
    BY <1>3, <2>1, <2>2, <2>3, <2>4, <2>5, <2>6 DEF Step
<1>4. CASE UNCHANGED vars
  BY <1>4 DEF vars
<1> QED
  BY <1>1, <1>2, <1>3, <1>4 DEF Next

(***************************************************************************)
(* However the RPCs interleave, the breaker leaves CLOSED for the first    *)
(* time only after failure_threshold_ failures.                            *)
(***************************************************************************)
THEOREM TripsOnlyAfterThreshold == Spec => []TripNeedsThreshold
<1>1. Init => Evidence
  BY ThresholdAssumption DEF Init, Evidence, CLOSED
<1>2. Evidence /\ TypeOK => TripNeedsThreshold
  BY ThresholdAssumption DEF Evidence, TypeOK, TripNeedsThreshold
<1> QED
  BY <1>1, <1>2, EvidenceNext, TypeCorrect, PTL DEF Spec

-----------------------------------------------------------------------------
\* ThresholdTrips is inductive on top of the types.
LEMMA ThresholdTripsNext == TypeOK /\ ThresholdTrips /\ [Next]_vars => ThresholdTrips'
<1> SUFFICES ASSUME TypeOK, ThresholdTrips, [Next]_vars,
                    state' = CLOSED, failure_count' >= FailureThreshold
             PROVE  \E c \in Calls : pc'[c] \in {"LockOpen", "CloseFailures"}
  BY DEF ThresholdTrips
<1> USE ThresholdAssumption DEF TypeOK, CLOSED, OPEN, HALF_OPEN, shared, history
<1>1. CASE Tick \/ UNCHANGED vars
  BY <1>1 DEF Tick, vars, ThresholdTrips
<1>2. ASSUME NEW c \in Calls, Enter(c)
      PROVE  \E d \in Calls : pc'[d] \in {"LockOpen", "CloseFailures"}
  BY <1>2 DEF Enter, AllowRequest, RecordSuccess, RecordFailure, Abandon, Goto, ThresholdTrips
<1>3. ASSUME NEW c \in Calls, Step(c)
      PROVE  \E d \in Calls : pc'[d] \in {"LockOpen", "CloseFailures"}
  <2>1. CASE LoadLastTime(c) \/ ShouldAttemptReset(c)
    BY <2>1 DEF LoadLastTime, ShouldAttemptReset, Goto, ThresholdTrips
  <2>2. CASE TransitionToHalfOpen(c) \/ HalfOpenResetSuccess(c)
    BY <2>2 DEF TransitionToHalfOpen, HalfOpenResetSuccess, Goto, SetState, ThresholdTrips
  <2>3. CASE ClearFailures(c) \/ AddSuccess(c)
    BY <2>3 DEF ClearFailures, AddSuccess, Goto, ThresholdTrips
  <2>4. CASE TransitionToClosed(c)
    BY <2>4 DEF TransitionToClosed, Goto
  <2>5. CASE ClosedResetFailures(c)
    BY <2>5 DEF ClosedResetFailures
  <2>6. CASE ClosedResetSuccesses(c)
    BY <2>6 DEF ClosedResetSuccesses, Goto, ThresholdTrips
  <2>7. CASE AddFailure(c)
    BY <2>7 DEF AddFailure, Goto
  <2>8. CASE TransitionToOpen(c)
    BY <2>8 DEF TransitionToOpen, SetState
  <2>9. CASE StoreLastFailureTime(c)
    BY <2>9 DEF StoreLastFailureTime, Goto, ThresholdTrips
  <2> QED
    BY <1>3, <2>1, <2>2, <2>3, <2>4, <2>5, <2>6, <2>7, <2>8, <2>9 DEF Step
<1> QED
  BY <1>1, <1>2, <1>3 DEF Next

(***************************************************************************)
(* No interleaving of record_success, record_failure and the transitions   *)
(* loses a trip that is due.                                               *)
(***************************************************************************)
THEOREM NoTripIsLost == Spec => []ThresholdTrips
<1>1. Init => ThresholdTrips
  BY ThresholdAssumption DEF Init, ThresholdTrips
<1> QED
  BY <1>1, ThresholdTripsNext, TypeCorrect, PTL DEF Spec

-----------------------------------------------------------------------------
\* ThresholdCloses is inductive on top of the types.
LEMMA ThresholdClosesNext == TypeOK /\ ThresholdCloses /\ [Next]_vars => ThresholdCloses'
<1> SUFFICES ASSUME TypeOK, ThresholdCloses, [Next]_vars,
                    state' = HALF_OPEN, success_count' >= SuccessThreshold
             PROVE  \E c \in Calls : pc'[c] \in {"LockClosed", "ResetSuccess"}
  BY DEF ThresholdCloses
<1> USE ThresholdAssumption DEF TypeOK, CLOSED, OPEN, HALF_OPEN, shared, history
<1>1. CASE Tick \/ UNCHANGED vars
  BY <1>1 DEF Tick, vars, ThresholdCloses
<1>2. ASSUME NEW c \in Calls, Enter(c)
      PROVE  \E d \in Calls : pc'[d] \in {"LockClosed", "ResetSuccess"}
  BY <1>2 DEF Enter, AllowRequest, RecordSuccess, RecordFailure, Abandon, Goto, ThresholdCloses
<1>3. ASSUME NEW c \in Calls, Step(c)
      PROVE  \E d \in Calls : pc'[d] \in {"LockClosed", "ResetSuccess"}
  <2>1. CASE LoadLastTime(c) \/ ShouldAttemptReset(c)
    BY <2>1 DEF LoadLastTime, ShouldAttemptReset, Goto, ThresholdCloses
  <2>2. CASE TransitionToHalfOpen(c)
    BY <2>2 DEF TransitionToHalfOpen, Goto
  <2>3. CASE HalfOpenResetSuccess(c)
    BY <2>3 DEF HalfOpenResetSuccess
  <2>4. CASE ClearFailures(c)
    BY <2>4 DEF ClearFailures, Goto, ThresholdCloses
  <2>5. CASE AddSuccess(c)
    BY <2>5 DEF AddSuccess, Goto
  <2>6. CASE TransitionToClosed(c)
    BY <2>6 DEF TransitionToClosed, SetState
  <2>7. CASE ClosedResetFailures(c)
    BY <2>7 DEF ClosedResetFailures, Goto, ThresholdCloses
  <2>8. CASE ClosedResetSuccesses(c)
    BY <2>8 DEF ClosedResetSuccesses
  <2>9. CASE AddFailure(c)
    BY <2>9 DEF AddFailure, Goto, ThresholdCloses
  <2>10. CASE TransitionToOpen(c)
    BY <2>10 DEF TransitionToOpen, Goto, SetState
  <2>11. CASE StoreLastFailureTime(c)
    BY <2>11 DEF StoreLastFailureTime, Goto, ThresholdCloses
  <2> QED
    BY <1>3, <2>1, <2>2, <2>3, <2>4, <2>5, <2>6, <2>7, <2>8, <2>9, <2>10, <2>11 DEF Step
<1> QED
  BY <1>1, <1>2, <1>3 DEF Next

(***************************************************************************)
(* No interleaving loses a recovery that is due.                           *)
(***************************************************************************)
THEOREM NoRecoveryIsLost == Spec => []ThresholdCloses
<1>1. Init => ThresholdCloses
  BY ThresholdAssumption DEF Init, ThresholdCloses
<1> QED
  BY <1>1, ThresholdClosesNext, TypeCorrect, PTL DEF Spec

-----------------------------------------------------------------------------
(***************************************************************************)
(* One RPC at a time: what a call has loaded is still true when it acts on *)
(* it, and the count it took to its threshold is still there.              *)
(***************************************************************************)
Current(c) ==
  /\ pc[c] \in {"LoadTime", "CheckTime", "LockHalfOpen", "StoreTime"} => state = OPEN
  /\ pc[c] = "CheckTime" => last_time[c] = last_failure_age
  /\ pc[c] = "LockHalfOpen" => last_failure_age = Timeout
  /\ pc[c] \in {"ResetSuccess", "AddSuccess", "LockClosed"} => state = HALF_OPEN
  /\ pc[c] \in {"ClearFailures", "AddFailure", "CloseFailures", "CloseSuccesses"} => state = CLOSED
  /\ pc[c] = "LockClosed" => success_count >= SuccessThreshold
  /\ pc[c] = "LockOpen" => state # OPEN
  /\ pc[c] = "LockOpen" /\ state = CLOSED => failure_count >= FailureThreshold

\* The inductive step for the only call.
LEMMA CurrentNext ==
  ASSUME NEW c, Calls = {c}
  PROVE  TypeOK /\ Current(c) /\ [Next]_vars => Current(c)'
<1> SUFFICES ASSUME TypeOK, Current(c), [Next]_vars PROVE Current(c)'
  OBVIOUS
<1> USE ThresholdAssumption DEF TypeOK, States, CLOSED, OPEN, HALF_OPEN, Current, shared, history
<1>0. c \in Calls
  OBVIOUS
<1>1. CASE Tick
  BY <1>0, <1>1 DEF Tick, Older
<1>2. CASE Enter(c)
  BY <1>0, <1>2 DEF Enter, AllowRequest, RecordSuccess, RecordFailure, Abandon, Goto
<1>3. CASE Step(c)
  <2>1. CASE LoadLastTime(c) \/ ShouldAttemptReset(c)
    BY <1>0, <2>1 DEF LoadLastTime, ShouldAttemptReset, Goto
  <2>2. CASE TransitionToHalfOpen(c) \/ HalfOpenResetSuccess(c)
    BY <1>0, <2>2 DEF TransitionToHalfOpen, HalfOpenResetSuccess, Goto, SetState
  <2>3. CASE ClearFailures(c) \/ AddSuccess(c)
    BY <1>0, <2>3 DEF ClearFailures, AddSuccess, Goto
  <2>4. CASE TransitionToClosed(c) \/ ClosedResetFailures(c) \/ ClosedResetSuccesses(c)
    BY <1>0, <2>4 DEF TransitionToClosed, ClosedResetFailures, ClosedResetSuccesses, Goto, SetState
  <2>5. CASE AddFailure(c) \/ TransitionToOpen(c) \/ StoreLastFailureTime(c)
    BY <1>0, <2>5 DEF AddFailure, TransitionToOpen, StoreLastFailureTime, Goto, SetState
  <2> QED
    BY <1>3, <2>1, <2>2, <2>3, <2>4, <2>5 DEF Step
<1>4. CASE UNCHANGED vars
  BY <1>4 DEF vars
<1> QED
  BY <1>1, <1>2, <1>3, <1>4 DEF Next

\* What the contract sees of the only call, before and after a step.
Seen(p, s, f, n, a) ==
  /\ SeenFailures = IF p = "CloseFailures" THEN 0
                    ELSE IF p = "LockOpen" /\ s = CLOSED THEN f - 1 ELSE f
  /\ SeenSuccesses = IF p \in {"ResetSuccess", "CloseFailures", "CloseSuccesses"} THEN 0
                     ELSE IF p = "LockClosed" THEN n - 1 ELSE n
  /\ SeenAge = IF p = "StoreTime" THEN 0 ELSE a

LEMMA OneSeen ==
  ASSUME NEW c, Calls = {c}
  PROVE  /\ Seen(pc[c], state, failure_count, success_count, last_failure_age)
         /\ Seen(pc[c], state, failure_count, success_count, last_failure_age)'
<1>1. Seen(pc[c], state, failure_count, success_count, last_failure_age)
  BY DEF Seen, SeenFailures, SeenSuccesses, SeenAge, At
<1>2. Seen(pc[c], state, failure_count, success_count, last_failure_age)'
  BY DEF Seen, SeenFailures, SeenSuccesses, SeenAge, At
<1> QED
  BY <1>1, <1>2

\* Every step is one of the contract, or nothing it sees.
LEMMA ContractStep ==
  ASSUME NEW c, Calls = {c}, TypeOK, Current(c), [Next]_vars
  PROVE  [Contract!Next]_(Contract!vars)
<1> DEFINE in == {d \in Calls : pc[d] \in Admitted}
<1> USE ThresholdAssumption DEF TypeOK, States, CLOSED, OPEN, HALF_OPEN, Current, shared, history, Seen, Contract!vars
<1>0. c \in Calls
  OBVIOUS
<1>s. /\ Seen(pc[c], state, failure_count, success_count, last_failure_age)
      /\ Seen(pc[c], state, failure_count, success_count, last_failure_age)'
  BY OneSeen
<1>i. /\ in = IF pc[c] \in Admitted THEN {c} ELSE {}
      /\ in' = IF pc'[c] \in Admitted THEN {c} ELSE {}
  OBVIOUS
<1>1. CASE Tick
  <2>1. pc' = pc /\ in' = in /\ state' = state /\ SeenFailures' = SeenFailures /\ SeenSuccesses' = SeenSuccesses
    BY <1>s, <1>1 DEF Tick
  <2>2. CASE SeenAge' = SeenAge
    BY <2>1, <2>2
  <2>3. CASE SeenAge' # SeenAge
    <3>1. SeenAge < Timeout /\ SeenAge' = SeenAge + 1
      BY <1>s, <1>1, <2>3 DEF Tick, Older
    <3>2. Contract!Tick
      BY <2>1, <3>1 DEF Contract!Tick
    <3> QED
      BY <3>2 DEF Contract!Next
  <2> QED
    BY <2>2, <2>3
<1>2. CASE AllowRequest(c)
  <2>1. CASE state = OPEN
    BY <1>0, <1>s, <1>i, <1>2, <2>1 DEF AllowRequest, Goto, Admitted
  <2>2. CASE state # OPEN
    <3>1. Contract!Admit(c)
      BY <1>0, <1>s, <1>i, <1>2, <2>2 DEF AllowRequest, Goto, Admitted, Contract!Admit
    <3> QED
      BY <1>0, <3>1 DEF Contract!Next
  <2> QED
    BY <2>1, <2>2
<1>3. CASE RecordSuccess(c)
  <2>1. CASE state = OPEN
    <3>1. Contract!RecordSuccess(c)
      BY <1>0, <1>s, <1>i, <1>3, <2>1 DEF RecordSuccess, Goto, Admitted, Contract!RecordSuccess
    <3> QED
      BY <1>0, <3>1 DEF Contract!Next
  <2>2. CASE state # OPEN
    BY <1>0, <1>s, <1>i, <1>3, <2>2 DEF RecordSuccess, Goto, Admitted
  <2> QED
    BY <2>1, <2>2
<1>4. CASE RecordFailure(c)
  <2>1. CASE state = OPEN
    <3>1. Contract!RecordFailure(c)
      BY <1>0, <1>s, <1>i, <1>4, <2>1 DEF RecordFailure, Goto, Admitted, Contract!RecordFailure
    <3> QED
      BY <1>0, <3>1 DEF Contract!Next
  <2>2. CASE state # OPEN
    BY <1>0, <1>s, <1>i, <1>4, <2>2 DEF RecordFailure, Goto, Admitted
  <2> QED
    BY <2>1, <2>2
<1>5. CASE Abandon(c)
  <2>1. Contract!Abandon(c)
    BY <1>0, <1>s, <1>i, <1>5 DEF Abandon, Goto, Admitted, Contract!Abandon
  <2> QED
    BY <1>0, <2>1 DEF Contract!Next
<1>6. CASE LoadLastTime(c) \/ ShouldAttemptReset(c)
  BY <1>0, <1>s, <1>i, <1>6 DEF LoadLastTime, ShouldAttemptReset, Goto, Admitted
<1>7. CASE TransitionToHalfOpen(c)
  <2>1. Contract!Probe(c)
    BY <1>0, <1>s, <1>i, <1>7 DEF TransitionToHalfOpen, SetState, Goto, Admitted, Contract!Probe
  <2> QED
    BY <1>0, <2>1 DEF Contract!Next
<1>8. CASE HalfOpenResetSuccess(c) \/ ClosedResetFailures(c) \/ ClosedResetSuccesses(c) \/ StoreLastFailureTime(c)
  BY <1>0, <1>s, <1>i, <1>8
  DEF HalfOpenResetSuccess, ClosedResetFailures, ClosedResetSuccesses, StoreLastFailureTime, Goto, Admitted
<1>9. CASE ClearFailures(c) \/ TransitionToClosed(c)
  <2>1. pc[c] \in Admitted /\ pc'[c] \notin Admitted /\ in' = in \ {c} /\ c \in in /\ SeenAge' = SeenAge
    BY <1>0, <1>s, <1>i, <1>9 DEF ClearFailures, TransitionToClosed, SetState, Goto, Admitted
  <2>2. ASSUME ClearFailures(c)
        PROVE  state = "closed" /\ SeenFailures' = 0 /\ state' = state /\ SeenSuccesses' = SeenSuccesses
    BY <1>0, <1>s, <2>2 DEF ClearFailures, Goto
  <2>3. ASSUME TransitionToClosed(c)
        PROVE  /\ state = "half_open" /\ SeenSuccesses + 1 >= SuccessThreshold
               /\ state' = "closed" /\ SeenFailures' = 0 /\ SeenSuccesses' = 0
    BY <1>0, <1>s, <2>3 DEF TransitionToClosed, SetState, Goto
  <2> HIDE DEF in
  <2>4. \/ state = "closed" /\ SeenFailures' = 0 /\ state' = state /\ SeenSuccesses' = SeenSuccesses
        \/ /\ state = "half_open" /\ SeenSuccesses + 1 >= SuccessThreshold
           /\ state' = "closed" /\ SeenFailures' = 0 /\ SeenSuccesses' = 0
    BY <1>9, <2>2, <2>3
  <2>5. Contract!RecordSuccess(c)
    BY <2>1, <2>4 DEF Contract!RecordSuccess, in
  <2> QED
    BY <1>0, <2>5 DEF Contract!Next
<1>10. CASE AddSuccess(c)
  <2>1. CASE success_count' >= SuccessThreshold
    BY <1>0, <1>s, <1>i, <1>10, <2>1 DEF AddSuccess, Goto, Admitted
  <2>2. CASE success_count' < SuccessThreshold
    <3>1. Contract!RecordSuccess(c)
      BY <1>0, <1>s, <1>i, <1>10, <2>2 DEF AddSuccess, Goto, Admitted, Contract!RecordSuccess
    <3> QED
      BY <1>0, <3>1 DEF Contract!Next
  <2> QED
    BY <1>10, <2>1, <2>2 DEF AddSuccess
<1>11. CASE AddFailure(c)
  <2>1. CASE failure_count' >= FailureThreshold
    BY <1>0, <1>s, <1>i, <1>11, <2>1 DEF AddFailure, Goto, Admitted
  <2>2. CASE failure_count' < FailureThreshold
    <3>1. Contract!RecordFailure(c)
      BY <1>0, <1>s, <1>i, <1>11, <2>2 DEF AddFailure, Goto, Admitted, Contract!RecordFailure
    <3> QED
      BY <1>0, <3>1 DEF Contract!Next
  <2> QED
    BY <1>11, <2>1, <2>2 DEF AddFailure
<1>12. CASE TransitionToOpen(c)
  <2>1. Contract!RecordFailure(c)
    BY <1>0, <1>s, <1>i, <1>12 DEF TransitionToOpen, SetState, Goto, Admitted, Contract!RecordFailure
  <2> QED
    BY <1>0, <2>1 DEF Contract!Next
<1>13. CASE UNCHANGED vars
  BY <1>s, <1>i, <1>13 DEF vars
<1> QED
  BY <1>1, <1>2, <1>3, <1>4, <1>5, <1>6, <1>7, <1>8, <1>9, <1>10, <1>11, <1>12, <1>13 DEF Next, Enter, Step

(***************************************************************************)
(* Used by one RPC at a time, the breaker behaves as if its operations     *)
(* were atomic, for any thresholds and any timeout: the contract the       *)
(* channel's model relies on (rpc_circuit_breaker.cc:22-83).               *)
(***************************************************************************)
THEOREM OneCallSeesTheContract ==
  ASSUME NEW c, Calls = {c} PROVE Spec => RefinesContract
<1>1. Init => Contract!Init /\ Current(c)
  <2> SUFFICES ASSUME Init PROVE Contract!Init /\ Current(c)
    OBVIOUS
  <2>1. Seen(pc[c], state, failure_count, success_count, last_failure_age) /\ pc[c] = "Idle"
    BY OneSeen DEF Init
  <2>2. {d \in Calls : pc[d] \in Admitted} = {}
    BY DEF Init, Admitted
  <2> QED
    BY <2>1, <2>2 DEF Init, Contract!Init, Seen, Current, CLOSED
<1>2. TypeOK /\ Current(c) /\ [Next]_vars => Current(c)'
  BY CurrentNext
<1>3. TypeOK /\ Current(c) /\ [Next]_vars => [Contract!Next]_(Contract!vars)
  BY ContractStep
<1> QED
  BY <1>1, <1>2, <1>3, TypeCorrect, PTL DEF Spec, RefinesContract, Contract!Spec

\* last_failure_time_ is not older than the last trip, once it is stored.
TripTimed(c) == state = OPEN /\ pc[c] # "StoreTime" => last_failure_age <= open_age

LEMMA TripTimedNext ==
  ASSUME NEW c, Calls = {c}
  PROVE  TypeOK /\ Current(c) /\ TripTimed(c) /\ [Next]_vars => TripTimed(c)'
<1> SUFFICES ASSUME TypeOK, Current(c), TripTimed(c), [Next]_vars PROVE TripTimed(c)'
  OBVIOUS
<1> USE ThresholdAssumption DEF TypeOK, States, CLOSED, OPEN, HALF_OPEN, TripTimed, shared, history
<1>0. c \in Calls
  OBVIOUS
<1>1. CASE Tick \/ UNCHANGED vars
  BY <1>0, <1>1 DEF Tick, Older, vars
<1>2. CASE Enter(c)
  BY <1>0, <1>2 DEF Enter, AllowRequest, RecordSuccess, RecordFailure, Abandon, Goto, Current
<1>3. CASE Step(c)
  <2>1. CASE LoadLastTime(c) \/ ShouldAttemptReset(c) \/ TransitionToHalfOpen(c) \/ HalfOpenResetSuccess(c)
    BY <1>0, <2>1 DEF LoadLastTime, ShouldAttemptReset, TransitionToHalfOpen, HalfOpenResetSuccess, Goto, SetState
  <2>2. CASE ClearFailures(c) \/ AddSuccess(c) \/ TransitionToClosed(c) \/ ClosedResetFailures(c) \/ ClosedResetSuccesses(c)
    BY <1>0, <2>2 DEF ClearFailures, AddSuccess, TransitionToClosed, ClosedResetFailures, ClosedResetSuccesses, Goto, SetState
  <2>3. CASE AddFailure(c) \/ TransitionToOpen(c) \/ StoreLastFailureTime(c)
    BY <1>0, <2>3 DEF AddFailure, TransitionToOpen, StoreLastFailureTime, Goto, SetState
  <2> QED
    BY <1>3, <2>1, <2>2, <2>3 DEF Step
<1> QED
  BY <1>1, <1>2, <1>3 DEF Next

(***************************************************************************)
(* Used by one RPC at a time, an OPEN breaker rejects for timeout_ms_      *)
(* after it opened; with more, a stale transition may end it earlier.      *)
(***************************************************************************)
THEOREM OneCallWaitsForTimeout ==
  ASSUME NEW c, Calls = {c} PROVE Spec => OpenLastsTimeout
<1>1. Init => Current(c) /\ TripTimed(c)
  BY DEF Init, Current, TripTimed, CLOSED, OPEN
<1>2. TypeOK /\ Current(c) /\ [Next]_vars => Current(c)'
  BY CurrentNext
<1>3. TypeOK /\ Current(c) /\ TripTimed(c) /\ [Next]_vars => TripTimed(c)'
  BY TripTimedNext
<1>4. TypeOK /\ Current(c) /\ TripTimed(c) /\ [Next]_vars => [state = OPEN /\ state' # OPEN => open_age >= Timeout]_vars
  <2> SUFFICES ASSUME TypeOK, Current(c), TripTimed(c), Next, state = OPEN, state' # OPEN PROVE open_age >= Timeout
    OBVIOUS
  <2> USE DEF CLOSED, OPEN, HALF_OPEN, shared, history
  <2>1. TransitionToHalfOpen(c) \/ TransitionToClosed(c)
    BY DEF Next, Tick, Enter, AllowRequest, RecordSuccess, RecordFailure, Abandon, Step, LoadLastTime, ShouldAttemptReset,
           HalfOpenResetSuccess, ClearFailures, AddSuccess, ClosedResetFailures, ClosedResetSuccesses, AddFailure,
           TransitionToOpen, StoreLastFailureTime, SetState
  <2>2. pc[c] = "LockHalfOpen"
    BY <2>1 DEF TransitionToHalfOpen, TransitionToClosed, Goto, Current
  <2>3. last_failure_age = Timeout
    BY <2>2 DEF Current
  <2> QED
    BY <2>2, <2>3, ThresholdAssumption DEF TripTimed, TypeOK
<1> QED
  BY <1>1, <1>2, <1>3, <1>4, TypeCorrect, PTL DEF Spec, OpenLastsTimeout
=============================================================================
