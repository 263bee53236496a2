--------------------------- MODULE CircuitBreaker ---------------------------
(***************************************************************************)
(* CircuitBreaker (rpc_circuit_breaker.cc) at the granularity of its       *)
(* atomic operations.  state_, failure_count_, success_count_ and          *)
(* last_failure_time_ are separate std::atomics; mutex_ is taken only by   *)
(* the three transition_to_* functions and protects no reader, so every    *)
(* load, store and fetch_add below is a step of its own.                   *)
(*                                                                         *)
(* An actor is one RPC: the channel calls allow_request(), and the         *)
(* network callback of an admitted RPC calls record_success() or           *)
(* record_failure(), possibly much later and on another thread.            *)
(*                                                                         *)
(* Time is kept as ages: the age of a timestamp is min(now - it, Timeout), *)
(* all that should_attempt_reset() can tell apart.  A load of the          *)
(* timestamp copies its age, and a tick of the clock ages the timestamp    *)
(* and every copy of it, so the model needs no bound on time.              *)
(***************************************************************************)
EXTENDS Integers, FiniteSets

CONSTANTS Calls,             \* the RPCs that share the breaker
          NoCall,            \* the owner of mutex_ when it is free
          FailureThreshold,  \* failure_threshold_
          SuccessThreshold,  \* success_threshold_
          Timeout            \* timeout_ms_, in ticks

ASSUME NoCallAssumption == NoCall \notin Calls
ASSUME ThresholdAssumption == /\ FailureThreshold \in Nat \ {0}
                              /\ SuccessThreshold \in Nat \ {0}
                              /\ Timeout \in Nat \ {0}

CLOSED    == "closed"
OPEN      == "open"
HALF_OPEN == "half_open"
States    == {CLOSED, OPEN, HALF_OPEN}

VARIABLES
  state,             \* state_
  failure_count,     \* failure_count_
  success_count,     \* success_count_
  last_failure_age,  \* the age of last_failure_time_
  mutex,             \* the call that holds mutex_, or NoCall
  pc,                \* the next step of each call
  last_time,         \* should_attempt_reset: the age of the local last_time
  failures,          \* history: failures counted so far, saturating
  open_age           \* history: how long ago state_ last became OPEN

shared  == <<state, failure_count, success_count, last_failure_age, mutex>>
history == <<failures, open_age>>
vars    == <<shared, pc, last_time, history>>

(***************************************************************************)
(* Where a call can be.  Idle: before allow_request().  InFlight: admitted,*)
(* nothing recorded yet.                                                   *)
(***************************************************************************)
Locations == {"Idle", "LoadTime", "CheckTime", "LockHalfOpen", "ResetSuccess",
              "InFlight", "ClearFailures", "AddSuccess", "LockClosed",
              "CloseFailures", "CloseSuccesses",
              "AddFailure", "LockOpen", "StoreTime"}

Older(age) == IF age < Timeout THEN age + 1 ELSE age

Goto(c, from, to) == pc[c] = from /\ pc' = [pc EXCEPT ![c] = to]

\* The history of state_: a store that makes the breaker OPEN restarts open_age.
SetState(s) == /\ state' = s
               /\ open_age' = IF s = OPEN /\ state # OPEN THEN 0 ELSE open_age

-----------------------------------------------------------------------------
\* The constructor, in 1970 as far as last_failure_time_ is concerned.
Init == /\ state = CLOSED
        /\ failure_count = 0
        /\ success_count = 0
        /\ last_failure_age = Timeout
        /\ mutex = NoCall
        /\ pc = [c \in Calls |-> "Idle"]
        /\ last_time = [c \in Calls |-> 0]
        /\ failures = 0
        /\ open_age = Timeout

\* allow_request: the load of state_ and the branches that need nothing else.
AllowRequest(c) ==
  /\ \/ state \in {CLOSED, HALF_OPEN} /\ Goto(c, "Idle", "InFlight")
     \/ state = OPEN /\ Goto(c, "Idle", "LoadTime")
  /\ UNCHANGED <<shared, last_time, history>>

\* should_attempt_reset: the load of last_failure_time_ ...
LoadLastTime(c) ==
  /\ Goto(c, "LoadTime", "CheckTime")
  /\ last_time' = [last_time EXCEPT ![c] = last_failure_age]
  /\ UNCHANGED <<shared, history>>

\* Faulty variant: a rejected request restarts the timeout.
ShouldAttemptReset_Restarts(c) ==
  /\ \/ /\ last_time[c] >= Timeout /\ Goto(c, "CheckTime", "LockHalfOpen")
        /\ UNCHANGED last_failure_age
     \/ last_time[c] < Timeout /\ Goto(c, "CheckTime", "Idle") /\ last_failure_age' = 0
  /\ last_time' = [last_time EXCEPT ![c] = 0]
  /\ UNCHANGED <<state, failure_count, success_count, mutex, history>>

\* ... and the comparison with the clock.  A call that comes too early is
\* rejected and ends; it records nothing in the breaker.
ShouldAttemptReset(c) ==
  /\ \/ last_time[c] >= Timeout /\ Goto(c, "CheckTime", "LockHalfOpen")
     \/ last_time[c] < Timeout  /\ Goto(c, "CheckTime", "Idle")
  /\ last_time' = [last_time EXCEPT ![c] = 0]
  /\ UNCHANGED <<shared, history>>

\* transition_to_half_open: lock and store, whatever state_ is by now ...
TransitionToHalfOpen(c) ==
  /\ mutex = NoCall
  /\ Goto(c, "LockHalfOpen", "ResetSuccess")
  /\ mutex' = c
  /\ SetState(HALF_OPEN)
  /\ UNCHANGED <<failure_count, success_count, last_failure_age, last_time, failures>>

\* Faulty variant: success_count_ keeps its value.
HalfOpenResetSuccess_Forgets(c) ==
  /\ Goto(c, "ResetSuccess", "InFlight")
  /\ mutex' = NoCall
  /\ UNCHANGED <<state, failure_count, success_count, last_failure_age, last_time, history>>

\* ... then reset success_count_ and unlock; allow_request returns true.
HalfOpenResetSuccess(c) ==
  /\ Goto(c, "ResetSuccess", "InFlight")
  /\ success_count' = 0
  /\ mutex' = NoCall
  /\ UNCHANGED <<state, failure_count, last_failure_age, last_time, history>>

-----------------------------------------------------------------------------
\* record_success: the load of state_.  Nothing to do when it is OPEN.
RecordSuccess(c) ==
  /\ \/ state = CLOSED    /\ Goto(c, "InFlight", "ClearFailures")
     \/ state = HALF_OPEN /\ Goto(c, "InFlight", "AddSuccess")
     \/ state = OPEN      /\ Goto(c, "InFlight", "Idle")
  /\ UNCHANGED <<shared, last_time, history>>

\* record_success when CLOSED was loaded.
ClearFailures(c) ==
  /\ Goto(c, "ClearFailures", "Idle")
  /\ failure_count' = 0
  /\ UNCHANGED <<state, success_count, last_failure_age, mutex, last_time, history>>

\* Faulty variant: > for >=.
AddSuccess_OffByOne(c) ==
  /\ success_count' = success_count + 1
  /\ \/ success_count' > SuccessThreshold /\ Goto(c, "AddSuccess", "LockClosed")
     \/ success_count' <= SuccessThreshold  /\ Goto(c, "AddSuccess", "Idle")
  /\ UNCHANGED <<state, failure_count, last_failure_age, mutex, last_time, history>>

\* record_success when HALF_OPEN was loaded: fetch_add and the threshold.
AddSuccess(c) ==
  /\ success_count' = success_count + 1
  /\ \/ success_count' >= SuccessThreshold /\ Goto(c, "AddSuccess", "LockClosed")
     \/ success_count' < SuccessThreshold  /\ Goto(c, "AddSuccess", "Idle")
  /\ UNCHANGED <<state, failure_count, last_failure_age, mutex, last_time, history>>

\* transition_to_closed: lock and store, whatever state_ is by now ...
TransitionToClosed(c) ==
  /\ mutex = NoCall
  /\ Goto(c, "LockClosed", "CloseFailures")
  /\ mutex' = c
  /\ SetState(CLOSED)
  /\ UNCHANGED <<failure_count, success_count, last_failure_age, last_time, failures>>

\* Faulty variant: failure_count_ keeps its value.
ClosedResetFailures_Forgets(c) ==
  /\ Goto(c, "CloseFailures", "CloseSuccesses")
  /\ UNCHANGED <<shared, last_time, history>>

\* ... failure_count_.store(0) ...
ClosedResetFailures(c) ==
  /\ Goto(c, "CloseFailures", "CloseSuccesses")
  /\ failure_count' = 0
  /\ UNCHANGED <<state, success_count, last_failure_age, mutex, last_time, history>>

\* ... success_count_.store(0) and unlock.
ClosedResetSuccesses(c) ==
  /\ Goto(c, "CloseSuccesses", "Idle")
  /\ success_count' = 0
  /\ mutex' = NoCall
  /\ UNCHANGED <<state, failure_count, last_failure_age, last_time, history>>

-----------------------------------------------------------------------------
\* record_failure: the load of state_.  Nothing to do when it is OPEN.
RecordFailure(c) ==
  /\ \/ state = CLOSED    /\ Goto(c, "InFlight", "AddFailure")
     \/ state = HALF_OPEN /\ Goto(c, "InFlight", "LockOpen")
     \/ state = OPEN      /\ Goto(c, "InFlight", "Idle")
  /\ UNCHANGED <<shared, last_time, history>>

\* Faulty variant: trips one failure early.
AddFailure_OffByOne(c) ==
  /\ failure_count' = failure_count + 1
  /\ \/ failure_count' + 1 >= FailureThreshold /\ Goto(c, "AddFailure", "LockOpen")
     \/ failure_count' + 1 < FailureThreshold  /\ Goto(c, "AddFailure", "Idle")
  /\ failures' = IF failures < FailureThreshold THEN failures + 1 ELSE failures
  /\ UNCHANGED <<state, success_count, last_failure_age, mutex, last_time, open_age>>

\* record_failure when CLOSED was loaded: fetch_add and the threshold.
AddFailure(c) ==
  /\ failure_count' = failure_count + 1
  /\ \/ failure_count' >= FailureThreshold /\ Goto(c, "AddFailure", "LockOpen")
     \/ failure_count' < FailureThreshold  /\ Goto(c, "AddFailure", "Idle")
  /\ failures' = IF failures < FailureThreshold THEN failures + 1 ELSE failures
  /\ UNCHANGED <<state, success_count, last_failure_age, mutex, last_time, open_age>>

\* transition_to_open under the lock: nothing if another call was faster,
\* else the store of state_ ...
TransitionToOpen(c) ==
  /\ mutex = NoCall
  /\ \/ /\ state = OPEN
        /\ Goto(c, "LockOpen", "Idle")
        /\ UNCHANGED <<state, mutex, open_age>>
     \/ /\ state # OPEN
        /\ Goto(c, "LockOpen", "StoreTime")
        /\ mutex' = c
        /\ SetState(OPEN)
  /\ UNCHANGED <<failure_count, success_count, last_failure_age, last_time, failures>>

\* Faulty variant: the time of the trip is not stored.
StoreLastFailureTime_Forgets(c) ==
  /\ Goto(c, "StoreTime", "Idle")
  /\ mutex' = NoCall
  /\ UNCHANGED <<state, failure_count, success_count, last_failure_age, last_time, history>>

\* ... and, one step later, of last_failure_time_.
StoreLastFailureTime(c) ==
  /\ Goto(c, "StoreTime", "Idle")
  /\ last_failure_age' = 0
  /\ mutex' = NoCall
  /\ UNCHANGED <<state, failure_count, success_count, last_time, history>>

-----------------------------------------------------------------------------
\* An admitted RPC that the rate limiter then refuses records nothing.
Abandon(c) ==
  /\ Goto(c, "InFlight", "Idle")
  /\ UNCHANGED <<shared, last_time, history>>

\* system_clock advances by one tick of timeout_ms_.
Tick ==
  /\ last_failure_age' = Older(last_failure_age)
  /\ last_time' = [c \in Calls |->
                     IF pc[c] = "CheckTime" THEN Older(last_time[c]) ELSE last_time[c]]
  /\ open_age' = Older(open_age)
  /\ UNCHANGED <<state, failure_count, success_count, mutex, pc, failures>>

\* The steps a call takes by itself once it has entered a function.
Step(c) ==
  \/ LoadLastTime(c) \/ ShouldAttemptReset(c)
  \/ TransitionToHalfOpen(c) \/ HalfOpenResetSuccess(c)
  \/ ClearFailures(c) \/ AddSuccess(c)
  \/ TransitionToClosed(c) \/ ClosedResetFailures(c) \/ ClosedResetSuccesses(c)
  \/ AddFailure(c) \/ TransitionToOpen(c) \/ StoreLastFailureTime(c)

\* The calls its users make.
Enter(c) == AllowRequest(c) \/ RecordSuccess(c) \/ RecordFailure(c) \/ Abandon(c)

Next == Tick \/ \E c \in Calls : Enter(c) \/ Step(c)

Spec == Init /\ [][Next]_vars

(***************************************************************************)
(* A thread that entered a function is scheduled again and leaves it, and  *)
(* time passes.  Nothing makes the users call.                             *)
(***************************************************************************)
Fairness == WF_vars(Tick) /\ \A c \in Calls : WF_vars(Step(c))

FairSpec == Spec /\ Fairness

-----------------------------------------------------------------------------
\* Types.  Both counters are ints that only the steps above change.
TypeOK ==
  /\ state \in States
  /\ failure_count \in Nat
  /\ success_count \in Nat
  /\ last_failure_age \in 0..Timeout
  /\ mutex \in Calls \cup {NoCall}
  /\ pc \in [Calls -> Locations]
  /\ last_time \in [Calls -> 0..Timeout]
  /\ failures \in 0..FailureThreshold
  /\ open_age \in 0..Timeout

(***************************************************************************)
(* The breaker does not leave CLOSED the first time, not even through      *)
(* stale transitions, before failure_threshold_ failures have been counted *)
(* (record_failure, rpc_circuit_breaker.cc:67-83).                         *)
(***************************************************************************)
TripNeedsThreshold == state # CLOSED => failures >= FailureThreshold

(***************************************************************************)
(* No trip is lost: a breaker that is CLOSED with its failure count at the *)
(* threshold has a call on its way into transition_to_open, or is in the   *)
(* middle of the transition_to_closed that resets the count.               *)
(***************************************************************************)
ThresholdTrips ==
  state = CLOSED /\ failure_count >= FailureThreshold =>
    \E c \in Calls : pc[c] \in {"LockOpen", "CloseFailures"}

(***************************************************************************)
(* No recovery is lost: a HALF_OPEN breaker with success_threshold_        *)
(* successes has a call on its way into transition_to_closed, or is in the *)
(* middle of the transition_to_half_open that resets the count.            *)
(***************************************************************************)
ThresholdCloses ==
  state = HALF_OPEN /\ success_count >= SuccessThreshold =>
    \E c \in Calls : pc[c] \in {"LockClosed", "ResetSuccess"}

(***************************************************************************)
(* An OPEN breaker does not stay OPEN while requests keep arriving: after  *)
(* timeout_ms_ one of them is let through (allow_request, :31-39).         *)
(***************************************************************************)
OpenIsProbed ==
  ([]<><<\E c \in Calls : AllowRequest(c)>>_vars) => (state = OPEN ~> state # OPEN)

(***************************************************************************)
(* OPEN rejects every request until timeout_ms_ has passed since the       *)
(* breaker opened, so it cannot leave OPEN any earlier (README.md:240,     *)
(* "STATE_OPEN: rejects all requests").                                    *)
(***************************************************************************)
OpenLastsTimeout == [][state = OPEN /\ state' # OPEN => open_age >= Timeout]_vars

-----------------------------------------------------------------------------
(***************************************************************************)
(* Refinement mapping to BreakerContract, for one RPC at a time.  An       *)
(* operation takes effect with its last change of state_ (or with its only *)
(* change of a counter): a count that has reached its threshold is not     *)
(* visible before state_ is, and the resets that follow state_ are visible *)
(* with it.                                                                *)
(***************************************************************************)
At(locs) == \E c \in Calls : pc[c] \in locs

SeenFailures == IF At({"CloseFailures"}) THEN 0
                ELSE IF At({"LockOpen"}) /\ state = CLOSED
                       THEN failure_count - 1 ELSE failure_count

SeenSuccesses == IF At({"ResetSuccess", "CloseFailures", "CloseSuccesses"}) THEN 0
                 ELSE IF At({"LockClosed"}) THEN success_count - 1 ELSE success_count

SeenAge == IF At({"StoreTime"}) THEN 0 ELSE last_failure_age

Admitted == {"ResetSuccess", "InFlight", "ClearFailures", "AddSuccess", "LockClosed",
             "AddFailure", "LockOpen"}

Contract == INSTANCE BreakerContract WITH
  failure_count <- SeenFailures, success_count <- SeenSuccesses, open_age <- SeenAge,
  inflight <- {c \in Calls : pc[c] \in Admitted}

(***************************************************************************)
(* Used by one RPC at a time, the breaker behaves as if its operations     *)
(* were atomic.                                                            *)
(***************************************************************************)
RefinesContract == Contract!Spec
=============================================================================
