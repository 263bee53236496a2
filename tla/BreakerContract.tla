--------------------------- MODULE BreakerContract ---------------------------
(***************************************************************************)
(* What CircuitBreaker promises its users: allow_request(),                *)
(* record_success() and record_failure() as if each ran in one step        *)
(* (rpc_circuit_breaker.cc:22-83; README.md:235-245).  CircuitBreaker      *)
(* implements it when one RPC at a time uses the breaker; RpcChannel       *)
(* uses it as the breaker of a service.                                    *)
(***************************************************************************)
EXTENDS Integers

CONSTANTS Calls, FailureThreshold, SuccessThreshold, Timeout

VARIABLES
  state,          \* state_
  failure_count,  \* failure_count_
  success_count,  \* success_count_
  open_age,       \* min(now - last_failure_time_, Timeout)
  inflight        \* the RPCs that were let through and recorded nothing yet

vars == <<state, failure_count, success_count, open_age, inflight>>

Init == /\ state = "closed"
        /\ failure_count = 0
        /\ success_count = 0
        /\ open_age = Timeout
        /\ inflight = {}

\* allow_request() = true without a transition.
Admit(c) ==
  /\ c \notin inflight
  /\ state \in {"closed", "half_open"}
  /\ inflight' = inflight \cup {c}
  /\ UNCHANGED <<state, failure_count, success_count, open_age>>

\* allow_request() = true, and the breaker starts to probe.
Probe(c) ==
  /\ c \notin inflight
  /\ state = "open" /\ open_age >= Timeout
  /\ state' = "half_open"
  /\ success_count' = 0
  /\ inflight' = inflight \cup {c}
  /\ UNCHANGED <<failure_count, open_age>>

\* allow_request() = false.
Reject(c) ==
  /\ c \notin inflight
  /\ state = "open" /\ open_age < Timeout
  /\ UNCHANGED vars

\* record_success().
RecordSuccess(c) ==
  /\ c \in inflight
  /\ inflight' = inflight \ {c}
  /\ \/ /\ state = "closed"
        /\ failure_count' = 0
        /\ UNCHANGED <<state, success_count>>
     \/ /\ state = "half_open" /\ success_count + 1 < SuccessThreshold
        /\ success_count' = success_count + 1
        /\ UNCHANGED <<state, failure_count>>
     \/ /\ state = "half_open" /\ success_count + 1 >= SuccessThreshold
        /\ state' = "closed"
        /\ failure_count' = 0 /\ success_count' = 0
     \/ state = "open" /\ UNCHANGED <<state, failure_count, success_count>>
  /\ UNCHANGED open_age

\* record_failure().
RecordFailure(c) ==
  /\ c \in inflight
  /\ inflight' = inflight \ {c}
  /\ failure_count' = IF state = "closed" THEN failure_count + 1 ELSE failure_count
  /\ IF \/ state = "closed" /\ failure_count + 1 >= FailureThreshold
        \/ state = "half_open"
       THEN state' = "open" /\ open_age' = 0
       ELSE UNCHANGED <<state, open_age>>
  /\ UNCHANGED success_count

\* An RPC that was let through ends without recording anything.
Abandon(c) ==
  /\ c \in inflight
  /\ inflight' = inflight \ {c}
  /\ UNCHANGED <<state, failure_count, success_count, open_age>>

Tick ==
  /\ open_age < Timeout
  /\ open_age' = open_age + 1
  /\ UNCHANGED <<state, failure_count, success_count, inflight>>

Next == \/ Tick
        \/ \E c \in Calls : \/ Admit(c) \/ Probe(c) \/ Reject(c)
                            \/ RecordSuccess(c) \/ RecordFailure(c) \/ Abandon(c)

Spec == Init /\ [][Next]_vars
=============================================================================
