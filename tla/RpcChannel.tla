----------------------------- MODULE RpcChannel -----------------------------
(***************************************************************************)
(* The client side of an RPC: CallMethod and the network callback of       *)
(* TinyPbRpcChannel and TinyPbRpcAsyncChannel, composed with the           *)
(* ServiceGovernanceManager, the breaker of the service (BreakerContract), *)
(* RpcMetrics and the caller's TinyPbRpcController.                        *)
(*                                                                         *)
(* All calls are for one service: services share nothing but the metrics.  *)
(* CallMethod takes a step for every question it asks a shared component,  *)
(* because enable/disable, parameter updates and other calls interleave    *)
(* there.  try_acquire may answer either way (RateLimiter says when), and  *)
(* the network may do anything but call back twice.                        *)
(***************************************************************************)
EXTENDS Integers, FiniteSets

CONSTANTS Calls,             \* each is one CallMethod with its own controller
          FailureThreshold, SuccessThreshold, Timeout,
          MaxBreakers        \* bound: breaker objects ever created

ASSUME ChannelAssumption ==
  IsFiniteSet(Calls) /\ MaxBreakers \in Nat /\ Timeout \in Nat

VARIABLES
  \* the calls
  pc,               \* where CallMethod or the callback is
  kind,             \* "sync" (TinyPbRpcChannel) or "async" (TinyPbRpcAsyncChannel)
  typed,            \* the controller is a TinyPbRpcController
  held,             \* the local breaker pointer: an object's number, 0 for nullptr
  failed,           \* controller: failed_
  code,             \* controller: error_code_
  response,         \* what the caller's response message holds
  done,             \* how often done->Run() was called
  \* ServiceGovernanceManager
  breaker,          \* the object in circuit_breakers_, 0 if none
  breakers,         \* objects created so far
  breaker_enabled,  \* circuit_breaker_enabled_
  limiter,          \* rate_limiters_ holds a limiter
  limiter_enabled,  \* rate_limiter_enabled_
  \* RpcMetrics
  total, success, failure, latencies,
  \* the breaker object in circuit_breakers_
  state, failure_count, success_count, open_age, inflight

callVars    == <<pc, kind, typed, held, failed, code, response, done>>
govVars     == <<breaker, breakers, breaker_enabled, limiter, limiter_enabled>>
metricVars  == <<total, success, failure, latencies>>
breakerVars == <<state, failure_count, success_count, open_age, inflight>>
vars == <<callVars, govVars, metricVars, breakerVars>>

Breaker == INSTANCE BreakerContract

\* RpcStatus, as far as the client can see it.
OK            == 0
SERVER_ERROR  == 500
BREAKER_OPEN  == 504
RATE_LIMITED  == 505

Locations == {"Start", "GetBreaker", "AllowRequest", "CheckLimiter", "TryAcquire",
              "Send", "InFlight",
              "Invalid", "Rejected", "Limited", "Unsent", "Failed", "Succeeded"}

Finished == {"Invalid", "Rejected", "Limited", "Unsent", "Failed", "Succeeded"}

Goto(c, from, to) == pc[c] = from /\ pc' = [pc EXCEPT ![c] = to]

-----------------------------------------------------------------------------
Init ==
  /\ pc = [c \in Calls |-> "Start"]
  /\ kind \in [Calls -> {"sync", "async"}]
  /\ typed \in [Calls -> BOOLEAN]
  /\ held = [c \in Calls |-> 0]
  /\ failed = [c \in Calls |-> FALSE]
  /\ code = [c \in Calls |-> OK]
  /\ response = [c \in Calls |-> "empty"]
  /\ done = [c \in Calls |-> 0]
  /\ breaker = 0 /\ breakers = 0 /\ breaker_enabled = FALSE
  /\ limiter = FALSE /\ limiter_enabled = FALSE
  /\ total = 0 /\ success = 0 /\ failure = 0 /\ latencies = 0
  /\ Breaker!Init

\* SetFailed, SetErrorCode and done->Run() at the end of a call.  The async
\* channel has no controller to tell when it is of another type.
Report(c, fail, err) ==
  /\ failed' = [failed EXCEPT ![c] = typed[c] /\ fail]
  /\ code' = IF typed[c] THEN [code EXCEPT ![c] = err] ELSE code
  /\ done' = [done EXCEPT ![c] = @ + 1]

Quiet == UNCHANGED <<failed, code, done>>

\* The breaker the call holds is the one of the service, so record_success and
\* record_failure reach it.  A nullptr is skipped, and a call to an object that
\* set_circuit_breaker_params destroyed tells the current breaker nothing.
ReachesBreaker(c) == held[c] # 0 /\ held[c] = breaker

-----------------------------------------------------------------------------
\* CallMethod up to is_circuit_breaker_enabled.  The sync channel refuses a
\* controller of another type (it tells that controller, not a TinyPb one).
Start(c) ==
  /\ \/ /\ kind[c] = "sync" /\ ~typed[c]
        /\ Goto(c, "Start", "Invalid")
        /\ Report(c, TRUE, OK)
     \/ /\ kind[c] = "async" \/ typed[c]
        /\ \/ breaker_enabled  /\ Goto(c, "Start", "GetBreaker")
           \/ ~breaker_enabled /\ Goto(c, "Start", "CheckLimiter")
        /\ Quiet
  /\ UNCHANGED <<kind, typed, held, response, govVars, metricVars, breakerVars>>

\* The creation of a breaker in get_circuit_breaker, which enables it.
CreateBreaker ==
  /\ breakers < MaxBreakers
  /\ breakers' = breakers + 1
  /\ breaker' = breakers + 1
  /\ breaker_enabled' = TRUE

\* get_circuit_breaker: find or create.
GetBreaker(c) ==
  /\ Goto(c, "GetBreaker", "AllowRequest")
  /\ \/ breaker # 0 /\ UNCHANGED <<breaker, breakers, breaker_enabled>>
     \/ breaker = 0 /\ CreateBreaker
  /\ held' = [held EXCEPT ![c] = breaker']
  /\ UNCHANGED <<kind, typed, failed, code, response, done, limiter, limiter_enabled,
                 metricVars, breakerVars>>

\* Faulty variant: a refused request is counted, too.
AllowRequest_Counts(c) ==
  /\ \/ /\ IF held[c] = breaker THEN Breaker!Admit(c) \/ Breaker!Probe(c)
                                ELSE UNCHANGED breakerVars
        /\ Goto(c, "AllowRequest", "CheckLimiter")
        /\ Quiet /\ UNCHANGED metricVars
     \/ /\ IF held[c] = breaker THEN Breaker!Reject(c) ELSE UNCHANGED breakerVars
        /\ Goto(c, "AllowRequest", "Rejected")
        /\ total' = total + 1 /\ failure' = failure + 1 /\ UNCHANGED <<success, latencies>>
        /\ Report(c, TRUE, BREAKER_OPEN)
  /\ UNCHANGED <<kind, typed, held, response, govVars>>

\* allow_request on the breaker, and the early return when it says no.  An
\* object that was destroyed meanwhile may give either answer.
AllowRequest(c) ==
  /\ \/ /\ IF held[c] = breaker THEN Breaker!Admit(c) \/ Breaker!Probe(c)
                                ELSE UNCHANGED breakerVars
        /\ Goto(c, "AllowRequest", "CheckLimiter")
        /\ Quiet /\ UNCHANGED metricVars
     \/ /\ IF held[c] = breaker THEN Breaker!Reject(c) ELSE UNCHANGED breakerVars
        /\ Goto(c, "AllowRequest", "Rejected")
        /\ failure' = failure + 1 /\ UNCHANGED <<total, success, latencies>>
        /\ Report(c, TRUE, BREAKER_OPEN)
  /\ UNCHANGED <<kind, typed, held, response, govVars>>

\* is_rate_limiter_enabled.
CheckLimiter(c) ==
  /\ \/ limiter_enabled  /\ Goto(c, "CheckLimiter", "TryAcquire")
     \/ ~limiter_enabled /\ Goto(c, "CheckLimiter", "Send")
  /\ UNCHANGED <<kind, typed, held, failed, code, response, done, govVars, metricVars, breakerVars>>

\* Faulty variant: the call tries until it gets its permit.
TryAcquire_Retries(c) ==
  /\ limiter' = TRUE
  /\ limiter_enabled' = (limiter => limiter_enabled)
  /\ Goto(c, "TryAcquire", "Send") \/ Goto(c, "TryAcquire", "CheckLimiter")
  /\ Quiet /\ UNCHANGED <<metricVars, breakerVars>>
  /\ UNCHANGED <<kind, typed, held, response, breaker, breakers, breaker_enabled>>

\* get_rate_limiter, which creates and enables a limiter if there is none, and
\* try_acquire with the early return when it says no.  The breaker that let
\* the call through hears nothing, now or later.
TryAcquire(c) ==
  /\ limiter' = TRUE
  /\ limiter_enabled' = (limiter => limiter_enabled)
  /\ \/ /\ Goto(c, "TryAcquire", "Send")
        /\ Quiet /\ UNCHANGED <<metricVars, breakerVars>>
     \/ /\ Goto(c, "TryAcquire", "Limited")
        /\ failure' = failure + 1 /\ UNCHANGED <<total, success, latencies>>
        /\ Report(c, TRUE, RATE_LIMITED)
        /\ UNCHANGED breakerVars
  /\ UNCHANGED <<kind, typed, held, response, breaker, breakers, breaker_enabled>>

\* Faulty variant: a request that cannot be serialised is not told to the breaker.
Send_NoRecord(c) ==
  /\ total' = total + 1
  /\ \/ /\ Goto(c, "Send", "InFlight")
        /\ Quiet /\ UNCHANGED <<failure, breakerVars>>
     \/ /\ Goto(c, "Send", "Unsent")
        /\ failure' = failure + 1
        /\ UNCHANGED breakerVars
        /\ Report(c, TRUE, code[c])
  /\ UNCHANGED <<kind, typed, held, response, govVars, success, latencies>>

\* record_request, then the request is serialised and encoded and the task
\* started; or one of the two fails and the call ends here.
Send(c) ==
  /\ total' = total + 1
  /\ \/ /\ Goto(c, "Send", "InFlight")
        /\ Quiet /\ UNCHANGED <<failure, breakerVars>>
     \/ /\ Goto(c, "Send", "Unsent")
        /\ failure' = failure + 1
        /\ IF ReachesBreaker(c) THEN Breaker!RecordFailure(c) ELSE UNCHANGED breakerVars
        /\ Report(c, TRUE, code[c])
  /\ UNCHANGED <<kind, typed, held, response, govVars, success, latencies>>

\* The callback: any of its four failures.  err is what it stores as error
\* code, msg what it leaves in the response.
Fail(c, err, msg) ==
  /\ Goto(c, "InFlight", "Failed")
  /\ failure' = failure + 1 /\ latencies' = latencies + 1
  /\ IF ReachesBreaker(c) THEN Breaker!RecordFailure(c) ELSE UNCHANGED breakerVars
  /\ response' = [response EXCEPT ![c] = msg]
  /\ Report(c, TRUE, err)
  /\ UNCHANGED <<kind, typed, held, govVars, total, success>>

\* The task did not succeed (connection, timeout), or its answer cannot be decoded.
NetworkError(c) == Fail(c, code[c], response[c])

\* The answer carries an error code of the server.
ServerError(c) == Fail(c, SERVER_ERROR, response[c])

\* Faulty variant: both channels parse into the caller's message.
ParseError_InPlace(c) == Fail(c, code[c], "partial")

\* The payload cannot be parsed.  The sync channel parses into the caller's
\* message, the async channel into one of its own.
ParseError(c) == Fail(c, code[c], IF kind[c] = "sync" THEN "partial" ELSE response[c])

\* The callback of a call that succeeds.
Succeed(c) ==
  /\ Goto(c, "InFlight", "Succeeded")
  /\ success' = success + 1 /\ latencies' = latencies + 1
  /\ IF ReachesBreaker(c) THEN Breaker!RecordSuccess(c) ELSE UNCHANGED breakerVars
  /\ response' = [response EXCEPT ![c] = "full"]
  /\ done' = [done EXCEPT ![c] = @ + 1]
  /\ UNCHANGED <<kind, typed, held, failed, code, govVars, total, failure>>

Callback(c) == NetworkError(c) \/ ServerError(c) \/ ParseError(c) \/ Succeed(c)

-----------------------------------------------------------------------------
\* get_circuit_breaker by the configuration or the application.
ConfigureBreaker ==
  /\ breaker = 0
  /\ CreateBreaker
  /\ UNCHANGED <<callVars, limiter, limiter_enabled, metricVars, breakerVars>>

\* get_rate_limiter by the configuration or the application.
ConfigureLimiter ==
  /\ ~limiter
  /\ limiter' = TRUE /\ limiter_enabled' = TRUE
  /\ UNCHANGED <<callVars, breaker, breakers, breaker_enabled, metricVars, breakerVars>>

\* set_circuit_breaker_params: a new object, CLOSED, in place of the old one.
SetBreakerParams ==
  /\ breaker # 0
  /\ breakers < MaxBreakers
  /\ breakers' = breakers + 1
  /\ breaker' = breakers + 1
  /\ state' = "closed" /\ failure_count' = 0 /\ success_count' = 0
  /\ open_age' = Timeout /\ inflight' = {}
  /\ UNCHANGED <<callVars, breaker_enabled, limiter, limiter_enabled, metricVars>>

\* enable_circuit_breaker and disable_circuit_breaker.
EnableBreaker(on) ==
  /\ breaker_enabled' = on
  /\ UNCHANGED <<callVars, breaker, breakers, limiter, limiter_enabled, metricVars, breakerVars>>

\* enable_rate_limiter and disable_rate_limiter.
EnableLimiter(on) ==
  /\ limiter_enabled' = on
  /\ UNCHANGED <<callVars, breaker, breakers, breaker_enabled, limiter, metricVars, breakerVars>>

Tick == Breaker!Tick /\ UNCHANGED <<callVars, govVars, metricVars>>

CallStep(c) == \/ Start(c) \/ GetBreaker(c) \/ AllowRequest(c) \/ CheckLimiter(c)
               \/ TryAcquire(c) \/ Send(c) \/ Callback(c)

Govern == \/ ConfigureBreaker \/ ConfigureLimiter \/ SetBreakerParams
          \/ \E on \in BOOLEAN : EnableBreaker(on) \/ EnableLimiter(on)

Next == Tick \/ Govern \/ \E c \in Calls : CallStep(c)

Spec == Init /\ [][Next]_vars

(***************************************************************************)
(* CallMethod runs to its end, and Workflow runs the callback of every     *)
(* task it was given: each task has connection and response timeouts.      *)
(***************************************************************************)
FairSpec == Spec /\ \A c \in Calls : WF_vars(CallStep(c))

-----------------------------------------------------------------------------
At(locs) == {c \in Calls : pc[c] \in locs}

\* Types.
TypeOK ==
  /\ pc \in [Calls -> Locations]
  /\ kind \in [Calls -> {"sync", "async"}] /\ typed \in [Calls -> BOOLEAN]
  /\ held \in [Calls -> 0..MaxBreakers]
  /\ failed \in [Calls -> BOOLEAN]
  /\ code \in [Calls -> {OK, SERVER_ERROR, BREAKER_OPEN, RATE_LIMITED}]
  /\ response \in [Calls -> {"empty", "partial", "full"}]
  /\ done \in [Calls -> 0..1]
  /\ breakers \in 0..MaxBreakers /\ breaker \in 0..breakers
  /\ breaker_enabled \in BOOLEAN /\ limiter \in BOOLEAN /\ limiter_enabled \in BOOLEAN
  /\ total \in Nat /\ success \in Nat /\ failure \in Nat /\ latencies \in Nat
  /\ state \in {"closed", "open", "half_open"}
  /\ failure_count \in Nat /\ success_count \in Nat /\ open_age \in 0..Timeout
  /\ inflight \subseteq Calls

(***************************************************************************)
(* The metrics add up: every call counted as a request is in flight or was *)
(* counted once as success or failure, and what else was counted as a      *)
(* failure are the calls the breaker or the limiter refused (all exits of  *)
(* CallMethod and of the callback, tinypb_rpc_channel.cc:59-367).          *)
(***************************************************************************)
Accounting ==
  /\ success + failure + Cardinality(At({"InFlight"}))
       = total + Cardinality(At({"Rejected", "Limited"}))
  /\ latencies = total - Cardinality(At({"InFlight", "Unsent"}))

(***************************************************************************)
(* The breaker hears of every call that it let through and that was sent,  *)
(* once, on every exit of CallMethod and of the callback                   *)
(* (tinypb_rpc_channel.cc:297, 313, 59-163).  The calls it has not heard   *)
(* of are those under way and the ones the limiter refused after it had    *)
(* let them through (:274-284): of these it never hears.                   *)
(***************************************************************************)
Unheard == {"CheckLimiter", "TryAcquire", "Send", "InFlight", "Limited"}

BreakerHears ==
  inflight = {c \in At(Unheard) : held[c] # 0 /\ held[c] = breaker}

\* The types, and the calls that the breaker has not heard of: what CallMethod
\* and the callback share with the governance manager is sound.
ChannelInv == TypeOK /\ BreakerHears

(***************************************************************************)
(* The caller can tell how its call ended: done ran when and only when the *)
(* call is finished, a TinyPb controller is failed unless the call         *)
(* succeeded, and an async caller never sees a half-parsed response.       *)
(***************************************************************************)
CallerInformed ==
  \A c \in Calls :
    /\ done[c] = IF pc[c] \in Finished THEN 1 ELSE 0
    /\ typed[c] => (failed[c] <=> pc[c] \in Finished \ {"Succeeded"})
    /\ response[c] = "full" <=> pc[c] = "Succeeded"
    /\ kind[c] = "async" => response[c] # "partial"

(***************************************************************************)
(* Every call that was started runs done, whatever the breaker, the        *)
(* limiter and those who reconfigure them do.                              *)
(***************************************************************************)
EveryCallEnds == \A c \in Calls : pc[c] # "Start" ~> done[c] = 1
=============================================================================
