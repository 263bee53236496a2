# WF-rpc: TLA+ models, model checking and proofs

This directory is a verification development of WF-rpc: its RPC layer
(`src/rpc/src`, about 5100 lines of C++) and the two parts of the vendored Sogou
Workflow library (`src/workflow`) that the RPC layer's promises rest on: the
server side of the communicator, and the upstreams. The rest of Workflow and
`src/etcd` (a binary distribution) are the environment of the models.

## 1. Inventory

| Component | Source | State | Operations | What makes it hard |
|---|---|---|---|---|
| CircuitBreaker | `rpc_circuit_breaker.*` | `state_`, `failure_count_`, `success_count_`, `last_failure_time_` (atomics), `mutex_` | `allow_request`, `record_success`, `record_failure` | the mutex covers only the transitions; every decision is taken on unlocked loads that may be stale when acted upon |
| RateLimiter | `rpc_rate_limiter.*` | `qps_`, `tokens_`, `last_refill_time_` (atomics), `mutex_` | `try_acquire`, `set_rate` | the refill is a load and a store that race the lock-free decrement; integer division at small rates |
| ServiceGovernanceManager | `rpc_service_governance.*` | maps service -> breaker / limiter / enabled flags | `get_*` (create on demand), `set_*_params`, `enable_*`, `disable_*`, `is_*_enabled` | returns raw pointers; `set_circuit_breaker_params` replaces the object; test-then-get is two critical sections |
| Channels | `tinypb_rpc_channel.*`, `tinypb_rpc_async_channel.*`, `tinypb_rpc_controller.*` | the call in flight (`ChannelCallbackData`), the caller's controller and response | `CallMethod`, the task's callback | early returns at every stage, each with its own metric / breaker / controller / `done` obligations; callbacks in any order, on other threads |
| RpcMetrics | `rpc_metrics.*` | global and per-method counters, latency histograms | `record_*`, `get_*`, `to_prometheus_format` | counters updated outside the lock, CAS loops for min/max, non-atomic snapshot |
| ServiceRegistry (etcd) | `rpc_service_registry.*` | `registered_services_`, `current_lease_id_`, `running_`, heartbeat and watch threads | `register_service`, `unregister_service`, `discover`, `watch`, `start`, `stop`, heartbeat loop | leases expire while the heartbeat is delayed or lost; partial failure between lease and put; every server shares the prefix |
| TinyPbRpcServer / Dispatcher | `tinypb_rpc_server.*`, `tinypb_rpc_dispatcher.*` | service map, registry settings, the listening server | `start` variants, `stop`, `registerService`, `dispatch`, `on_process` | registration precedes listening; services replaced while requests run |
| TinyPbCodec | `tinypb_codec.*`, `tinypb_struct.h`, `tinypb_constants.h` | none (a lazily built CRC table) | `encode`, `decode` | length fields are read before the checksum is verified |
| RpcMessage | `rpc_message.*` | the streaming parser of one connection | `encode`, `append`, `set/get_service_method` | a message arrives in arbitrary pieces |
| RpcFramework | `rpc_framework.*` | handler map, sequence counter, weighted upstreams | `add_handler`, `on_process`, `create_task`, `configure_weighted_upstream` | rollback of a half-configured upstream |
| rpc_easy | `rpc_easy.*` | `stop_requested_` with its condition variable, client wait groups | `start`, `request_stop`, `wait_for_stop`, `call` | a stop request that races the start |
| RpcConfig | `rpc_config.*` | the global configuration and server | `InitConfig`, `StartRpcServer`, `parse_xml`, `GetClientUpstreamUrl` | rollback after a partial failure, hand-written parsing |
| RpcLogger | `rpc_logger.*` | level, file, mutex | `log` | pure output |
| Workflow: server | `workflow/src/kernel/Communicator.*`, `poller.c`, `server/WFServer.*`, `WFTask.inl` | connection entries with reference counts, keep-alive and idle lists, poller nodes, the queue of results, the count of connections | accept, read, reply, keep alive, drain, `shutdown`, `wait_finish` | handler threads, the poller and the owner share an entry; who frees it is decided by counts and two mutexes |
| Workflow: upstreams | `workflow/src/nameservice/*Policies*`, `WFServiceGovernance.*`, `WFNameService.*`, `manager/UpstreamManager.*` | servers with weights and reference counts, the breaker list, counts of the servers alive, virtual nodes, names | `select`, `success`, `failed`, `add_server`, `remove_server`, create and delete | servers are removed while tasks use them; a server may be fused, recovered and deleted by different threads; counters changed without a lock |
| Workflow: the rest | `workflow/src` | | | not used by WF-rpc's logic, or environment (section 7) |

### How the components interact

A client calls `CallMethod` of a channel. The channel asks the governance
manager whether the service has an enabled breaker and limiter, asks each of
them, counts the request in RpcMetrics, serialises and encodes the request and
starts a network task with a callback; `CallMethod` returns at once. The
callback, on a network thread, classifies the outcome, counts it in the metrics
and in the breaker it captured when the call started, fills the controller and
runs the caller's `done`. On the server, `on_process` decodes the request, lets
the dispatcher find and run the service method and encodes the reply. A server
with a registry endpoint registers itself in etcd under a lease that a
heartbeat thread renews; clients discover and watch the same prefix.

### What makes each component correct

| Component | Properties |
|---|---|
| CircuitBreaker | does not trip the first time before `failure_threshold_` failures; no trip and no recovery that is due gets lost; OPEN lasts `timeout_ms_`; an OPEN breaker is eventually probed |
| RateLimiter | never more tokens than were earned; no time credited twice; `last_refill_time_` monotone; for one user, a token bucket |
| Governance, channels, controller | metrics add up over all exits; the breaker hears once of each call it admitted that was sent; `done` runs exactly once; failure and response content agree |
| RpcMetrics | no extreme lost or made up; a scrape shows everything recorded before it |
| Registry, server lifecycle | a running server is discoverable; a stopped or dead one disappears |
| RpcMessage, RpcFramework | the parser does not depend on how the stream is cut; a task gets the answer to its own request, and every task ends |
| Dispatcher, codec | the reply is that of the method the request names, or the right error; what `encode` writes `decode` reads, and nothing else; the checksum table is complete when used; every way out is counted |
| rpc_easy, RpcConfig | a stop that is honoured ends; a failed start leaves no upstream of its own behind |
| Workflow: server | nothing is used after it is freed; every client is answered or cut off; `wait_finish` returns, and after it only a report that the listening socket failed refers to the service |
| Workflow: upstreams | the counts mean what they say; no server is cut off for good, or used after its deletion; it comes back early, and a request is refused, only after a task found no server left |

## 2. Plan

| Step | Modules | Status |
|---|---|---|
| 1 | `CircuitBreaker` implements `BreakerContract`; proofs | done |
| 2 | `RateLimiter` implements `TokenBucket`; proofs | done |
| 3 | `RpcChannel`: both channels + governance + `BreakerContract` + metrics + controller; proofs | done |
| 4 | `EtcdRegistry`: server lifecycle + registry client + etcd; proofs | done |
| 5 | `MetricsHistogram`; proofs | done |
| 6 | `RpcMessage` (streaming parser) and `RpcFramework` (client and server on a connection); proofs | done |
| 7 | `TinyPbService`: `on_process`, the dispatcher and `registerService`, the server's metrics down to `MetricsHistogram`, over `TinyPbCodec`; proofs | done |
| 8 | `CommServer` (Workflow's server) under `ServerLifecycle` (`SimpleRpcServer`, the end of `TinyPbRpcServer`); proofs | done |
| 9 | `UpstreamPolicy` (three policies, breaker, retries) under `UpstreamConfig` (`StartRpcServer`, `configure_weighted_upstream`, names); proofs | done |
| 10 | `EtcdRegistry` with a hanging `recv` and the watch thread | later |

## 3. Modules and code

**CircuitBreaker** has one action per atomic operation of
`rpc_circuit_breaker.cc`. `allow_request`, `record_success` and
`record_failure` load `state_` without the mutex, decide, and only then lock;
the model keeps the value each call loaded and acts on it as the code does. The
time since `last_failure_time_` is a clock that stops at the timeout. An RPC
calls `allow_request` and, if admitted, one of the `record_*` functions, or
neither (`Abandon`: the limiter refused it). **BreakerContract** is the same
object with atomic operations: what the breaker promises to a single user.

**RateLimiter** has one action per load, store and CAS of
`try_acquire_internal`. `set_rate` is two stores; the governance manager's
mutex keeps two `set_rate` apart. 1000 ms per second is the constant
`PerSecond`. A failed weak CAS that changes nothing is a stuttering step.
**TokenBucket** is the textbook object with atomic `Refill` and `Take`.

**RpcChannel** composes the client side. `CallMethod` takes one step per
question it asks a shared object (flag of the breaker, breaker, `allow_request`,
flag of the limiter, `try_acquire`, send), since reconfiguration interleaves
there; the callback is one step per outcome, since what it touches is private to
the call or is settled in the modules of the breaker and the metrics. The
breaker is an instance of `BreakerContract` and has a number that
`set_circuit_breaker_params` changes; calls keep the number they got. A call on
a breaker that has been destroyed may answer anything and does not reach the
current one. The exit of a call that the limiter refused does nothing to the
breaker, which had let the call through. `typed` says whether the caller passed a `TinyPbRpcController`:
the sync channel refuses others, the async channel goes on without one. A
replaced breaker has the thresholds of the first, since the values are not
distinguished.

**EtcdRegistry** composes servers, the registry client of each process and
etcd (external). Each HTTP request is a step with three outcomes: answered,
carried out with the answer lost, or lost. The heartbeat is a sleep, a snapshot
of the leases and one request per lease; a client that is restarted quickly has
two such threads. A tick is a heartbeat interval (10 s in the code, TTL 30 s =
3 ticks).

**RpcMessage** is the encoding and the parser as operators: `AppendPiece`
stands for the loop of `append`, with what it copies to the header, the meta
data and the payload, what it reports as used and what it returns. A stream is a
sequence of units; a header field is one unit. **RpcFramework** runs a client
and a server on one keep-alive connection: `create_pb_task`, the two streams,
`on_process` in two steps (the lookup under the lock, the handler outside) and
the client's callback. A handler answers `RPC_OK`, one of the two errors of
`register_pb_method`, or `RPC_INTERNAL_ERROR`, which stands for any other status
a binary handler makes up. Workflow is external: it hands out pieces of any size,
gives what a message left over to the next, uses a connection for one request at
a time and repeats a request whose connection was lost.

**MetricsHistogram** has one action per operation on the four atomics of
`MetricsHistogram::record`, and reads them in the order of
`to_prometheus_format`.

**TinyPbCodec** has `encode` and `decode` as operators on short sequences of
numbers: the marks, the length, the four fields with their own lengths, the
checksum. The table of `crc32` is an argument, since a thread may compute with
one that is not filled. The checksum is scaled down: a table of 32 entries, a
register of two digits, addition for exclusive or. A damaged message is what
`decode` gets when data, the end mark or the end are lost.
**TinyPbService** is the life of a request on a handler thread: the unlocked and
the locked test of `initialized` and the two halves of filling the table,
decoding, the lookup under the dispatcher's mutex, the call of the method
outside it, the counters, the latency (the actions of `MetricsHistogram`, which
the module extends), encoding. Services are registered at any moment.

**CommServer** is the server side of the communicator for TCP without SSL. An
entry (`CommConnEntry`) has its state, its reference count, its place in the
lists, its poller node and the results queued for it; a step is a critical
section of the service's mutex, of the entry's or of the poller's, or a system
call that hands the entry to another thread. The poller thread's step on one
connection is an action of that connection. A listening socket that fails
(`ListenFails`) leaves a result in the queue that has the service but no
reference to it; whichever handler thread takes it calls `handle_stop`
(`HandleStop`). **ServerLifecycle** adds the owner:
`SimpleRpcServer` with `start`, `request_stop`, `wait_for_stop` and `stop`
(`FairSpec`), and `TinyPbRpcServer`, whose destructor calls `stop` again
(`TinyPbSpec`, section 6).

**UpstreamPolicy** has the policies WF-rpc creates (weighted_random with
`try_another`, consistent_hash, vnswrr) and the client task that is routed by
them: `route` selects a server under the read lock, `done` reports success or
failure and retries. A step is a critical section of the policy's rwlock or of
the breaker's mutex; what the code does without a lock (`success` clears
`fail_count`, then looks at the list) is a step of its own. Where the ring of
consistent_hash sends a key is any server that is alive; the walk that finds
none is a flag. `another_strategy` looks at `available_weight` without a lock
(`FindNoneLeft`) and clears the list under the breaker's mutex in a later step
(`TryClearBreaker`), so other tasks get in between. Two pairs of accesses are
one step, since nothing the properties tell apart can come between: `++fail_count`
and the fuse in `Failed` (a `success` between them only leaves a listed server
with `fail_count` 0, which it also does after them), and in `another_strategy`
the second read of `available_weight` and the walk over the servers (a
recovery between them only adds a server the walk may choose). **UpstreamConfig** has the name space, `StartRpcServer` with
its rollback and the application's `configure_weighted_upstream`. The breakers
and limiters that `StartRpcServer` enables before anything can fail are the
variable `governed`: no return undoes them.

Definitions named `X_Something` are faulty variants of `X` which show that the
properties can fail; no specification uses them.

## 4. Runs

| Run | Instance | Result |
|---|---|---|
| breaker_concurrent | 3 RPCs, thresholds 2, timeout 2, fair | pass: no early first trip, no trip or recovery lost, OPEN is eventually probed |
| breaker_sequential | 1 RPC, thresholds 3 and 2, timeout 3 | pass: implements BreakerContract, OPEN lasts |
| breaker_open_window | 2 RPCs | violation: OPEN ends early |
| limiter_concurrent | 2 threads, rate 2, one `set_rate` to 0 or 1 | pass: bounded grants, time credited once |
| limiter_sequential | 1 thread, rate 3, 6 ticks | pass: implements TokenBucket |
| channel | 2 calls, 2 breaker objects, thresholds and timeout 1, fair | pass: metrics, breaker and caller agree, every call ends |
| service | 2 threads, 2 requests, 4 messages intact or damaged in 3 ways, 2 latencies, services registered meanwhile, a scrape | pass: right replies, complete table, exact counts, extremes |
| framework | 2 sequence numbers, 1 retry, 3 methods, 4 payloads around the size limit, pieces of any size, fair | pass: every task gets its own answer or an error |
| registry | 1 server, TTL 3, interval 1, losses (1 keep-alive in a row), failed binds, 1 crash, 2 heartbeat threads, fair | pass: a running server is found, what is gone disappears |
| registry_prefix | 2 servers in 2 processes | violation: a running server is not found |
| server | 2 connections (2 and 1 requests), 2 handler threads, limit 1, 1 failure report of the listening socket at a time, started and stopped again, fair | pass: no use after free, everyone is answered or cut off, `stop` returns |
| upstream | 2 tasks with 1 retry, 3 policies, 2 addresses, 4 configurations, time to recovery 2, 1 change of servers in use | pass: counts, order and life of the servers; routing; rollback of upstreams |

The type invariants of `CircuitBreaker` and `RateLimiter`, that
`last_refill_time_` is monotone and that extremes only widen are proved (section
5) and not run. Some runs check a conjunction of named parts:
`ChannelInv` (the types and `BreakerHears`), `ServiceSound` of `TinyPbService`
(the types and `TableComplete`), `EntriesSound` (the types and `ListsAgree`),
`BreakerSound` (`BreakerOrdered` and `FusedIsListed`), `OnlyWhenAllDown`
(`EarlyOnlyWhenAllDown` and `RefusedOnlyWhenAllDown`). `Framing` includes the
size limit.

**Bounds.** Three RPCs are the fewest for which a stale transition of one can
undo a transition of the second while the third counts; thresholds of 2 tell
"reached" from "first". A limiter needs two threads for every race (a refill
and a CAS) and a rate that buys a whole token within the clock's range. Two
breaker objects are one replacement. Three ticks of TTL let one keep-alive be
lost and not two. The payloads of `framework` are empty, small, too large for
the response and too large for the request; the names of two methods are equal
when joined, and that of the third is too long. Two
calls are enough for one to be refused, or to find its breaker replaced, because
of the other. Two threads of `service` are one that fills the table and one that
finds it half filled, and two records that race for an extreme; the proofs of
`MetricsHistogram` are for any number. Its scrapes begin when the
last requests have got to their latencies (`ScrapeBound`), which is where they
can race. In `server` the limit of 1 makes the
second connection close the first, a connection with two requests is kept alive
between them, and two handler threads can hold results of one connection. In
`upstream` a server needs two failures to be fused or one, a retry finds its
first server in its history, two ticks end a time to recovery, and one change
removes a server in use or adds a second; traffic starts after the
configuration, and time stops while no server is fused. The run
has no deadlock check: tasks, changes and time end. One case is beyond these
bounds: that a task finds no server left, another brings one back, and the first
then clears the list of servers that are not due. It takes three servers of one
policy, fused at different times, a time to recovery of 3 and four ticks; TLC
reaches the state with them, but not the end of the state space in a time that
is fit for a run. The theorem `OnlyForLackOfServers` has no such bounds.

**What the properties do not say.** `TripNeedsThreshold` counts the failures of
the breaker's whole life: it is about the first trip, not about a stale
transition that undoes a later one. `AdmissionBound` allows a full bucket for
every racing store, so it bounds what `set_rate` leaves over and does not show
whether anything is. `ScrapeCovers` is about min and max of a scrape, not its sum
and count. `StopReturns` is about a `request_stop` that is honoured, not about
one that `start` discards. `RightReply` is about damage that spares the inner
length fields.

**Fairness.** `breaker_concurrent`: time passes and a started call takes its
next step; nothing makes RPCs arrive. `channel`: `CallMethod` runs to its end, and
Workflow calls back every task it was given, as its connect and receive
timeouts guarantee. `framework`: what was sent arrives and
`on_process` ends, unless the connection is lost, which retries bound.
`registry`: threads are scheduled (weak fairness) and
time passes whatever they do (strong fairness on `Time`, since `Tick` waits for
requests under way and so is not continuously enabled). Nobody is assumed to
start, stop or crash anything, and the number of crashes is bounded. `server`:
handler threads and the poller run, methods return, and the poller's timeout
ends a connection whose request does not come to its end; a connection
that is kept alive may be so for ever, and nobody has to connect, send or request
a stop. `service` and `upstream` are about safety only.

## 5. Proofs

The theorems hold for any finite number of threads, calls, tasks or servers and
any values of the constants that satisfy the named assumptions of the modules.
Four are about a component with a single user, and say so: the two refinements
and `OneCallWaitsForTimeout`, which two users can break (sections 4 and 6), and
`AloneStaysDiscoverable`. The assumptions restrict the inputs to their types
and, in three places, to what the code relies on: `FrameworkAssumption` has no
`#` in a name, and an id that stands for its method; `ServiceAssumption` has no
dot in the name of a method, as protobuf guarantees; `UpstreamAssumption` has
`max_fails` of at least 1.

**CircuitBreakerProofs.** `TypeCorrect` (`[]TypeOK`), `TripsOnlyAfterThreshold`
(`[]TripNeedsThreshold`), `NoTripIsLost` (`[]ThresholdTrips`) and
`NoRecoveryIsLost` (`[]ThresholdCloses`). None is inductive: a state stored by
one call may come from what another saw long ago. The invariant `Evidence` adds
what each pending transition rests on: that the threshold had been reached when
it was decided. For one RPC at a time, `OneCallSeesTheContract` shows that the
breaker implements `BreakerContract`: what the call loaded is still true when it
acts on it (`Current`); `OneCallWaitsForTimeout` that OPEN lasts `timeout_ms_`.

**RateLimiterProofs.** `TypeCorrect`, `LastRefillMonotone`,
`TimeIsCreditedOnce` (`[]CreditBound`), `GrantsAreBounded`
(`[]AdmissionBound`). The types need `RefillInv` (a thread between the second
test and the unlock owns the mutex and its refill is still positive) and
`CasInv` (a thread about to CAS compares with a value that covers its permits);
`RatesBounded` gives the highest rate for the two bounds. The lemmas on
`NewTokens` isolate the non-linear arithmetic. For one thread,
`OneThreadUsesABucket` shows that the limiter implements `TokenBucket`: a refill
takes effect with its store to `tokens_`, a grant with its CAS.

**RpcChannelProofs.** `BreakerHearsOfSent` (`[]ChannelInv`), `MetricsAddUp`
(`[]Accounting`), `CallersAlwaysInformed` (`[]CallerInformed`). The calls whose
outcome the breaker in use still waits for are those it let through that are on
their way to the network, in flight, or were refused by the limiter: the last
never report (section 6), and every other has reported when it ends. The invariant
says which calls hold a breaker: none before it has asked for one, every one
that is about to ask `allow_request`, and nobody one that does not exist yet.
The counters are cardinalities of sets of calls, and each exit moves one call.

**TinyPbServiceProofs.** About the codec: `CodecRoundTrip` (what `encode` makes
of a struct `decode` gives back, for fields of any length) and
`DamageDetected`; about the dispatcher: `NameSplits` (the split at the last
dot). About the service: `NothingHalfMade` (`[]ServiceSound`),
`EveryReplyIsRight` (`[]RightReply`), `EveryRequestIsCounted`
(`[]RequestsCounted`) and `ServiceExtremes`. `TableInv` says why no thread sums
with a half-filled table: who fills it is alone, and `initialized` is set after
it has finished. `StageInv` says what each thread holds at each stage of
`on_process`: the reply depends on it long after the request was read. About
`MetricsHistogram` alone: `TypeCorrect`, `NoExtremeIsLost` (`[]Extremes`),
`ScrapesCover` (`[]ScrapeCovers`) and `ExtremesOnlyWiden`, with the strengthening
`Inside`, which says what a thread knows within `record`.

**RpcFrameworkProofs.** `AppendTakes` and `PieceTaken` are about the parser: a
piece cut anywhere is used completely, and the message is complete exactly at
its end. From these, with the invariant `FInv`: `NothingLostInPieces`
(`[]Framing`), `RoundTripInOnePlace` (`[]InOnePlace`), `OwnRequestAnswered`
(`[]AnswersOwnRequest`). `FInv` says that a direction of the connection is empty
or has one message half way through it, the beginning in the parser and the rest
on the wire, and that a waiting task is in one phase of its round trip.

**EtcdRegistryProofs.** `RegistryTypes` (`[]TypeOK`), and
`AloneStaysDiscoverable`: `Discoverable` for a server that is the only one of
its service (`Alone`) while at most `MaxMissed` keep-alives in a row are lost
and `TTL > Interval + MaxMissed * Interval` (`Tolerant`); the code's 30 and 10
tolerate one. Both hypotheses are needed: `unregister_service` deletes the whole
prefix (run `registry_prefix`), servers of one process share
`current_lease_id_`, and two lost keep-alives outlast the lease. The invariant
bounds from below the life that the lease has left at every point of every
heartbeat thread, also of one whose round began before the lease was granted.

**ServerLifecycleProofs.** `EntriesSoundTheorem` (`[]EntriesSound`),
`NoUseAfterFreeTheorem`, `UnboundLastTheorem`, `ConnLimitTheorem` and the action
property `WaitedNotRefusedTheorem`, for any number of connections, handler
threads and requests and any `max_connections`. None is inductive: an entry is
freed because its count is 0, and that the count is right depends on where every
thread, result and poller node is. `SInv` (`StructureInvariant`) therefore says
what each reference is there for:

- `Counts`: `eref` and `tref` of a connection are the numbers of their holders,
  as cardinalities of the sets of threads at a place and of results in the
  queue; `Single` that the poller's reference has one holder at a time, a
  session one request and an accepted connection one owner.
- `Watching`, `Replying`, `Listed`, `Locked`: what the state of a connection says
  of the poller, the lists and the target's mutex. Who takes an entry out of a
  list relies on the thread that is about to put it there holding the mutex.
- `Service` and `Limits`: the service's `ref` is its binding, while that lasts,
  and one for each target; `conn_count` is the open connections and those that
  are on their way.
- `Heard`: a client that has waited has at most one request without an answer;
  with `Locked` this gives `WaitedNotRefused`.
- `Placed`, `Draining`: which thread is where, and who drains the list.

`UnboundLast` has the exception that the code has: the report that the listening
socket failed holds the service without a reference, so it may be in the queue,
or a thread about to call `handle_stop`, when everything else is gone.
The theorems are about `FairSpec`, without the destructor's second `stop`
(`TinyPbSpec`, section 6), which takes away a reference that nobody holds.

**UpstreamConfigProofs.** First the operators: `Without`, the virtual nodes, and
sums of weights, which do not depend on the order in which they are added up.
Then the names: `StartLeavesNoUpstream` (`[]UpstreamsUndone`) with `NInv`, which
says that `created_upstreams` is exactly what this start made and has not taken back,
each name once, and that names refer to policies in use. Then the servers, with
`UInv` (`UpstreamInvariant`), whose parts rest on each other:

- `KInv`: `ref` counts the entries of the histories and the place in the policy;
  what `select` returns is a server of the policy, since the read lock keeps the
  list as it was and the virtual nodes are indices of it; a task that is about
  to delete a server has given its reference back, and no other does so.
- `BInv`: the breaker lists hold live servers of their policy, once and in
  order, none with a time more than mttr ahead; who counts as failed is listed.
- `CInv`: the counts are those of the live servers that are in no list.
- `SpinsOnlyForRemoved` itself: while a task walks the ring, the read lock keeps
  the policy's servers, and no server of the policy gets into the breaker.
- `OnlyWhenAllDown`: a task that finds `available_weight` 0 sees, by `CInv`, every
  server of its policy listed, and the read lock keeps the policy's servers until
  it clears. What holds when it looked need not hold when it clears, and the
  property does not say so: a server that comes back early does so in the step of
  such a task, with the first of the list due and the whole list cleared, or its
  `fail_count` ends at 0.

From these follow `UpstreamTyped` (`[]TypeOK`), `NoServerFreedInUse`
(`[]ServersKept`), `FailedServersComeBack` (`[]BreakerSound`),
`CountsAlwaysExact` (`[]CountsExact`), `SpinsForRemoved`
(`[]SpinsOnlyForRemoved`) and the action property `OnlyForLackOfServers`
(`OnlyWhenAllDown`).

Last, smooth weighted round robin: `TurnsAreFair` (`[]VirtualNodesFair`), for any
number of servers and any weights. `VInv` says that the virtual nodes are those
of the present servers and that a policy has no server twice. The rest is about
the algorithm (`CycleFair`): after k rounds a server has k times its weight less
the total for each of its turns (`Due`); before a choice all of them have the
total together, so the heaviest has more than 0, and no server ever owes the
total or more. After a whole cycle that leaves none with more turns than its
weight, and there are as many turns as weights.

The prover has no induction that could be instantiated; what a recursive
function computes (the checksum, the rounds of vnswrr, `Without`, sums) is proved
from a minimal counterexample.

**Only model-checked.** Liveness (`OpenIsProbed`, `EveryCallEnds`, `EveryTaskEnds`,
`GoneDisappears`, `Answered`, `StopReturns`), since the prover handles neither
fairness nor `ENABLED`. `Discoverable` with several servers of one service, where
it does not hold (section 6), is left to the runs.

## 6. Where the code and its documentation disagree

The violation runs and what their traces show:

| Run | What happens |
|---|---|
| breaker_open_window | `state_` becomes OPEN before `last_failure_time_` is set; a request in between probes at once (`rpc_circuit_breaker.cc:100`) |
| registry_prefix | stopping one server unregisters all of the service (`rpc_service_registry.cc:389`) |

Seen while modelling, part of the models, and without a run of their own:

- A refill overwrites a concurrent CAS, whose permits are granted again
  (`rpc_rate_limiter.cc:65`): with two threads the limiter is not the token
  bucket of `README.md:249`. `AdmissionBound` says how far it can go.
- `key_of` joins service and method by `#` (`rpc_framework.cc:50`): names that
  hold a `#` themselves can share a handler. `RpcFramework` assumes they do not.
- Refused calls are counted as failures but not as requests
  (`tinypb_rpc_channel.cc:261`), so success + failure can exceed the total;
  `Accounting` states the equation that does hold.
- Most failures leave the error code at `RPC_OK` (`tinypb_rpc_channel.cc:81`),
  while `README.md:109` calls that success; `CallerInformed` is about `Failed()`.
- The synchronous `CallMethod` does not wait (`tinypb_rpc_channel.cc:366`,
  `README.md:219`).
- A call that races `disable_circuit_breaker` may create the breaker and enable
  it again (`rpc_service_governance.cc:28`).
- New parameters close an OPEN breaker (`rpc_service_governance.cc:61`).
- The lease of a stopped server is not released before it expires
  (`rpc_service_registry.cc:392`, `README.md:774`).
- If the range request of `unregister_service` is lost, nothing is deleted and
  the heartbeat goes on (`rpc_service_registry.cc:387`); `GoneDisappears` is
  therefore about servers that their client no longer renews a lease for.
- Servers of one process that start at once can share a lease
  (`rpc_service_registry.cc:493`). The model has the member the lease travels
  through; the runs have one server per process.
- A `TinyPbRpcServer` that is stopped and destroyed never gets out of its
  destructor (`tinypb_rpc_server.cc:35`): the second `stop` calls
  `shutdown_service` although the service is unbound, its count goes from 0
  to -1, and `wait_finish` waits for a `handle_unbound` that never comes.
  `examples/tinypb_rpc_server.cc:81` and `test/tinypb_qps_test.cc:226` do just
  that. Under `TinyPbSpec` of `ServerLifecycle` neither `StopReturns` nor `TypeOK`
  holds. The destructor of a server that was never started uses a `scheduler`
  that was never set.
- `SimpleRpcServer::start` discards a `request_stop` that came before it
  (`rpc_easy.h:136`).
- consistent_hash spins for ever, with the read lock held, when the only server
  that is alive has been removed and is kept by a running task
  (`UpstreamPolicies.cc:409`): `nalives` still counts it and the ring no longer
  has it. `SpinsOnlyForRemoved` says that nothing else leads there.
- The weights of the configuration file are ignored for consistent_hash and
  vnswrr (`rpc_config.cc:156`, `:176`).
- A second `GetClientUpstreamUrl` for one name returns an empty text, since the
  upstream exists. The branches for a failing `add_upstream_server` cannot be
  reached.
- A call that the breaker let through and the limiter refused is never reported
  to the breaker (`tinypb_rpc_channel.cc:274`): its admission has no outcome. A
  HALF_OPEN breaker limits nobody, so this blocks nothing; `BreakerHears` has
  those calls as its exception.
- A call keeps the pointer of the breaker it was given, which
  `set_circuit_breaker_params` destroys (`rpc_service_governance.cc:61`). Its
  outcome is then recorded in freed memory. The model lets such a call get any
  answer and touch nothing; no property can show the use after free.
- When the listening socket fails, the result that says so has the service
  without a reference (`poller.c:648`): `stop` does not wait for it, and
  `handle_stop` may be called on a server that is stopped, started again or
  destroyed (`Communicator.cc:1111`). `UnboundLast` names it as the only thing
  left.
- `another_strategy` tests `available_weight` outside the lock under which
  `try_clear_breaker` clears (`UpstreamPolicies.cc:558`,
  `WFServiceGovernance.cc:324`): servers can come back before their time while
  another, which came back in between, is alive.
- A failing `StartRpcServer` takes back its upstreams, but not the breakers and
  limiters it enabled and configured (`rpc_config.cc:77`) nor the log level and
  file (`:67`): they stay for the next start.
- Registering a service name again destroys the first service, which a request
  may be running (`tinypb_rpc_dispatcher.cc:11`); no caller does it while it
  serves, and the model excludes it.
- `initialized` in the codec is a plain `bool` read outside the lock
  (`tinypb_codec.cc:30`): a data race. `TableComplete` holds where stores become
  visible in order, as on x86.

## 7. Not modelled, and why

- Workflow, except for the server and the upstreams as in section 3. Of those:
  SSL, UDP, the client side of the communicator, `noreply`, groups and backup
  servers, enabling, disabling and replacing servers, round_robin and manual
  policies, and the values of timeouts. Most of the rest (clients and parsers
  for Kafka, MySQL, Redis, HTTP, DNS, Consul, JSON) is never called from
  `src/rpc`; it makes up most of the repository's 64600 lines, so the map,
  which covers about half of the lines of the RPC layer, covers some 6 % of the
  whole, and modelling vendored parsers to raise that share would say nothing
  about WF-rpc.
- protobuf, OpenSSL and etcd itself are the environment.
- Text: JSON, base64, HTTP, XML, log and Prometheus formatting. `send_http_request`
  is modelled by its outcomes.
- The memory order of the atomics: all are sequentially consistent in the code.
- Clocks that go backwards (`system_clock`), negative rates, and overflow of
  64-bit counters of milliseconds.
- In `RpcChannel`: the addressing of the task, `msg_req` (nothing reads it
  back), cancellation (no code looks at `canceled_`), and the per-method
  counters, which move with the global ones.
- In `EtcdRegistry`: a `recv` that never returns, `watch` and `discover`
  (read-only), `enable_auto_heartbeat(false)`, `start` of a server that is
  already running.
- In `RpcFramework`: binary handlers that return `RPC_BAD_REQUEST`, `RPC_NOT_FOUND`
  or `RPC_NETWORK_ERROR` themselves; a caller cannot tell those from the
  framework's own, and `AnswersOwnRequest` would not hold of them.
- In `UpstreamConfig`: which breakers and limiters the configuration names
  (`governed` is one flag; `RpcChannel` models what they do), and logging.
- In `RpcMessage`: byte order within a field, the move operations, `flags_`
  (always 0), `encode` with too few vectors.
- In `TinyPbCodec` and `TinyPbService`: inner lengths that point outside the
  message, which `decode` follows before it has verified the checksum, the per-method counters (named by the part before the first dot,
  while the dispatcher splits at the last), the real polynomial.
- In `RpcConfig`: the parsing of the XML text.
