--------------------------- MODULE UpstreamPolicy ---------------------------
(***************************************************************************)
(* Workflow's upstream policies (WFServiceGovernance.cc,                   *)
(* UpstreamPolicies.cc) as WF-rpc uses them: the servers of an upstream,   *)
(* the breaker that fuses a failing server for mttr_seconds, and the       *)
(* client tasks that are routed through a policy, fail, retry and report.  *)
(* All servers are mains of the default group: group_id = -1 and           *)
(* server_type = 0, the defaults of AddressParams.                         *)
(*                                                                         *)
(* A step is what runs under one lock.  select holds the read lock of its  *)
(* policy over several steps; what needs the write lock waits for them.    *)
(***************************************************************************)
EXTENDS Integers, Sequences, FiniteSets, FiniteSetsExt, SequencesExt

CONSTANTS
  Policies,   \* UPSGroupPolicy objects, 1..n in the order of their creation
  Endpoints,  \* EndpointAddress objects, 1..n in the order of their creation
  Addresses,
  MaxFails,   \* AddressParams::max_fails of an address
  Mttr,       \* mttr_seconds
  MaxClock,   \* bound: seconds that pass
  Tasks,      \* client tasks
  RetryMax    \* retry_max of the tasks

ASSUME UpstreamAssumption ==
  /\ Policies \subseteq Nat /\ Endpoints \subseteq Nat /\ IsFiniteSet(Endpoints)
  /\ MaxFails \in [Addresses -> Nat \ {0}]
  /\ Mttr \in Nat /\ MaxClock \in Nat /\ RetryMax \in Nat

Kinds == {"weighted_random", "consistent_hash", "vnswrr"}

VARIABLES
  policy,            \* what each policy is: kind, try_another
  servers,           \* servers (and server_map: the same objects by address)
  breaker_list,
  nalives,
  total_weight,
  available_weight,
  pre_generated_vec, \* vnswrr: indices of servers
  endpoint,          \* the EndpointAddress objects
  tpc,               \* where each task is
  sg,                \* the policy it is routed by (ns_policy_)
  history,           \* tracing_data->history
  retry_times,
  now                \* GET_CURRENT_SECOND

counts  == <<nalives, total_weight, available_weight>>
lists   == <<policy, servers, pre_generated_vec>>
tasks   == <<tpc, sg, history, retry_times>>
ups     == <<lists, breaker_list, counts, endpoint, tasks, now>>

NoEndpoint == [state |-> "free"]

\* A list without the members of S.
Without(list, S) ==
  LET kept[i \in 0..Len(list)] ==
        IF i = 0 THEN <<>>
        ELSE IF list[i] \in S THEN kept[i - 1] ELSE Append(kept[i - 1], list[i])
  IN  kept[Len(list)]

Fails(o)    == endpoint[o].fail_count
Fused(o)    == Fails(o) >= MaxFails[endpoint[o].address]
Weights(S)  == MapThenSumSet(LAMBDA o : endpoint[o].weight, S)
Listed(o)   == \E p \in Policies : Contains(breaker_list[p], o)

\* The tasks that hold the read lock of p; add_server, remove_server, failed
\* and the others take the write lock.
Readers(p)  == {t \in Tasks : sg[t] = p /\ tpc[t] \in {"First", "Spin", "Another", "Clear", "Second"}}
WrLock(p)   == Readers(p) = {}

Goto(t, from, to) == tpc[t] = from /\ tpc' = [tpc EXCEPT ![t] = to]

-----------------------------------------------------------------------------
(* The breaker *)

\* recover_one_server and fuse_one_server, for a set of servers of p.  Only
\* the weighted policies have the weights; no other reads them.
RecoverServers(p, S) ==
  /\ nalives' = [nalives EXCEPT ![p] = @ + Cardinality(S)]
  /\ available_weight' = [available_weight EXCEPT ![p] = @ + Weights(S)]

FuseServers(p, S) ==
  /\ nalives' = [nalives EXCEPT ![p] = @ - Cardinality(S)]
  /\ available_weight' = [available_weight EXCEPT ![p] = @ - Weights(S)]

\* Faulty variant: the servers that leave stay as failed as they were.
CheckBreakerLocked_KeepsFails(p, k) ==
  LET back == {breaker_list[p][i] : i \in 1..k}
  IN  /\ breaker_list' = [breaker_list EXCEPT ![p] = SubSeq(@, k + 1, Len(@))]
      /\ RecoverServers(p, back)
      /\ UNCHANGED endpoint

\* check_breaker_locked lets the first k servers of the list go, each one
\* failure short of being fused again.
CheckBreakerLocked(p, k) ==
  LET back == {breaker_list[p][i] : i \in 1..k}
  IN  /\ breaker_list' = [breaker_list EXCEPT ![p] = SubSeq(@, k + 1, Len(@))]
      /\ endpoint' = [o \in Endpoints |->
           IF o \in back THEN [endpoint[o] EXCEPT !.fail_count = MaxFails[endpoint[o].address] - 1]
           ELSE endpoint[o]]
      /\ RecoverServers(p, back)

Expired(o) == now >= endpoint[o].broken_timeout

\* check_breaker stops at the first server whose time has not come.
ExpiredPrefix(p) ==
  Max({k \in 0..Len(breaker_list[p]) : \A i \in 1..k : Expired(breaker_list[p][i])})

\* fuse_server_to_breaker; n is the fail_count the caller has set.
FuseServerToBreaker(p, o, n) ==
  LET fused == [endpoint[o] EXCEPT !.fail_count = n, !.broken_timeout = now + Mttr]
  IN  IF Listed(o)
      THEN /\ endpoint' = [endpoint EXCEPT ![o].fail_count = n]
           /\ UNCHANGED <<breaker_list, nalives, available_weight>>
      ELSE /\ endpoint' = [endpoint EXCEPT ![o] = fused]
           /\ breaker_list' = [breaker_list EXCEPT ![p] = Append(@, o)]
           /\ FuseServers(p, {o})

\* Faulty variant: a server that was fused is counted out a second time.
PreDeleteServers_Twice(p, S) ==
  /\ breaker_list' = [breaker_list EXCEPT ![p] = Without(@, S)]
  /\ FuseServers(p, S)

\* pre_delete_server, for the servers S of p that are about to be deleted.
PreDeleteServers(p, S) ==
  /\ breaker_list' = [breaker_list EXCEPT ![p] = Without(@, S)]
  /\ FuseServers(p, {o \in S : ~Listed(o)})

-----------------------------------------------------------------------------
(* The servers of a policy *)

\* init and init_virtual_nodes: smooth weighted round robin over one cycle.
\* Each round adds every server its weight, takes the first of the heaviest
\* and takes the total off it.
Heaviest(current) ==
  Min({j \in DOMAIN current : \A k \in DOMAIN current : current[j] >= current[k]})

NextRound(current, w, total) ==
  LET turn == Heaviest(current)
  IN  [j \in DOMAIN w |-> current[j] + w[j] - (IF j = turn THEN total ELSE 0)]

VirtualNodes(w, total) ==
  LET current[i \in 1..total] == IF i = 1 THEN w ELSE NextRound(current[i - 1], w, total)
  IN  [i \in 1..total |-> Heaviest(current[i])]

\* Faulty variant: the virtual nodes are not made again.
InitVnswrr_Stale(p, s, total, eps) == UNCHANGED pre_generated_vec

\* The init at the end of UPSVNSWRRPolicy's add and remove; it returns early
\* when no weight is left.
InitVnswrr(p, s, total, eps) ==
  IF policy[p].kind # "vnswrr" \/ total <= 0 THEN UNCHANGED pre_generated_vec
  ELSE pre_generated_vec' = [pre_generated_vec EXCEPT
         ![p] = VirtualNodes([i \in 1..Len(s) |-> eps[s[i]].weight], total)]

Fresh == {o \in Endpoints : endpoint[o].state = "free"}

\* Faulty variant: the weight is taken as it is.
AddServer_ZeroWeight(p, address, weight) ==
  /\ WrLock(p) /\ Fresh # {}
  /\ LET o == Min(Fresh)
         w == weight
         s == Append(servers[p], o)
         e == [state |-> "live", address |-> address, policy |-> p, weight |-> w,
               fail_count |-> 0, ref |-> 1, broken_timeout |-> 0]
     IN  /\ endpoint' = [endpoint EXCEPT ![o] = e]
         /\ servers' = [servers EXCEPT ![p] = s]
         /\ nalives' = [nalives EXCEPT ![p] = @ + 1]
         /\ available_weight' = [available_weight EXCEPT ![p] = @ + w]
         /\ total_weight' = [total_weight EXCEPT ![p] = @ + w]
         /\ InitVnswrr(p, s, total_weight'[p], endpoint')
  /\ UNCHANGED <<policy, breaker_list, tasks, now>>

\* add_server: a new EndpointAddress.  A weight of 0 counts as 1.
AddServer(p, address, weight) ==
  /\ WrLock(p) /\ Fresh # {}
  /\ LET o == Min(Fresh)
         w == IF weight = 0 THEN 1 ELSE weight
         s == Append(servers[p], o)
         e == [state |-> "live", address |-> address, policy |-> p, weight |-> w,
               fail_count |-> 0, ref |-> 1, broken_timeout |-> 0]
     IN  /\ endpoint' = [endpoint EXCEPT ![o] = e]
         /\ servers' = [servers EXCEPT ![p] = s]
         /\ nalives' = [nalives EXCEPT ![p] = @ + 1]
         /\ available_weight' = [available_weight EXCEPT ![p] = @ + w]
         /\ total_weight' = [total_weight EXCEPT ![p] = @ + w]
         /\ InitVnswrr(p, s, total_weight'[p], endpoint')
  /\ UNCHANGED <<policy, breaker_list, tasks, now>>

\* Faulty variant: the servers are deleted whoever refers to them.
RemoveServer_Deletes(p, address) ==
  LET out  == {o \in Range(servers[p]) : endpoint[o].address = address}
      dead == out
      s    == Without(servers[p], out)
  IN  /\ WrLock(p)
      /\ servers' = [servers EXCEPT ![p] = s]
      /\ endpoint' = [o \in Endpoints |->
           CASE o \in dead -> [endpoint[o] EXCEPT !.ref = 0, !.state = "deleted"]
             [] OTHER -> endpoint[o]]
      /\ PreDeleteServers(p, dead)
      /\ total_weight' = [total_weight EXCEPT ![p] = @ - Weights(out)]
      /\ InitVnswrr(p, s, total_weight'[p], endpoint)
      /\ UNCHANGED <<policy, tasks, now>>

\* remove_server: every server with this address leaves the policy; the ones
\* a task still refers to are deleted later, by that task.
RemoveServer(p, address) ==
  LET out  == {o \in Range(servers[p]) : endpoint[o].address = address}
      dead == {o \in out : endpoint[o].ref = 1}
      s    == Without(servers[p], out)
  IN  /\ WrLock(p)
      /\ servers' = [servers EXCEPT ![p] = s]
      /\ endpoint' = [o \in Endpoints |->
           CASE o \in dead -> [endpoint[o] EXCEPT !.ref = 0, !.state = "deleted"]
             [] o \in out \ dead -> [endpoint[o] EXCEPT !.ref = @ - 1]
             [] OTHER -> endpoint[o]]
      /\ PreDeleteServers(p, dead)
      /\ total_weight' = [total_weight EXCEPT ![p] = @ - Weights(out)]
      /\ InitVnswrr(p, s, total_weight'[p], endpoint)
      /\ UNCHANGED <<policy, tasks, now>>

-----------------------------------------------------------------------------
(* The choice of a server, as the set of servers a strategy may return *)

InHistory(t, o) == Contains(history[t], o)

\* UPSWeightedRandomPolicy::first_strategy; x is rand() % temp_weight.
WeightedFirst(t, p) ==
  LET s     == servers[p]
      spent == MapThenSumSet(LAMBDA i : endpoint[history[t][i]].weight, DOMAIN history[t])
      temp  == total_weight[p] - spent
      upto(i) == Weights({s[j] : j \in {k \in 1..i : ~InHistory(t, s[k])}})
      hits(x) == {i \in DOMAIN s : ~InHistory(t, s[i]) /\ upto(i) > x}
      pick(x) == IF hits(x) = {} THEN Last(s) ELSE s[Min(hits(x))]
  IN  {pick(x) : x \in IF temp > 0 THEN 0..(temp - 1) ELSE {0}}

\* UPSVNSWRRPolicy::first_strategy; cur_idx may be anywhere in the cycle.
VnswrrFirst(t, p) ==
  LET v    == pre_generated_vec[p]
      n    == total_weight[p]
      at(i) == servers[p][v[(i % Len(v)) + 1]]
      free(i) == {k \in 0..(n - 1) : ~InHistory(t, at(i + k))}
  IN  {IF free(i) = {} THEN at(i + n - 1) ELSE at(i + Min(free(i))) : i \in 0..(Len(v) - 1)}

\* consistent_hash_with_group: the ring holds the servers of the policy, and
\* the walk from any point of it ends at the first that is alive.
Alive(p) == {o \in Range(servers[p]) : ~Fused(o)}

-----------------------------------------------------------------------------
(* select *)

\* ++ref and the push to the history; select and its lock end here.
Select(t, o) ==
  /\ tpc' = [tpc EXCEPT ![t] = "Sent"]
  /\ history' = [history EXCEPT ![t] = Append(@, o)]
  /\ endpoint' = [endpoint EXCEPT ![o].ref = @ + 1]

\* WFT_ERR_UPSTREAM_UNAVAILABLE: the task ends without a server.
Unavailable(t) ==
  /\ tpc' = [tpc EXCEPT ![t] = "Release"]
  /\ UNCHANGED <<history, endpoint>>

\* The start of select: the read lock, and check_breaker.
CheckBreaker(t) ==
  LET p == sg[t]
  IN  /\ tpc[t] = "Select"
      /\ \/ /\ servers[p] = <<>>
            /\ Unavailable(t)
            /\ UNCHANGED <<breaker_list, nalives, available_weight>>
         \/ /\ servers[p] # <<>>
            /\ tpc' = [tpc EXCEPT ![t] = "First"]
            /\ CheckBreakerLocked(p, ExpiredPrefix(p))
            /\ UNCHANGED history
      /\ UNCHANGED <<lists, total_weight, sg, retry_times, now>>

\* first_strategy of the weighted policies.  A fused server is given up; only
\* weighted_random can be told to try another.
WeightedFirstStrategy(t) ==
  LET p == sg[t]
  IN  /\ tpc[t] = "First" /\ policy[p].kind \in {"weighted_random", "vnswrr"}
      /\ \E o \in IF policy[p].kind = "vnswrr" THEN VnswrrFirst(t, p) ELSE WeightedFirst(t, p) :
           \/ ~Fused(o) /\ Select(t, o)
           \/ Fused(o) /\ policy[p].try_another /\ Goto(t, "First", "Another")
              /\ UNCHANGED <<history, endpoint>>
           \/ Fused(o) /\ ~policy[p].try_another /\ Unavailable(t)
      /\ UNCHANGED <<lists, breaker_list, counts, sg, retry_times, now>>

\* Faulty variant: nalives is not looked at.
HashFirstStrategy_NoCount(t) ==
  LET p == sg[t]
  IN  /\ tpc[t] \in {"First", "Spin"} /\ policy[p].kind = "consistent_hash"
      /\ \/ \E o \in Alive(p) : Select(t, o)
         \/ Alive(p) = {} /\ Goto(t, "First", "Spin")
            /\ UNCHANGED <<history, endpoint>>
      /\ UNCHANGED <<lists, breaker_list, counts, sg, retry_times, now>>

\* first_strategy of consistent_hash: nothing if nalives is 0; otherwise the
\* walk goes round the ring until it meets a server that is alive.
HashFirstStrategy(t) ==
  LET p == sg[t]
  IN  /\ tpc[t] \in {"First", "Spin"} /\ policy[p].kind = "consistent_hash"
      /\ \/ tpc[t] = "First" /\ nalives[p] = 0 /\ Unavailable(t)
         \/ (tpc[t] = "Spin" \/ nalives[p] # 0) /\ \E o \in Alive(p) : Select(t, o)
         \/ nalives[p] # 0 /\ Alive(p) = {} /\ Goto(t, "First", "Spin")
            /\ UNCHANGED <<history, endpoint>>
      /\ UNCHANGED <<lists, breaker_list, counts, sg, retry_times, now>>

\* The start of another_strategy looks whether a server is left, without
\* breaker_lock.
FindNoneLeft(t) ==
  /\ \/ Goto(t, "Another", "Clear")  /\ available_weight[sg[t]] = 0
     \/ Goto(t, "Another", "Second") /\ available_weight[sg[t]] # 0
  /\ UNCHANGED <<lists, breaker_list, counts, endpoint, sg, history, retry_times, now>>

\* try_clear_breaker takes the lock: all come back if the time of the first has
\* come.  Another task may have brought servers back since.
TryClearBreaker(t) ==
  LET p == sg[t]
      l == breaker_list[p]
  IN  /\ Goto(t, "Clear", "Second")
      /\ CheckBreakerLocked(p, IF l # <<>> /\ Expired(l[1]) THEN Len(l) ELSE 0)
      /\ UNCHANGED <<lists, total_weight, sg, history, retry_times, now>>

\* Faulty variant: no server when x is beyond the sum of the weights.
AnotherStrategy_NoFallback(t) ==
  LET p == sg[t]
      s == servers[p]
      alive == {i \in DOMAIN s : ~Fused(s[i])}
      upto(i) == Weights({s[j] : j \in {k \in alive : k <= i}})
      hits(x) == {i \in alive : upto(i) > x}
  IN  /\ tpc[t] = "Second"
      /\ \/ available_weight[p] = 0 /\ Unavailable(t)
         \/ available_weight[p] # 0 /\ alive = {} /\ Unavailable(t)
         \/ alive # {} /\ \E x \in 0..(available_weight[p] - 1) :
              IF hits(x) = {} THEN Unavailable(t) ELSE Select(t, s[Min(hits(x))])
      /\ UNCHANGED <<lists, breaker_list, counts, sg, retry_times, now>>

\* The rest of another_strategy; x is rand() % available_weight.  The weight is read
\* and the servers are walked in one step: a server that another task brings back in
\* between only joins those the walk may choose.
AnotherStrategy(t) ==
  LET p == sg[t]
      s == servers[p]
      alive == {i \in DOMAIN s : ~Fused(s[i])}
      upto(i) == Weights({s[j] : j \in {k \in alive : k <= i}})
      hits(x) == {i \in alive : upto(i) > x}
      pick(x) == IF hits(x) = {} THEN Max(alive) ELSE Min(hits(x))
  IN  /\ tpc[t] = "Second"
      /\ \/ available_weight[p] = 0 /\ Unavailable(t)
         \/ available_weight[p] # 0 /\ alive = {} /\ Unavailable(t)
         \/ alive # {} /\ \E x \in 0..(available_weight[p] - 1) : Select(t, s[pick(x)])
      /\ UNCHANGED <<lists, breaker_list, counts, sg, retry_times, now>>

-----------------------------------------------------------------------------
(* A client task (WFComplexClientTask) *)

\* route: the policy is looked up once, and kept when the task is retried.
Route(t, p) ==
  /\ Goto(t, "Idle", "Select")
  /\ sg' = [sg EXCEPT ![t] = p]
  /\ UNCHANGED <<lists, breaker_list, counts, endpoint, history, retry_times, now>>

\* done calls success.  fail_count is cleared without a lock.
Success(t) ==
  /\ Goto(t, "Sent", "Succeeded")
  /\ endpoint' = [endpoint EXCEPT ![Last(history[t])].fail_count = 0]
  /\ UNCHANGED <<lists, breaker_list, counts, sg, history, retry_times, now>>

\* Is the server in the breaker?  This read has no lock either.
SuccessCheck(t) ==
  /\ \/ Goto(t, "Succeeded", "Recover") /\ Listed(Last(history[t]))
     \/ Goto(t, "Succeeded", "Release") /\ ~Listed(Last(history[t]))
  /\ UNCHANGED <<lists, breaker_list, counts, endpoint, sg, history, retry_times, now>>

\* recover_server_from_breaker, under the write lock.
RecoverServer(t) ==
  LET p == sg[t]
      o == Last(history[t])
  IN  /\ WrLock(p) /\ Goto(t, "Recover", "Release")
      /\ endpoint' = [endpoint EXCEPT ![o].fail_count = 0]
      /\ breaker_list' = [breaker_list EXCEPT ![p] = Without(@, {o})]
      /\ RecoverServers(p, IF Listed(o) THEN {o} ELSE {})
      /\ UNCHANGED <<lists, total_weight, sg, history, retry_times, now>>

\* done calls failed, and retries after a system error (not after a DNS
\* error) while retry_max allows it.  A success that clears fail_count between
\* ++fail_count and the fuse is taken to come before or after both.
Failed(t) ==
  LET p == sg[t]
      o == Last(history[t])
      n == Fails(o) + 1
  IN  /\ tpc[t] = "Sent" /\ WrLock(p)
      /\ \/ n = MaxFails[endpoint[o].address] /\ FuseServerToBreaker(p, o, n)
         \/ /\ n # MaxFails[endpoint[o].address]
            /\ endpoint' = [endpoint EXCEPT ![o].fail_count = n]
            /\ UNCHANGED <<breaker_list, nalives, available_weight>>
      /\ \/ /\ retry_times[t] < RetryMax
            /\ retry_times' = [retry_times EXCEPT ![t] = @ + 1]
            /\ tpc' = [tpc EXCEPT ![t] = "Select"]
         \/ tpc' = [tpc EXCEPT ![t] = "Release"] /\ UNCHANGED retry_times
      /\ UNCHANGED <<lists, total_weight, sg, history, now>>

\* tracing_deleter gives back the servers of the history one by one; the
\* last reference to a removed server deletes it, under the write lock.
Release(t) ==
  /\ tpc[t] = "Release"
  /\ \/ /\ history[t] = <<>>
        /\ tpc' = [tpc EXCEPT ![t] = "Done"]
        /\ UNCHANGED <<endpoint, history>>
     \/ /\ history[t] # <<>>
        /\ LET o == Head(history[t])
           IN  /\ endpoint' = [endpoint EXCEPT ![o].ref = @ - 1]
               /\ IF endpoint[o].ref = 1
                  THEN tpc' = [tpc EXCEPT ![t] = "Delete"] /\ UNCHANGED history
                  ELSE history' = [history EXCEPT ![t] = Tail(@)] /\ UNCHANGED tpc
  /\ UNCHANGED <<lists, breaker_list, counts, sg, retry_times, now>>

DeleteServer(t) ==
  LET p == sg[t]
      o == Head(history[t])
  IN  /\ WrLock(p) /\ Goto(t, "Delete", "Release")
      /\ PreDeleteServers(p, {o})
      /\ endpoint' = [endpoint EXCEPT ![o].state = "deleted"]
      /\ history' = [history EXCEPT ![t] = Tail(@)]
      /\ UNCHANGED <<lists, total_weight, sg, retry_times, now>>

TaskStep(t) ==
  \/ CheckBreaker(t) \/ WeightedFirstStrategy(t) \/ HashFirstStrategy(t)
  \/ FindNoneLeft(t) \/ TryClearBreaker(t) \/ AnotherStrategy(t)
  \/ Success(t) \/ SuccessCheck(t) \/ RecoverServer(t) \/ Failed(t)
  \/ Release(t) \/ DeleteServer(t)

\* Time passes; nobody looks at it while no server is fused.
Tick ==
  /\ \E p \in Policies : breaker_list[p] # <<>>
  /\ now < MaxClock /\ now' = now + 1
  /\ UNCHANGED <<lists, breaker_list, counts, endpoint, tasks>>

UpsInit ==
  /\ policy = [p \in Policies |-> [kind |-> "none", try_another |-> FALSE]]
  /\ servers = [p \in Policies |-> <<>>]
  /\ breaker_list = [p \in Policies |-> <<>>]
  /\ pre_generated_vec = [p \in Policies |-> <<>>]
  /\ nalives = [p \in Policies |-> 0]
  /\ total_weight = [p \in Policies |-> 0]
  /\ available_weight = [p \in Policies |-> 0]
  /\ endpoint = [o \in Endpoints |-> NoEndpoint]
  /\ tpc = [t \in Tasks |-> "Idle"]
  /\ sg = [t \in Tasks |-> 0]
  /\ history = [t \in Tasks |-> <<>>]
  /\ retry_times = [t \in Tasks |-> 0]
  /\ now = 0
=============================================================================
