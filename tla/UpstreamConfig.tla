--------------------------- MODULE UpstreamConfig ---------------------------
(***************************************************************************)
(* How upstreams come to be and go: WFNameService and UpstreamManager, and *)
(* their two users in WF-rpc.  One thread runs StartRpcServer, which sets  *)
(* up the circuit breakers and rate limiters of the configuration file,    *)
(* makes its upstreams, and takes the latter back when it fails; another   *)
(* thread of the application makes an upstream of its own   *)
(* (RpcClient::configure_weighted_upstream, GetClientUpstreamUrl), adds    *)
(* and removes servers, and deletes what it made.  Client tasks are routed *)
(* through the upstreams (UpstreamPolicy).                                 *)
(***************************************************************************)
EXTENDS UpstreamPolicy

CONSTANTS
  Names,       \* names of upstreams
  NoPolicy,
  Configs,     \* what the configuration file may say: sequences of upstreams
  AppName,     \* the upstream the application configures, and
  AppServers,  \* its servers
  AppWeight,   \* the weight of a server it adds later
  MaxChanges   \* bound: servers the application adds or removes

ASSUME ConfigAssumption ==
  /\ NoPolicy \notin Policies /\ AppName \in Names /\ MaxChanges \in Nat
  /\ AppServers \in Seq([address : Addresses, weight : Nat]) /\ AppWeight \in Nat
  /\ \A c \in Configs : c \in Seq([name : Names, type : STRING, try_another : BOOLEAN,
                                   servers : Seq([address : Addresses, weight : Nat])])

VARIABLES
  names,    \* WFNameService: the policy of a name
  creator,  \* history: who created a policy
  config,   \* config.upstreams
  governed, \* the configured circuit breakers and rate limiters are enabled
  start,    \* where StartRpcServer is
  upstream, \* its position in config.upstreams
  server,   \* its position in upstream.servers
  created,  \* created_upstreams
  app,      \* where the application is
  changes   \* servers it has added or removed

starting == <<config, governed, start, upstream, server, created>>
using    == <<app, changes>>
vars     == <<ups, names, creator, starting, using>>

NewPolicies == {p \in Policies : policy[p].kind = "none"}

\* upstream_create_*: add_policy refuses a name that exists.  who is the
\* thread that creates.
Exists(name) == names[name] # NoPolicy

CreateUpstream(name, kind, try_another, who) ==
  /\ ~Exists(name) /\ NewPolicies # {}
  /\ LET p == Min(NewPolicies)
     IN  /\ policy' = [policy EXCEPT ![p] = [kind |-> kind, try_another |-> try_another]]
         /\ names' = [names EXCEPT ![name] = p]
         /\ creator' = [creator EXCEPT ![p] = who]
  /\ UNCHANGED <<servers, pre_generated_vec, breaker_list, counts, endpoint, tasks, now>>

\* upstream_delete: the name goes; the policy itself is kept by
\* __UpstreamManager, for the tasks that still use it.
DeleteUpstream(name) ==
  /\ names' = [names EXCEPT ![name] = NoPolicy]
  /\ UNCHANGED <<ups, creator>>

-----------------------------------------------------------------------------
(* StartRpcServer *)

Configured == config[upstream]

\* The circuit breakers and rate limiters come first, and no failure disables them
\* again.  Then the address of the server is parsed.
BeginStart ==
  /\ start = "Idle"
  /\ governed' = TRUE
  /\ start' \in {"Upstreams", "Failed"}
  /\ UNCHANGED <<ups, names, creator, config, upstream, server, created, using>>

\* Faulty variant: the name is noted before the upstream is created.
MakeUpstream_NotesFirst ==
  /\ start = "Upstreams" /\ upstream <= Len(config) /\ Configured.type \in Kinds
  /\ created' = Append(created, Configured.name)
  /\ \/ /\ Exists(Configured.name)
        /\ start' = "Cleanup"
        /\ UNCHANGED <<ups, names, creator, server>>
     \/ /\ CreateUpstream(Configured.name, Configured.type, Configured.try_another, "start")
        /\ start' = "Servers" /\ server' = 1
  /\ UNCHANGED <<config, governed, upstream, using>>

\* The next configured upstream.  Its name may be taken, by the application
\* or by an earlier upstream of the file.
MakeUpstream ==
  /\ start = "Upstreams" /\ upstream <= Len(config) /\ Configured.type \in Kinds
  /\ \/ /\ Exists(Configured.name)
        /\ start' = "Cleanup"
        /\ UNCHANGED <<ups, names, creator, server, created>>
     \/ /\ CreateUpstream(Configured.name, Configured.type, Configured.try_another, "start")
        /\ created' = Append(created, Configured.name)
        /\ start' = "Servers" /\ server' = 1
  /\ UNCHANGED <<config, governed, upstream, using>>

\* An upstream of another type is passed over.
SkipUpstream ==
  /\ start = "Upstreams" /\ upstream <= Len(config) /\ Configured.type \notin Kinds
  /\ upstream' = upstream + 1
  /\ UNCHANGED <<ups, names, creator, config, governed, start, server, created, using>>

\* The servers of the upstream just made; the weights of the file are passed
\* on for weighted_random only.  add_upstream_server fails only when the name
\* is gone, and nobody else deletes it.
AddConfigured ==
  /\ start = "Servers" /\ Exists(Configured.name)
  /\ \/ /\ server <= Len(Configured.servers)
        /\ LET s == Configured.servers[server]
           IN  AddServer(names[Configured.name], s.address,
                         IF Configured.type = "weighted_random" THEN s.weight ELSE 1)
        /\ server' = server + 1
        /\ UNCHANGED <<start, upstream>>
     \/ /\ server > Len(Configured.servers)
        /\ start' = "Upstreams" /\ upstream' = upstream + 1
        /\ UNCHANGED <<ups, server>>
  /\ UNCHANGED <<names, creator, config, governed, created, using>>

\* GetRpcServer()->start
StartServer ==
  /\ start = "Upstreams" /\ upstream > Len(config)
  /\ start' \in {"Started", "Cleanup"}
  /\ UNCHANGED <<ups, names, creator, config, governed, upstream, server, created, using>>

\* cleanup_upstreams, and the return of -1.
CleanupUpstreams ==
  /\ start = "Cleanup"
  /\ \/ /\ created # <<>>
        /\ DeleteUpstream(Head(created))
        /\ created' = Tail(created)
        /\ UNCHANGED start
     \/ /\ created = <<>> /\ start' = "Failed"
        /\ UNCHANGED <<ups, names, creator, created>>
  /\ UNCHANGED <<config, governed, upstream, server, using>>

-----------------------------------------------------------------------------
(* The application *)

\* First the upstreams are made, then there is traffic: an upstream that is
\* being made shares nothing with the tasks of the others but the names.
ConfigDone == start \in {"Started", "Failed"} /\ app # "Made"
NoTraffic  == \A t \in Tasks : tpc[t] = "Idle"

\* configure_weighted_upstream, up to the creation.
ConfigureUpstream ==
  /\ app = "Idle" /\ NoTraffic
  /\ \/ Exists(AppName) /\ app' = "Refused" /\ UNCHANGED <<ups, names, creator>>
     \/ CreateUpstream(AppName, "weighted_random", TRUE, "app") /\ app' = "Made"
  /\ UNCHANGED <<starting, changes>>

\* Its loop over the servers.
AppServersDone == Len(servers[names[AppName]]) >= Len(AppServers)

AddAppServer ==
  /\ app = "Made" /\ Exists(AppName)
  /\ \/ LET s == AppServers[Len(servers[names[AppName]]) + 1]
        IN  /\ ~AppServersDone
            /\ AddServer(names[AppName], s.address, s.weight)
            /\ UNCHANGED app
     \/ AppServersDone /\ app' = "Ready" /\ UNCHANGED ups
  /\ UNCHANGED <<names, creator, starting, changes>>

AppDelete ==
  /\ app = "Ready" /\ app' = "Deleted"
  /\ DeleteUpstream(AppName)
  /\ UNCHANGED <<starting, changes>>

\* add_upstream_server and remove_upstream_server on an upstream in use.
ChangeServers(name, address) ==
  /\ changes < MaxChanges /\ changes' = changes + 1
  /\ ConfigDone /\ Exists(name)
  /\ \/ AddServer(names[name], address, AppWeight)
     \/ RemoveServer(names[name], address)
  /\ UNCHANGED <<names, creator, starting, app>>

\* A client task for an upstream; a name that is not one goes to DNS.
RouteTask(t, name) ==
  /\ ConfigDone /\ Exists(name) /\ Route(t, names[name])
  /\ UNCHANGED <<names, creator, starting, using>>

-----------------------------------------------------------------------------
Init ==
  /\ UpsInit
  /\ names = [n \in Names |-> NoPolicy]
  /\ creator = [p \in Policies |-> "none"]
  /\ config \in Configs /\ governed = FALSE
  /\ start = "Idle" /\ upstream = 1 /\ server = 1 /\ created = <<>>
  /\ app = "Idle"
  /\ changes = 0

StartStep ==
  \/ BeginStart \/ MakeUpstream \/ SkipUpstream \/ AddConfigured
  \/ StartServer \/ CleanupUpstreams

AppStep ==
  \/ ConfigureUpstream
  \/ AddAppServer \/ AppDelete
  \/ \E n \in Names, a \in Addresses : ChangeServers(n, a)

Environment == Tick /\ UNCHANGED <<names, creator, starting, using>>

Next ==
  \/ StartStep \/ AppStep \/ Environment
  \/ \E t \in Tasks :
       \/ TaskStep(t) /\ UNCHANGED <<names, creator, starting, using>>
       \/ \E n \in Names : RouteTask(t, n)

Spec == Init /\ [][Next]_vars

-----------------------------------------------------------------------------
Live == {o \in Endpoints : endpoint[o].state = "live"}

\* Types.
TypeOK ==
  /\ policy \in [Policies -> [kind : Kinds \cup {"none"}, try_another : BOOLEAN]]
  /\ \A p \in Policies :
       /\ Range(servers[p]) \subseteq Endpoints /\ Range(breaker_list[p]) \subseteq Endpoints
       /\ nalives[p] \in Int /\ available_weight[p] \in Int /\ total_weight[p] \in Int
  /\ \A o \in Live :
       /\ endpoint[o].fail_count \in Nat /\ endpoint[o].ref \in Nat
       /\ endpoint[o].weight \in Nat \ {0}
  /\ tpc \in [Tasks -> {"Idle", "Select", "First", "Spin", "Another", "Clear", "Second",
                        "Sent", "Succeeded", "Recover", "Release", "Delete", "Done"}]
  /\ names \in [Names -> Policies \cup {NoPolicy}] /\ governed \in BOOLEAN
  /\ start \in {"Idle", "Upstreams", "Servers", "Cleanup", "Started", "Failed"}
  /\ app \in {"Idle", "Made", "Ready", "Refused", "Deleted"}

(***************************************************************************)
(* nalives, available_weight and total_weight say what they mean although  *)
(* four handlers change them: a server counts as alive exactly while it is *)
(* not in the breaker, until it is deleted                                 *)
(* (recover_one_server, fuse_one_server, pre_delete_server).               *)
(***************************************************************************)
CountsExact ==
  \A p \in Policies :
    LET alive == {o \in Live : endpoint[o].policy = p} \ Range(breaker_list[p])
    IN  /\ nalives[p] = Cardinality(alive)
        /\ available_weight[p] = Weights(alive)
        /\ total_weight[p] = Weights(Range(servers[p]))

(***************************************************************************)
(* The breaker list is in the order of broken_timeout, which               *)
(* check_breaker_locked relies on when it stops at the first server whose  *)
(* time has not come; a server is in it at most once, and never after it   *)
(* was deleted.                                                            *)
(***************************************************************************)
BreakerOrdered ==
  \A p \in Policies :
    LET l == breaker_list[p]
    IN  /\ Range(l) \subseteq {o \in Live : endpoint[o].policy = p}
        /\ \A i, j \in DOMAIN l : i < j =>
             l[i] # l[j] /\ endpoint[l[i]].broken_timeout <= endpoint[l[j]].broken_timeout

(***************************************************************************)
(* A server is deleted only by its last user: the references of a server   *)
(* are the policy and the histories of the tasks (select's ++ref, the      *)
(* --ref of remove_server_locked and tracing_deleter), and none of them    *)
(* refers to a deleted server.                                             *)
(***************************************************************************)
Held(t) == IF tpc[t] = "Delete" THEN Tail(history[t]) ELSE history[t]

TaskUses(o) == UNION {{<<t, i>> : i \in {j \in 1..Len(Held(t)) : Held(t)[j] = o}} : t \in Tasks}

Uses(o) == Cardinality(TaskUses(o)) + Cardinality({p \in Policies : Contains(servers[p], o)})

ServersKept ==
  /\ \A o \in Live : endpoint[o].ref = Uses(o)
  /\ \A p \in Policies : Range(servers[p]) \subseteq Live
  /\ \A t \in Tasks : Range(history[t]) \subseteq Live

(***************************************************************************)
(* A server that counts as failed is in the breaker, the only place it can *)
(* come back from: no interleaving of failed (which fuses when fail_count  *)
(* equals max_fails, not when it exceeds it), success (which clears it     *)
(* without a lock) and check_breaker leaves one cut off for good.          *)
(***************************************************************************)
FusedIsListed ==
  \A o \in Live : Fused(o) => Listed(o)

\* The breaker brings back every server it has taken out, each in its time:
\* whoever failed is in the list, and the list is in order.
BreakerSound == BreakerOrdered /\ FusedIsListed

(***************************************************************************)
(* consistent_hash_with_group goes round the ring until it finds a server  *)
(* that is alive (UpstreamPolicies.cc:409).  nalives # 0 promises it one,  *)
(* with one exception: the server that is alive was removed and is only    *)
(* kept by a task.                                                         *)
(***************************************************************************)
SpinsOnlyForRemoved ==
  \A t \in Tasks : tpc[t] = "Spin" =>
    \E o \in Live : /\ endpoint[o].policy = sg[t]
                    /\ ~Contains(servers[sg[t]], o)
                    /\ ~Listed(o)

(***************************************************************************)
(* The virtual nodes of vnswrr are those of its present servers, and in a  *)
(* cycle each server has its turn as often as its weight says              *)
(* (UPSVNSWRRPolicy::init after every add and remove).                     *)
(***************************************************************************)
VirtualNodesFair ==
  \A p \in Policies : policy[p].kind = "vnswrr" /\ servers[p] # <<>> =>
    LET v == pre_generated_vec[p]
    IN  /\ Len(v) = total_weight[p]
        /\ \A i \in DOMAIN servers[p] :
             Cardinality({k \in DOMAIN v : v[k] = i}) = endpoint[servers[p][i]].weight

(***************************************************************************)
(* A start that fails leaves no upstream behind, and takes none from the   *)
(* application although both use one name space; one that succeeds has     *)
(* them all (StartRpcServer, cleanup_upstreams).  Upstreams are all it     *)
(* takes back: its circuit breakers and rate limiters stay.                *)
(***************************************************************************)
UpstreamsUndone ==
  /\ start = "Failed" => \A n \in Names : Exists(n) => creator[names[n]] = "app"
  /\ start = "Started" => \A i \in DOMAIN config : config[i].type \in Kinds =>
       Exists(config[i].name) /\ creator[names[config[i].name]] = "start"
  /\ app \in {"Made", "Ready"} => Exists(AppName) /\ creator[names[AppName]] = "app"
  /\ governed <=> start # "Idle"

(***************************************************************************)
(* A server comes back before its time only because a request to it        *)
(* succeeded, or together with all others when one of them has reached its *)
(* time and a task that still holds the read lock has found every server   *)
(* in the breaker ("When all servers are down, recover all servers if any  *)
(* server reaches fusing timeout", UpstreamPolicies.cc:556).  They need    *)
(* not all be down any more by then: check_breaker may have brought one    *)
(* back since the task looked.                                             *)
(***************************************************************************)
EarlyOnlyWhenAllDown ==
  [][/\ \A t \in Tasks : tpc[t] # "Clear" /\ tpc'[t] = "Clear" =>
          \A o \in Range(servers[sg[t]]) : Listed(o)
     /\ \A o \in Live : Listed(o) /\ ~Listed(o)' /\ o \in Live' /\ ~Expired(o) =>
          \/ endpoint[o]'.fail_count = 0
          \/ LET p == endpoint[o].policy
             IN  /\ \E t \in Readers(p) : tpc[t] = "Clear"
                 /\ Expired(breaker_list[p][1]) /\ breaker_list'[p] = <<>>]_vars

(***************************************************************************)
(* weighted_random with try_another turns a request away only when every   *)
(* server of the upstream is in the breaker (select, another_strategy); so *)
(* does consistent_hash.                                                   *)
(***************************************************************************)
RefusedOnlyWhenAllDown ==
  [][\A t \in Tasks :
       /\ tpc[t] \in {"Select", "First", "Second"} /\ tpc'[t] = "Release"
       /\ policy[sg[t]].try_another \/ policy[sg[t]].kind = "consistent_hash"
       => \A o \in Range(servers[sg[t]]) : Listed(o)]_vars

\* What is done only when all servers are down (another_strategy).
OnlyWhenAllDown == EarlyOnlyWhenAllDown /\ RefusedOnlyWhenAllDown
=============================================================================
