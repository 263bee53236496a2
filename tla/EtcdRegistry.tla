----------------------------- MODULE EtcdRegistry -----------------------------
(***************************************************************************)
(* Servers that register themselves in etcd: TinyPbRpcServer::start and    *)
(* stop composed with EtcdRegistryClient (one per process) and with etcd   *)
(* itself, which is external and modelled by what the client relies on:    *)
(* leases that expire, keys attached to the lease they were last put with. *)
(*                                                                         *)
(* All servers offer one service, so their keys share a prefix.  Every     *)
(* HTTP request is a step.  It may be answered, be carried out with the    *)
(* answer lost, or not reach etcd; the client sees the last two alike.     *)
(***************************************************************************)
EXTENDS Integers, FiniteSets

CONSTANTS Servers,    \* TinyPbRpcServer objects, each with an ip:port of its own
          Procs,      \* processes
          Host,       \* the process of each server
          Beats,      \* bound: the heartbeat threads a process may have at a time
          TTL,        \* the ttl of register_service, in ticks
          Interval,   \* heartbeat_interval_, in ticks
          Faults,     \* what may go wrong: "loss", "listen"
          MaxCrashes, \* bound: crashes of processes
          MaxMissed,  \* bound: keep-alives of a process lost in a row
          MaxLeases   \* bound: leases ever granted

ASSUME RegistryAssumption ==
  /\ IsFiniteSet(Servers) /\ Host \in [Servers -> Procs]
  /\ TTL \in Nat \ {0} /\ Interval \in Nat \ {0}
  /\ MaxMissed \in Nat /\ MaxLeases \in Nat /\ MaxCrashes \in Nat
  /\ Faults \subseteq {"loss", "listen"}

VARIABLES
  \* etcd
  ttl,         \* remaining life of each lease, 0 if not granted or gone
  key,         \* the lease each server's key is attached to, 0 if there is no key
  granted,     \* leases granted so far
  \* EtcdRegistryClient, one per process
  running,     \* running_
  current,     \* current_lease_id_
  services,    \* registered_services_: the lease_id of each server, 0 if absent
  beat,        \* each heartbeat_loop: "off", "sleep" or "renew"
  wait,        \* heartbeat_loop: what is left of its sleep
  renew,       \* heartbeat_loop: the lease_ids still to be kept alive
  missed,      \* keep-alives lost in a row
  revoke,      \* stop: the lease_ids still to be revoked
  \* TinyPbRpcServer
  pc,          \* where start or stop is
  lease,       \* register_service: lease_id
  todo,        \* unregister_service: the endpoints still to be deleted
  registered,  \* registered_
  listening,   \* server_ accepts requests
  \* history
  crashes,     \* crashes so far
  kept         \* the last registration succeeded, in a client that has run since

etcdVars   == <<ttl, key, granted>>
beatVars   == <<beat, wait, renew, missed>>
clientVars == <<running, current, services, revoke>>
serverVars == <<pc, lease, todo, registered, listening, kept>>
vars == <<etcdVars, beatVars, clientVars, serverVars, crashes>>

Leases == 1..MaxLeases

Locations == {"Idle", "Grant", "ReadLease", "Put", "Undo", "Record", "Listen",
              "GetKeys", "Delete"}

Goto(s, from, to) == pc[s] = from /\ pc' = [pc EXCEPT ![s] = to]

\* A request whose failure the client sees.
MayLose == "loss" \in Faults

Of(p) == {s \in Servers : Host[s] = p}

\* The lease_ids in registered_services_ of a process.
LeasesOf(p) == {services[s] : s \in Of(p)} \ {0}

\* etcd without the leases of a set: their keys are gone, too.
Drop(ls) ==
  /\ ttl' = [l \in Leases |-> IF l \in ls THEN 0 ELSE ttl[l]]
  /\ key' = [s \in Servers |-> IF key[s] \in ls THEN 0 ELSE key[s]]
  /\ UNCHANGED granted

-----------------------------------------------------------------------------
Init ==
  /\ ttl = [l \in Leases |-> 0] /\ key = [s \in Servers |-> 0] /\ granted = 0
  /\ running = [p \in Procs |-> FALSE] /\ current = [p \in Procs |-> 0]
  /\ services = [s \in Servers |-> 0] /\ revoke = [p \in Procs |-> {}]
  /\ beat = [p \in Procs |-> [b \in Beats |-> "off"]]
  /\ wait = [p \in Procs |-> [b \in Beats |-> 0]]
  /\ renew = [p \in Procs |-> [b \in Beats |-> {}]] /\ missed = [p \in Procs |-> 0]
  /\ pc = [s \in Servers |-> "Idle"] /\ lease = [s \in Servers |-> 0]
  /\ todo = [s \in Servers |-> {}]
  /\ registered = [s \in Servers |-> FALSE] /\ listening = [s \in Servers |-> FALSE]
  /\ kept = [s \in Servers |-> FALSE] /\ crashes = 0

-----------------------------------------------------------------------------
\* set_registry_endpoint and EtcdRegistryClient::start, which starts a heartbeat
\* thread, even if one from before a stop is still asleep.
StartRegistry(p) ==
  /\ ~running[p]
  /\ running' = [running EXCEPT ![p] = TRUE]
  /\ \E b \in Beats :
       /\ beat[p][b] = "off"
       /\ beat' = [beat EXCEPT ![p][b] = "sleep"]
       /\ wait' = [wait EXCEPT ![p][b] = Interval]
  /\ UNCHANGED <<etcdVars, current, services, revoke, renew, missed, serverVars>>

\* EtcdRegistryClient::stop: forget the services ...
StopRegistry(p) ==
  /\ running[p]
  /\ running' = [running EXCEPT ![p] = FALSE]
  /\ revoke' = [revoke EXCEPT ![p] = @ \cup LeasesOf(p)]
  /\ services' = [s \in Servers |-> IF Host[s] = p THEN 0 ELSE services[s]]
  /\ kept' = [s \in Servers |-> Host[s] # p /\ kept[s]]
  /\ UNCHANGED <<etcdVars, current, beatVars, pc, lease, todo, registered, listening>>

\* ... and revoke their leases one by one; the answers are not looked at.
RevokeLease(p) ==
  /\ \E l \in revoke[p] :
       /\ revoke' = [revoke EXCEPT ![p] = @ \ {l}]
       /\ Drop({l}) \/ (MayLose /\ UNCHANGED etcdVars)
  /\ UNCHANGED <<running, current, services, beatVars, serverVars>>

\* Faulty variant: without a service, the lease that was granted last is renewed.
Wake_Current(p, b) ==
  /\ beat[p][b] = "sleep" /\ wait[p][b] = 0
  /\ \/ ~running[p] /\ beat' = [beat EXCEPT ![p][b] = "off"] /\ UNCHANGED renew
     \/ /\ running[p]
        /\ beat' = [beat EXCEPT ![p][b] = "renew"]
        /\ renew' = [renew EXCEPT ![p][b] =
                      IF LeasesOf(p) # {} THEN LeasesOf(p) ELSE {current[p]} \ {0}]
  /\ UNCHANGED <<etcdVars, clientVars, wait, missed, serverVars>>

\* heartbeat_loop wakes up: it ends, or takes a snapshot of the leases.
Wake(p, b) ==
  /\ beat[p][b] = "sleep" /\ wait[p][b] = 0
  /\ \/ ~running[p] /\ beat' = [beat EXCEPT ![p][b] = "off"] /\ UNCHANGED renew
     \/ /\ running[p]
        /\ beat' = [beat EXCEPT ![p][b] = "renew"]
        /\ renew' = [renew EXCEPT ![p][b] = LeasesOf(p)]
  /\ UNCHANGED <<etcdVars, clientVars, wait, missed, serverVars>>

\* keep_alive of the next lease: etcd renews a lease that still exists, and a
\* failure is only logged.  A stop cuts the round short.
KeepAlive(p, b) ==
  /\ beat[p][b] = "renew" /\ renew[p][b] # {}
  /\ \/ /\ running[p]
        /\ \E l \in renew[p][b] :
             /\ renew' = [renew EXCEPT ![p][b] = @ \ {l}]
             /\ \/ /\ ttl' = [ttl EXCEPT ![l] = IF @ > 0 THEN TTL ELSE 0]
                   /\ missed' = [missed EXCEPT ![p] = 0]
                \/ /\ MayLose /\ missed[p] < MaxMissed
                   /\ missed' = [missed EXCEPT ![p] = @ + 1]
                   /\ UNCHANGED ttl
     \/ /\ ~running[p]
        /\ renew' = [renew EXCEPT ![p][b] = {}]
        /\ UNCHANGED <<ttl, missed>>
  /\ UNCHANGED <<key, granted, clientVars, beat, wait, serverVars>>

\* The end of a round of heartbeat_loop.
Sleep(p, b) ==
  /\ beat[p][b] = "renew" /\ renew[p][b] = {}
  /\ \/ /\ running[p]
        /\ beat' = [beat EXCEPT ![p][b] = "sleep"]
        /\ wait' = [wait EXCEPT ![p][b] = Interval]
     \/ ~running[p] /\ beat' = [beat EXCEPT ![p][b] = "off"] /\ UNCHANGED wait
  /\ UNCHANGED <<etcdVars, clientVars, renew, missed, serverVars>>

-----------------------------------------------------------------------------
\* TinyPbRpcServer::start, of a server that does not run, with a registry:
\* register first, listen later.
Start(s) ==
  /\ ~listening[s]
  /\ granted + Cardinality({t \in Servers : pc[t] = "Grant"}) < MaxLeases
  /\ Goto(s, "Idle", "Grant")
  /\ UNCHANGED <<etcdVars, clientVars, beatVars, lease, todo, registered, listening>>
  /\ kept' = [kept EXCEPT ![s] = FALSE]

\* etcd grants a lease, if the request reaches it.
EtcdGrants == granted' = granted + 1 /\ ttl' = [ttl EXCEPT ![granted + 1] = TTL]

\* Faulty variant: register_service does not look at what create_lease returns.
Grant_NoCheck(s) ==
  /\ pc[s] = "Grant"
  /\ \/ /\ EtcdGrants
        /\ current' = [current EXCEPT ![Host[s]] = granted + 1]
        /\ Goto(s, "Grant", "ReadLease") /\ UNCHANGED lease
     \/ /\ MayLose
        /\ EtcdGrants \/ UNCHANGED <<granted, ttl>>
        /\ Goto(s, "Grant", "Put") /\ lease' = [lease EXCEPT ![s] = -1]
        /\ UNCHANGED current
  /\ UNCHANGED <<key, running, services, revoke, beatVars, todo, registered, listening, kept>>

\* create_lease: the answer goes through current_lease_id_; without one,
\* register_service gives up, and the server starts all the same.
Grant(s) ==
  /\ pc[s] = "Grant"
  /\ \/ /\ EtcdGrants
        /\ current' = [current EXCEPT ![Host[s]] = granted + 1]
        /\ Goto(s, "Grant", "ReadLease")
     \/ /\ MayLose
        /\ EtcdGrants \/ UNCHANGED <<granted, ttl>>
        /\ Goto(s, "Grant", "Listen")
        /\ UNCHANGED current
  /\ UNCHANGED <<key, running, services, revoke, beatVars, lease, todo, registered, listening, kept>>

\* create_lease returns current_lease_id_, whoever has set it by now.
ReadLease(s) ==
  /\ Goto(s, "ReadLease", "Put")
  /\ lease' = [lease EXCEPT ![s] = current[Host[s]]]
  /\ UNCHANGED <<etcdVars, clientVars, beatVars, todo, registered, listening, kept>>

\* put_key: etcd refuses a lease that is gone.
Put(s) ==
  /\ pc[s] = "Put"
  /\ \/ /\ ttl[lease[s]] > 0
        /\ key' = [key EXCEPT ![s] = lease[s]]
        /\ Goto(s, "Put", "Record") \/ (MayLose /\ Goto(s, "Put", "Undo"))
     \/ /\ ttl[lease[s]] = 0 \/ MayLose
        /\ Goto(s, "Put", "Undo")
        /\ UNCHANGED key
  /\ UNCHANGED <<ttl, granted, clientVars, beatVars, lease, todo, registered, listening, kept>>

\* register_service after a failed put_key: revoke_lease and give up.
Undo(s) ==
  /\ Goto(s, "Undo", "Listen")
  /\ Drop({lease[s]}) \/ (MayLose /\ UNCHANGED etcdVars)
  /\ UNCHANGED <<clientVars, beatVars, lease, todo, registered, listening, kept>>

\* Faulty variant: the endpoint is not remembered, so nobody renews its lease.
Record_Forgets(s) ==
  /\ Goto(s, "Record", "Listen")
  /\ registered' = [registered EXCEPT ![s] = TRUE]
  /\ kept' = [kept EXCEPT ![s] = running[Host[s]]]
  /\ UNCHANGED <<etcdVars, clientVars, beatVars, lease, todo, listening>>

\* The end of register_service and register_to_registry.
Record(s) ==
  /\ Goto(s, "Record", "Listen")
  /\ services' = [services EXCEPT ![s] = lease[s]]
  /\ registered' = [registered EXCEPT ![s] = TRUE]
  /\ kept' = [kept EXCEPT ![s] = running[Host[s]]]
  /\ UNCHANGED <<etcdVars, running, current, revoke, beatVars, lease, todo, listening>>

\* server_->start, which start returns without looking back.
Listen(s) ==
  /\ Goto(s, "Listen", "Idle")
  /\ \/ listening' = [listening EXCEPT ![s] = TRUE]
     \/ "listen" \in Faults /\ UNCHANGED listening
  /\ UNCHANGED <<etcdVars, clientVars, beatVars, lease, todo, registered, kept>>

-----------------------------------------------------------------------------
\* TinyPbRpcServer::stop (or the destructor).
Stop(s) ==
  /\ listening[s] \/ registered[s]
  /\ \/ registered[s] /\ Goto(s, "Idle", "GetKeys") /\ UNCHANGED listening
     \/ /\ ~registered[s]
        /\ pc[s] = "Idle" /\ UNCHANGED pc
        /\ listening' = [listening EXCEPT ![s] = FALSE]
  /\ UNCHANGED <<etcdVars, clientVars, beatVars, lease, todo, registered, kept>>

\* unregister_service: get_keys of the prefix, nothing if that fails.
GetKeys(s) ==
  /\ Goto(s, "GetKeys", "Delete")
  /\ \/ todo' = [todo EXCEPT ![s] = {t \in Servers : key[t] # 0}]
     \/ MayLose /\ todo' = [todo EXCEPT ![s] = {}]
  /\ UNCHANGED <<etcdVars, clientVars, beatVars, lease, registered, listening, kept>>

\* unregister_service: delete the next key, and forget the endpoint even if
\* that failed.  The lease of the key lives on.
Delete(s) ==
  /\ pc[s] = "Delete"
  /\ \E t \in todo[s] :
       /\ todo' = [todo EXCEPT ![s] = @ \ {t}]
       /\ key' = [key EXCEPT ![t] = 0] \/ (MayLose /\ UNCHANGED key)
       /\ services' = [services EXCEPT ![t] = IF Host[t] = Host[s] THEN 0 ELSE @]
  /\ UNCHANGED <<ttl, granted, running, current, revoke, beatVars, pc, lease,
                 registered, listening, kept>>

\* The end of unregister_from_registry, and server_->stop.
StopListening(s) ==
  /\ todo[s] = {}
  /\ Goto(s, "Delete", "Idle")
  /\ registered' = [registered EXCEPT ![s] = FALSE]
  /\ listening' = [listening EXCEPT ![s] = FALSE]
  /\ UNCHANGED <<etcdVars, clientVars, beatVars, lease, todo, kept>>

-----------------------------------------------------------------------------
\* A process dies with its servers and its threads; etcd knows nothing of it.
Crash(p) ==
  /\ crashes < MaxCrashes /\ crashes' = crashes + 1
  /\ running' = [running EXCEPT ![p] = FALSE]
  /\ revoke' = [revoke EXCEPT ![p] = {}]
  /\ services' = [s \in Servers |-> IF Host[s] = p THEN 0 ELSE services[s]]
  /\ beat' = [beat EXCEPT ![p] = [b \in Beats |-> "off"]]
  /\ renew' = [renew EXCEPT ![p] = [b \in Beats |-> {}]]
  /\ missed' = [missed EXCEPT ![p] = 0]
  /\ pc' = [s \in Servers |-> IF Host[s] = p THEN "Idle" ELSE pc[s]]
  /\ todo' = [s \in Servers |-> IF Host[s] = p THEN {} ELSE todo[s]]
  /\ registered' = [s \in Servers |-> Host[s] # p /\ registered[s]]
  /\ listening' = [s \in Servers |-> Host[s] # p /\ listening[s]]
  /\ kept' = [s \in Servers |-> Host[s] # p /\ kept[s]]
  /\ UNCHANGED <<etcdVars, current, wait, lease>>

\* A heartbeat that is due is sent, and requests are answered, within a tick.
Prompt ==
  /\ \A p \in Procs : /\ revoke[p] = {}
                      /\ \A b \in Beats : beat[p][b] = "off" \/ (beat[p][b] = "sleep" /\ wait[p][b] > 0)
  /\ \A s \in Servers : pc[s] = "Idle"

\* Time passes: leases run out, and sleepers come closer to waking up.
Tick ==
  /\ Prompt
  /\ ttl' = [l \in Leases |-> IF ttl[l] > 0 THEN ttl[l] - 1 ELSE 0]
  /\ key' = [s \in Servers |-> IF key[s] # 0 /\ ttl[key[s]] <= 1 THEN 0 ELSE key[s]]
  /\ wait' = [p \in Procs |-> [b \in Beats |->
              IF beat[p][b] = "sleep" THEN wait[p][b] - 1 ELSE wait[p][b]]]
  /\ UNCHANGED <<granted, clientVars, beat, renew, missed, serverVars>>

ServerStep(s) ==
  /\ \/ Grant(s) \/ ReadLease(s) \/ Put(s) \/ Undo(s) \/ Record(s) \/ Listen(s)
     \/ GetKeys(s) \/ Delete(s) \/ StopListening(s)
  /\ UNCHANGED crashes

BeatStep(p) ==
  /\ \E b \in Beats : Wake(p, b) \/ KeepAlive(p, b) \/ Sleep(p, b)
  /\ UNCHANGED crashes

RevokeStep(p) == RevokeLease(p) /\ UNCHANGED crashes

\* What the programs that use the framework decide.
UserStep ==
  /\ \/ \E p \in Procs : StartRegistry(p) \/ StopRegistry(p)
     \/ \E s \in Servers : Start(s) \/ Stop(s)
  /\ UNCHANGED crashes

Time == Tick /\ UNCHANGED crashes

Next ==
  \/ Time \/ UserStep
  \/ \E p \in Procs : RevokeStep(p) \/ BeatStep(p) \/ Crash(p)
  \/ \E s \in Servers : ServerStep(s)

Spec == Init /\ [][Next]_vars

(***************************************************************************)
(* Threads are scheduled, and time passes whatever they do (strong         *)
(* fairness: no sequence of starts and stops holds it up).  Nobody has to  *)
(* start, stop or crash anything.                                          *)
(***************************************************************************)
FairSpec == /\ Spec
            /\ SF_vars(Time)
            /\ \A p \in Procs : WF_vars(BeatStep(p)) /\ WF_vars(RevokeStep(p))
            /\ \A s \in Servers : WF_vars(ServerStep(s))

-----------------------------------------------------------------------------
EtcdTypes ==
  /\ ttl \in [Leases -> 0..TTL] /\ key \in [Servers -> 0..MaxLeases]
  /\ granted \in 0..MaxLeases

ClientTypes ==
  /\ running \in [Procs -> BOOLEAN] /\ current \in [Procs -> 0..MaxLeases]
  /\ services \in [Servers -> 0..MaxLeases] /\ revoke \in [Procs -> SUBSET Leases]

BeatTypes ==
  /\ beat \in [Procs -> [Beats -> {"off", "sleep", "renew"}]]
  /\ wait \in [Procs -> [Beats -> 0..Interval]]
  /\ renew \in [Procs -> [Beats -> SUBSET Leases]] /\ missed \in [Procs -> 0..MaxMissed]

ServerTypes ==
  /\ pc \in [Servers -> Locations] /\ lease \in [Servers -> 0..MaxLeases]
  /\ todo \in [Servers -> SUBSET Servers]
  /\ registered \in [Servers -> BOOLEAN] /\ listening \in [Servers -> BOOLEAN]
  /\ kept \in [Servers -> BOOLEAN]

\* Types.
TypeOK == EtcdTypes /\ ClientTypes /\ BeatTypes /\ ServerTypes /\ crashes \in 0..MaxCrashes

(***************************************************************************)
(* Clients find all instances (README.md:773): a server that registered    *)
(* and listens, in a process whose heartbeat runs, has its key in etcd, as *)
(* long as no more than MaxMissed keep-alives in a row are lost            *)
(* (heartbeat_loop, rpc_service_registry.cc:602-632).                      *)
(***************************************************************************)
Discoverable ==
  \A s \in Servers :
    listening[s] /\ kept[s] /\ pc[s] = "Idle"
      => key[s] # 0

(***************************************************************************)
(* What is gone disappears: a server that neither listens nor starts, be   *)
(* it stopped or crashed, is eventually not found any more (README.md:774, *)
(* a server that shuts down is unregistered), or starts again, once its    *)
(* client renews no lease for it: requests that were lost meanwhile, and   *)
(* leases nobody knows, do not keep its key (rpc_service_registry.cc:363,  *)
(* 384-402, 602-632).                                                      *)
(***************************************************************************)
GoneDisappears ==
  \A s \in Servers :
    (~listening[s] /\ pc[s] = "Idle" /\ services[s] = 0)
      ~> (key[s] = 0 \/ listening[s] \/ pc[s] # "Idle")
=============================================================================
