------------------------- MODULE EtcdRegistryProofs -------------------------
(***************************************************************************)
(* Proofs about EtcdRegistry: types, for any servers, processes and        *)
(* heartbeat threads, and that a server which is alone with its service    *)
(* stays in etcd, for any times to live, intervals and losses in between.  *)
(***************************************************************************)
EXTENDS EtcdRegistry, FiniteSetTheorems, TLAPS

-----------------------------------------------------------------------------
(* Types *)

\* A lease is there for every server that is about to ask for one.
InGrant == {t \in Servers : pc[t] = "Grant"}

RoomToGrant == granted + Cardinality(InGrant) <= MaxLeases

TInv == TypeOK /\ RoomToGrant

LEMMA LeasesFacts ==
  /\ Leases \subseteq 0..MaxLeases /\ 0 \notin Leases /\ MaxLeases \in Nat
  /\ 0 \in 0..MaxLeases /\ 0 \in 0..TTL /\ TTL \in 0..TTL
  BY RegistryAssumption DEF Leases

\* The lease ids of a process are leases.
LEMMA LeasesOfType ==
  ASSUME ClientTypes, NEW p \in Procs PROVE LeasesOf(p) \in SUBSET Leases
<1>1. \A s \in Servers : services[s] \in 0..MaxLeases
  BY DEF ClientTypes
<1>2. \A x \in 0..MaxLeases : x # 0 => x \in Leases
  BY RegistryAssumption DEF Leases
<1> QED
  BY <1>1, <1>2 DEF LeasesOf, Of

\* An update for one heartbeat thread of one process.
LEMMA BeatUpdate ==
  ASSUME NEW S, NEW f \in [Procs -> [Beats -> S]], NEW p \in Procs, NEW b \in Beats, NEW v \in S
  PROVE  /\ [f EXCEPT ![p][b] = v] \in [Procs -> [Beats -> S]]
         /\ [f EXCEPT ![p][b] = v][p][b] = v
         /\ \A q \in Procs, c \in Beats : q # p \/ c # b => [f EXCEPT ![p][b] = v][q][c] = f[q][c]
  OBVIOUS

LEMMA DropTypes ==
  ASSUME EtcdTypes, NEW ls, Drop(ls) PROVE EtcdTypes'
<1>1. ttl' \in [Leases -> 0..TTL]
  BY LeasesFacts DEF EtcdTypes, Drop
<1>2. key' \in [Servers -> 0..MaxLeases]
  BY LeasesFacts DEF EtcdTypes, Drop
<1> QED
  BY <1>1, <1>2 DEF EtcdTypes, Drop

\* The servers in Grant, when none comes to it.
LEMMA RoomKept ==
  ASSUME RoomToGrant, granted \in Nat, granted' = granted,
         \A t \in Servers : pc'[t] = "Grant" => pc[t] = "Grant"
  PROVE  RoomToGrant'
<1>1. IsFiniteSet(InGrant) /\ InGrant' \subseteq InGrant
  BY RegistryAssumption, FS_Subset DEF InGrant
<1>2. /\ Cardinality(InGrant') <= Cardinality(InGrant)
      /\ Cardinality(InGrant') \in Nat /\ Cardinality(InGrant) \in Nat
  BY <1>1, FS_Subset, FS_CardinalityType
<1>3. Cardinality(InGrant)' = Cardinality(InGrant')
  OBVIOUS
<1> QED
  BY <1>2, <1>3, RegistryAssumption DEF RoomToGrant

LEMMA InitTInv == Init => TInv
<1> SUFFICES ASSUME Init PROVE TInv
  OBVIOUS
<1>1. EtcdTypes
  BY LeasesFacts DEF Init, EtcdTypes
<1>2. ClientTypes
  <2>1. running \in [Procs -> BOOLEAN]
    BY Zenon DEF Init
  <2> QED
    BY <2>1, LeasesFacts DEF Init, ClientTypes
<1>3. BeatTypes
  BY RegistryAssumption DEF Init, BeatTypes
<1>4. ServerTypes
  <2>1. registered \in [Servers -> BOOLEAN] /\ listening \in [Servers -> BOOLEAN] /\ kept \in [Servers -> BOOLEAN]
    BY Zenon DEF Init
  <2> QED
    BY <2>1, LeasesFacts DEF Init, ServerTypes, Locations
<1>5. crashes \in 0..MaxCrashes
  BY RegistryAssumption DEF Init
<1>6. RoomToGrant
  <2>1. InGrant = {}
    BY DEF Init, InGrant
  <2> QED
    BY <2>1, FS_EmptySet, RegistryAssumption DEF Init, RoomToGrant
<1> QED
  BY <1>1, <1>2, <1>3, <1>4, <1>5, <1>6 DEF TInv, TypeOK

\* start and stop of a client.
LEMMA RegistryTInv ==
  ASSUME TInv, NEW p \in Procs, StartRegistry(p) \/ StopRegistry(p) \/ RevokeLease(p)
  PROVE  EtcdTypes' /\ ClientTypes' /\ BeatTypes' /\ ServerTypes' /\ RoomToGrant'
<1> USE DEF TInv, TypeOK
<1>1. LeasesOf(p) \in SUBSET Leases /\ granted \in Nat /\ Interval \in 0..Interval
  BY LeasesOfType, RegistryAssumption DEF EtcdTypes
<1>2. CASE StartRegistry(p)
  <2>1. UNCHANGED <<etcdVars, current, services, revoke, renew, missed, serverVars>>
    BY <1>2 DEF StartRegistry
  <2>2. running' \in [Procs -> BOOLEAN]
    BY <1>2, Zenon DEF StartRegistry, ClientTypes
  <2>3. ClientTypes'
    BY <2>1, <2>2 DEF ClientTypes
  <2>4. BeatTypes'
    BY <1>1, <1>2, <2>1 DEF StartRegistry, BeatTypes
  <2>5. EtcdTypes' /\ ServerTypes' /\ granted' = granted /\ pc' = pc
    BY <2>1 DEF EtcdTypes, ServerTypes, etcdVars, serverVars
  <2> QED
    BY <1>1, <2>3, <2>4, <2>5, RoomKept
<1>3. CASE StopRegistry(p)
  <2>1. UNCHANGED <<etcdVars, current, beatVars, pc, lease, todo, registered, listening>>
    BY <1>3 DEF StopRegistry
  <2>2. running' \in [Procs -> BOOLEAN] /\ kept' \in [Servers -> BOOLEAN]
    BY <1>3, Zenon DEF StopRegistry, ClientTypes
  <2>3. revoke' \in [Procs -> SUBSET Leases]
    BY <1>1, <1>3 DEF StopRegistry, ClientTypes
  <2>4. services' \in [Servers -> 0..MaxLeases]
    BY <1>3, LeasesFacts DEF StopRegistry, ClientTypes
  <2>5. ClientTypes'
    BY <2>1, <2>2, <2>3, <2>4 DEF ClientTypes
  <2>6. EtcdTypes' /\ BeatTypes' /\ ServerTypes' /\ granted' = granted /\ pc' = pc
    BY <2>1, <2>2 DEF EtcdTypes, BeatTypes, ServerTypes, etcdVars, beatVars
  <2> QED
    BY <1>1, <2>5, <2>6, RoomKept
<1>4. CASE RevokeLease(p)
  <2>1. UNCHANGED <<running, current, services, beatVars, serverVars>>
    BY <1>4 DEF RevokeLease
  <2>2. PICK l \in revoke[p] : /\ revoke' = [revoke EXCEPT ![p] = @ \ {l}]
                               /\ Drop({l}) \/ UNCHANGED etcdVars
    BY <1>4 DEF RevokeLease
  <2>3. ClientTypes'
    BY <2>1, <2>2 DEF ClientTypes
  <2>4. EtcdTypes' /\ granted' = granted
    BY <2>2, DropTypes DEF EtcdTypes, etcdVars, Drop
  <2>5. BeatTypes' /\ ServerTypes' /\ pc' = pc
    BY <2>1 DEF BeatTypes, ServerTypes, beatVars, serverVars
  <2> QED
    BY <1>1, <2>3, <2>4, <2>5, RoomKept
<1> QED
  BY <1>2, <1>3, <1>4

\* heartbeat_loop.
LEMMA BeatTInv ==
  ASSUME TInv, NEW p \in Procs, NEW b \in Beats, Wake(p, b) \/ KeepAlive(p, b) \/ Sleep(p, b)
  PROVE  EtcdTypes' /\ ClientTypes' /\ BeatTypes' /\ ServerTypes' /\ RoomToGrant'
<1> USE DEF TInv, TypeOK
<1>1. LeasesOf(p) \in SUBSET Leases /\ granted \in Nat /\ Interval \in 0..Interval
  BY LeasesOfType, RegistryAssumption DEF EtcdTypes
<1>2. CASE Wake(p, b)
  <2>1. UNCHANGED <<etcdVars, clientVars, wait, missed, serverVars>>
    BY <1>2 DEF Wake
  <2>2. BeatTypes'
    <3> DEFINE S == {"off", "sleep", "renew"}
               U == SUBSET Leases
    <3>1. "off" \in S /\ "renew" \in S /\ LeasesOf(p) \in U
      BY <1>1
    <3>2. beat \in [Procs -> [Beats -> S]] /\ renew \in [Procs -> [Beats -> U]]
      BY DEF BeatTypes
    <3>3. \/ beat' = [beat EXCEPT ![p][b] = "off"] /\ renew' = renew
          \/ beat' = [beat EXCEPT ![p][b] = "renew"] /\ renew' = [renew EXCEPT ![p][b] = LeasesOf(p)]
      BY <1>2 DEF Wake
    <3> HIDE DEF S, U
    <3>4. \A x \in S : [beat EXCEPT ![p][b] = x] \in [Procs -> [Beats -> S]]
      BY <3>2, BeatUpdate
    <3>5. \A x \in U : [renew EXCEPT ![p][b] = x] \in [Procs -> [Beats -> U]]
      BY <3>2, BeatUpdate
    <3>6. beat' \in [Procs -> [Beats -> S]] /\ renew' \in [Procs -> [Beats -> U]]
      BY <3>1, <3>2, <3>3, <3>4, <3>5
    <3> QED
      BY <2>1, <3>6 DEF BeatTypes, S, U
  <2>3. EtcdTypes' /\ ClientTypes' /\ ServerTypes' /\ granted' = granted /\ pc' = pc
    BY <2>1 DEF EtcdTypes, ClientTypes, ServerTypes, etcdVars, clientVars, serverVars
  <2> QED
    BY <1>1, <2>2, <2>3, RoomKept
<1>3. CASE KeepAlive(p, b)
  <2>1. UNCHANGED <<key, granted, clientVars, beat, wait, serverVars>>
    BY <1>3 DEF KeepAlive
  <2>2. ttl' \in [Leases -> 0..TTL]
    BY <1>3, LeasesFacts DEF KeepAlive, EtcdTypes
  <2>3. missed' \in [Procs -> 0..MaxMissed]
    <3>1. missed[p] \in 0..MaxMissed /\ MaxMissed \in Nat
      BY RegistryAssumption DEF BeatTypes
    <3>2. 0 \in 0..MaxMissed /\ (missed[p] < MaxMissed => missed[p] + 1 \in 0..MaxMissed)
      BY <3>1
    <3> QED
      BY <1>3, <3>2 DEF KeepAlive, BeatTypes
  <2>4. renew' \in [Procs -> [Beats -> SUBSET Leases]]
    <3> DEFINE U == SUBSET Leases
    <3>1. PICK ls : renew' = [renew EXCEPT ![p][b] = ls] /\ ls \subseteq renew[p][b]
      BY <1>3 DEF KeepAlive
    <3>2. renew \in [Procs -> [Beats -> U]] /\ ls \in U
      BY <3>1 DEF BeatTypes
    <3> HIDE DEF U
    <3>3. renew' \in [Procs -> [Beats -> U]]
      BY <3>1, <3>2, BeatUpdate
    <3> QED
      BY <3>3 DEF U
  <2>5. EtcdTypes' /\ BeatTypes'
    BY <2>1, <2>2, <2>3, <2>4 DEF EtcdTypes, BeatTypes
  <2>6. ClientTypes' /\ ServerTypes' /\ granted' = granted /\ pc' = pc
    BY <2>1 DEF ClientTypes, ServerTypes, clientVars, serverVars
  <2> QED
    BY <1>1, <2>5, <2>6, RoomKept
<1>4. CASE Sleep(p, b)
  <2>1. UNCHANGED <<etcdVars, clientVars, renew, missed, serverVars>>
    BY <1>4 DEF Sleep
  <2>2. BeatTypes'
    <3> DEFINE S == {"off", "sleep", "renew"}
               I == 0..Interval
    <3>1. "off" \in S /\ "sleep" \in S /\ Interval \in I
      BY <1>1
    <3>2. beat \in [Procs -> [Beats -> S]] /\ wait \in [Procs -> [Beats -> I]]
      BY DEF BeatTypes
    <3>3. \/ beat' = [beat EXCEPT ![p][b] = "off"] /\ wait' = wait
          \/ beat' = [beat EXCEPT ![p][b] = "sleep"] /\ wait' = [wait EXCEPT ![p][b] = Interval]
      BY <1>4 DEF Sleep
    <3> HIDE DEF S, I
    <3>4. \A x \in S : [beat EXCEPT ![p][b] = x] \in [Procs -> [Beats -> S]]
      BY <3>2, BeatUpdate
    <3>5. \A x \in I : [wait EXCEPT ![p][b] = x] \in [Procs -> [Beats -> I]]
      BY <3>2, BeatUpdate
    <3>6. beat' \in [Procs -> [Beats -> S]] /\ wait' \in [Procs -> [Beats -> I]]
      BY <3>1, <3>2, <3>3, <3>4, <3>5
    <3> QED
      BY <2>1, <3>6 DEF BeatTypes, S, I
  <2>3. EtcdTypes' /\ ClientTypes' /\ ServerTypes' /\ granted' = granted /\ pc' = pc
    BY <2>1 DEF EtcdTypes, ClientTypes, ServerTypes, etcdVars, clientVars, serverVars
  <2> QED
    BY <1>1, <2>2, <2>3, RoomKept
<1> QED
  BY <1>2, <1>3, <1>4

\* create_lease: etcd grants the lease there is room for.
LEMMA GrantTInv ==
  ASSUME TInv, NEW s \in Servers, Grant(s) PROVE EtcdTypes' /\ ClientTypes' /\ BeatTypes' /\ ServerTypes' /\ RoomToGrant'
<1> USE DEF TInv, TypeOK
<1>1. /\ pc[s] = "Grant"
      /\ UNCHANGED <<key, running, services, revoke, beatVars, lease, todo, registered, listening, kept>>
  BY DEF Grant
<1>2. /\ \/ EtcdGrants
         \/ UNCHANGED <<granted, ttl>>
      /\ \/ pc' = [pc EXCEPT ![s] = "ReadLease"]
         \/ pc' = [pc EXCEPT ![s] = "Listen"]
      /\ \/ EtcdGrants /\ current' = [current EXCEPT ![Host[s]] = granted + 1]
         \/ UNCHANGED current
  BY DEF Grant, Goto
<1>3. IsFiniteSet(InGrant) /\ s \in InGrant /\ granted \in 0..MaxLeases /\ MaxLeases \in Nat
  BY <1>1, RegistryAssumption, FS_Subset DEF InGrant, EtcdTypes
<1>4. InGrant' = InGrant \ {s}
  BY <1>2 DEF InGrant, ServerTypes
<1>5. Cardinality(InGrant)' = Cardinality(InGrant) - 1 /\ Cardinality(InGrant) \in Nat
  <2>1. Cardinality(InGrant \ {s}) = Cardinality(InGrant) - 1 /\ Cardinality(InGrant) \in Nat
    BY <1>3, FS_RemoveElement, FS_CardinalityType
  <2> QED
    BY <1>4, <2>1
<1>6. Cardinality(InGrant) # 0
  BY <1>3, FS_EmptySet
<1>7. granted + 1 \in 0..MaxLeases /\ granted + 1 \in Leases
  BY <1>3, <1>5, <1>6 DEF RoomToGrant, Leases
<1>8. RoomToGrant'
  BY <1>2, <1>3, <1>5 DEF RoomToGrant, EtcdGrants
<1>9. EtcdTypes'
  BY <1>1, <1>2, <1>7, LeasesFacts DEF EtcdTypes, EtcdGrants
<1>10. ClientTypes'
  BY <1>1, <1>2, <1>7, RegistryAssumption DEF ClientTypes
<1>11. BeatTypes' /\ ServerTypes'
  BY <1>1, <1>2 DEF BeatTypes, ServerTypes, beatVars, Locations
<1> QED
  BY <1>8, <1>9, <1>10, <1>11

LEMMA StartTInv ==
  ASSUME TInv, NEW s \in Servers, Start(s) PROVE EtcdTypes' /\ ClientTypes' /\ BeatTypes' /\ ServerTypes' /\ RoomToGrant'
<1> USE DEF TInv, TypeOK
<1>1. /\ granted + Cardinality(InGrant) < MaxLeases /\ pc[s] = "Idle" /\ pc' = [pc EXCEPT ![s] = "Grant"]
      /\ UNCHANGED <<etcdVars, clientVars, beatVars, lease, todo, registered, listening>>
      /\ kept' = [kept EXCEPT ![s] = FALSE]
  BY DEF Start, Goto, InGrant
<1>2. IsFiniteSet(InGrant) /\ granted \in Nat /\ MaxLeases \in Nat
  BY RegistryAssumption, FS_Subset DEF InGrant, EtcdTypes
<1>3. InGrant' = InGrant \cup {s} /\ s \notin InGrant
  BY <1>1 DEF InGrant, ServerTypes
<1>4. Cardinality(InGrant)' = Cardinality(InGrant) + 1 /\ Cardinality(InGrant) \in Nat
  <2>1. Cardinality(InGrant \cup {s}) = Cardinality(InGrant) + 1 /\ Cardinality(InGrant) \in Nat
    BY <1>2, <1>3, FS_AddElement, FS_CardinalityType
  <2> QED
    BY <1>3, <2>1
<1>5. RoomToGrant'
  BY <1>1, <1>2, <1>4 DEF RoomToGrant, etcdVars
<1>6. kept' \in [Servers -> BOOLEAN]
  BY <1>1, Zenon DEF ServerTypes
<1>7. ServerTypes'
  BY <1>1, <1>6 DEF ServerTypes, Locations
<1>8. EtcdTypes' /\ ClientTypes' /\ BeatTypes'
  BY <1>1 DEF EtcdTypes, ClientTypes, BeatTypes, etcdVars, clientVars, beatVars
<1> QED
  BY <1>5, <1>7, <1>8

\* The other steps of a server.
LEMMA ServerTInv ==
  ASSUME TInv, NEW s \in Servers,
         \/ ReadLease(s) \/ Put(s) \/ Undo(s) \/ Record(s) \/ Listen(s)
         \/ Stop(s) \/ GetKeys(s) \/ Delete(s) \/ StopListening(s)
  PROVE  EtcdTypes' /\ ClientTypes' /\ BeatTypes' /\ ServerTypes' /\ RoomToGrant'
<1> USE DEF TInv, TypeOK
<1>0. granted \in Nat /\ Host[s] \in Procs /\ TRUE \in BOOLEAN /\ FALSE \in BOOLEAN
  BY RegistryAssumption DEF EtcdTypes
<1>1. CASE ReadLease(s)
  <2>1. /\ pc' = [pc EXCEPT ![s] = "Put"] /\ lease' = [lease EXCEPT ![s] = current[Host[s]]]
        /\ UNCHANGED <<etcdVars, clientVars, beatVars, todo, registered, listening, kept>>
    BY <1>1 DEF ReadLease, Goto
  <2>2. ServerTypes' /\ \A t \in Servers : pc'[t] = "Grant" => pc[t] = "Grant"
    BY <1>0, <2>1 DEF ServerTypes, ClientTypes, Locations
  <2>3. EtcdTypes' /\ ClientTypes' /\ BeatTypes' /\ granted' = granted
    BY <2>1 DEF EtcdTypes, ClientTypes, BeatTypes, etcdVars, clientVars, beatVars
  <2> QED
    BY <1>0, <2>2, <2>3, RoomKept
<1>2. CASE Put(s)
  <2>1. /\ pc' = [pc EXCEPT ![s] = "Record"] \/ pc' = [pc EXCEPT ![s] = "Undo"]
        /\ key' = [key EXCEPT ![s] = lease[s]] \/ key' = key
        /\ UNCHANGED <<ttl, granted, clientVars, beatVars, lease, todo, registered, listening, kept>>
    BY <1>2 DEF Put, Goto
  <2>2. ServerTypes' /\ \A t \in Servers : pc'[t] = "Grant" => pc[t] = "Grant"
    BY <2>1 DEF ServerTypes, Locations
  <2>3. EtcdTypes'
    BY <2>1 DEF EtcdTypes, ServerTypes
  <2>4. ClientTypes' /\ BeatTypes' /\ granted' = granted
    BY <2>1 DEF ClientTypes, BeatTypes, clientVars, beatVars
  <2> QED
    BY <1>0, <2>2, <2>3, <2>4, RoomKept
<1>3. CASE Undo(s)
  <2>1. /\ pc' = [pc EXCEPT ![s] = "Listen"]
        /\ Drop({lease[s]}) \/ UNCHANGED etcdVars
        /\ UNCHANGED <<clientVars, beatVars, lease, todo, registered, listening, kept>>
    BY <1>3 DEF Undo, Goto
  <2>2. ServerTypes' /\ \A t \in Servers : pc'[t] = "Grant" => pc[t] = "Grant"
    BY <2>1 DEF ServerTypes, Locations
  <2>3. EtcdTypes' /\ granted' = granted
    BY <2>1, DropTypes DEF EtcdTypes, etcdVars, Drop
  <2>4. ClientTypes' /\ BeatTypes'
    BY <2>1 DEF ClientTypes, BeatTypes, clientVars, beatVars
  <2> QED
    BY <1>0, <2>2, <2>3, <2>4, RoomKept
<1>4. CASE Record(s)
  <2>1. /\ pc' = [pc EXCEPT ![s] = "Listen"] /\ services' = [services EXCEPT ![s] = lease[s]]
        /\ registered' = [registered EXCEPT ![s] = TRUE]
        /\ kept' = [kept EXCEPT ![s] = running[Host[s]]]
        /\ UNCHANGED <<etcdVars, running, current, revoke, beatVars, lease, todo, listening>>
    BY <1>4 DEF Record, Goto
  <2>2. registered' \in [Servers -> BOOLEAN] /\ kept' \in [Servers -> BOOLEAN]
    BY <1>0, <2>1, Zenon DEF ServerTypes, ClientTypes
  <2>3. ServerTypes' /\ \A t \in Servers : pc'[t] = "Grant" => pc[t] = "Grant"
    BY <2>1, <2>2 DEF ServerTypes, Locations
  <2>4. ClientTypes'
    BY <2>1 DEF ClientTypes, ServerTypes
  <2>5. EtcdTypes' /\ BeatTypes' /\ granted' = granted
    BY <2>1 DEF EtcdTypes, BeatTypes, etcdVars, beatVars
  <2> QED
    BY <1>0, <2>3, <2>4, <2>5, RoomKept
<1>5. CASE Listen(s)
  <2>1. /\ pc' = [pc EXCEPT ![s] = "Idle"]
        /\ listening' = [listening EXCEPT ![s] = TRUE] \/ listening' = listening
        /\ UNCHANGED <<etcdVars, clientVars, beatVars, lease, todo, registered, kept>>
    BY <1>5 DEF Listen, Goto
  <2>2. listening' \in [Servers -> BOOLEAN]
    BY <2>1, Zenon DEF ServerTypes
  <2>3. ServerTypes' /\ \A t \in Servers : pc'[t] = "Grant" => pc[t] = "Grant"
    BY <2>1, <2>2 DEF ServerTypes, Locations
  <2>4. EtcdTypes' /\ ClientTypes' /\ BeatTypes' /\ granted' = granted
    BY <2>1 DEF EtcdTypes, ClientTypes, BeatTypes, etcdVars, clientVars, beatVars
  <2> QED
    BY <1>0, <2>3, <2>4, RoomKept
<1>6. CASE Stop(s)
  <2>1. /\ pc' = [pc EXCEPT ![s] = "GetKeys"] \/ pc' = pc
        /\ listening' = [listening EXCEPT ![s] = FALSE] \/ listening' = listening
        /\ UNCHANGED <<etcdVars, clientVars, beatVars, lease, todo, registered, kept>>
    BY <1>6 DEF Stop, Goto
  <2>2. listening' \in [Servers -> BOOLEAN]
    BY <2>1, Zenon DEF ServerTypes
  <2>3. ServerTypes' /\ \A t \in Servers : pc'[t] = "Grant" => pc[t] = "Grant"
    BY <2>1, <2>2 DEF ServerTypes, Locations
  <2>4. EtcdTypes' /\ ClientTypes' /\ BeatTypes' /\ granted' = granted
    BY <2>1 DEF EtcdTypes, ClientTypes, BeatTypes, etcdVars, clientVars, beatVars
  <2> QED
    BY <1>0, <2>3, <2>4, RoomKept
<1>7. CASE GetKeys(s)
  <2>1. /\ pc' = [pc EXCEPT ![s] = "Delete"]
        /\ \E ts \in SUBSET Servers : todo' = [todo EXCEPT ![s] = ts]
        /\ UNCHANGED <<etcdVars, clientVars, beatVars, lease, registered, listening, kept>>
    BY <1>7 DEF GetKeys, Goto
  <2>2. ServerTypes' /\ \A t \in Servers : pc'[t] = "Grant" => pc[t] = "Grant"
    <3>1. todo' \in [Servers -> SUBSET Servers]
      BY <2>1 DEF ServerTypes
    <3> QED
      BY <2>1, <3>1 DEF ServerTypes, Locations
  <2>3. EtcdTypes' /\ ClientTypes' /\ BeatTypes' /\ granted' = granted
    BY <2>1 DEF EtcdTypes, ClientTypes, BeatTypes, etcdVars, clientVars, beatVars
  <2> QED
    BY <1>0, <2>2, <2>3, RoomKept
<1>8. CASE Delete(s)
  <2>1. PICK t \in todo[s] :
          /\ todo' = [todo EXCEPT ![s] = @ \ {t}]
          /\ key' = [key EXCEPT ![t] = 0] \/ key' = key
          /\ services' = [services EXCEPT ![t] = IF Host[t] = Host[s] THEN 0 ELSE @]
          /\ UNCHANGED <<ttl, granted, running, current, revoke, beatVars, pc, lease,
                         registered, listening, kept>>
    BY <1>8 DEF Delete
  <2>2. EtcdTypes'
    BY <2>1, LeasesFacts DEF EtcdTypes
  <2>3. ClientTypes'
    BY <2>1, LeasesFacts DEF ClientTypes
  <2>4. BeatTypes' /\ ServerTypes'
    BY <2>1 DEF BeatTypes, ServerTypes, beatVars
  <2> QED
    BY <1>0, <2>1, <2>2, <2>3, <2>4, RoomKept
<1>9. CASE StopListening(s)
  <2>1. /\ pc' = [pc EXCEPT ![s] = "Idle"] /\ registered' = [registered EXCEPT ![s] = FALSE]
        /\ listening' = [listening EXCEPT ![s] = FALSE]
        /\ UNCHANGED <<etcdVars, clientVars, beatVars, lease, todo, kept>>
    BY <1>9 DEF StopListening, Goto
  <2>2. listening' \in [Servers -> BOOLEAN] /\ registered' \in [Servers -> BOOLEAN]
    BY <2>1, Zenon DEF ServerTypes
  <2>3. ServerTypes' /\ \A t \in Servers : pc'[t] = "Grant" => pc[t] = "Grant"
    BY <2>1, <2>2 DEF ServerTypes, Locations
  <2>4. EtcdTypes' /\ ClientTypes' /\ BeatTypes' /\ granted' = granted
    BY <2>1 DEF EtcdTypes, ClientTypes, BeatTypes, etcdVars, clientVars, beatVars
  <2> QED
    BY <1>0, <2>3, <2>4, RoomKept
<1> QED
  BY <1>1, <1>2, <1>3, <1>4, <1>5, <1>6, <1>7, <1>8, <1>9

LEMMA CrashTInv ==
  ASSUME TInv, NEW p \in Procs, Crash(p) PROVE TInv'
<1> USE DEF TInv, TypeOK
<1>0. granted \in Nat /\ 0 \in 0..MaxMissed
  BY RegistryAssumption DEF EtcdTypes
<1>1. EtcdTypes' /\ granted' = granted
  BY DEF Crash, EtcdTypes, etcdVars
<1>2. ClientTypes'
  <2>1. running' \in [Procs -> BOOLEAN]
    BY Zenon DEF Crash, ClientTypes
  <2> QED
    BY <2>1, LeasesFacts DEF Crash, ClientTypes
<1>3. BeatTypes'
  BY <1>0 DEF Crash, BeatTypes
<1>4. ServerTypes'
  <2>1. registered' \in [Servers -> BOOLEAN] /\ listening' \in [Servers -> BOOLEAN] /\ kept' \in [Servers -> BOOLEAN]
    BY Zenon DEF Crash
  <2> QED
    BY <2>1 DEF Crash, ServerTypes, Locations
<1>5. \A t \in Servers : pc'[t] = "Grant" => pc[t] = "Grant"
  BY DEF Crash
<1>6. crashes' \in 0..MaxCrashes
  BY RegistryAssumption DEF Crash
<1> QED
  BY <1>0, <1>1, <1>2, <1>3, <1>4, <1>5, <1>6, RoomKept

LEMMA TickTInv ==
  ASSUME TInv, Tick PROVE EtcdTypes' /\ ClientTypes' /\ BeatTypes' /\ ServerTypes' /\ RoomToGrant'
<1> USE DEF TInv, TypeOK
<1>1. /\ Prompt /\ UNCHANGED <<granted, clientVars, beat, renew, missed, serverVars>>
      /\ ttl' = [l \in Leases |-> IF ttl[l] > 0 THEN ttl[l] - 1 ELSE 0]
      /\ key' = [s \in Servers |-> IF key[s] # 0 /\ ttl[key[s]] <= 1 THEN 0 ELSE key[s]]
      /\ wait' = [p \in Procs |-> [b \in Beats |->
                  IF beat[p][b] = "sleep" THEN wait[p][b] - 1 ELSE wait[p][b]]]
  BY DEF Tick
<1>2. ttl' \in [Leases -> 0..TTL]
  <2>1. ASSUME NEW l \in Leases PROVE (IF ttl[l] > 0 THEN ttl[l] - 1 ELSE 0) \in 0..TTL
    <3>1. ttl[l] \in 0..TTL /\ TTL \in Nat
      BY RegistryAssumption DEF EtcdTypes
    <3> QED
      BY <3>1
  <2> QED
    BY <1>1, <2>1
<1>3. key' \in [Servers -> 0..MaxLeases]
  BY <1>1, LeasesFacts DEF EtcdTypes
<1>4. wait' \in [Procs -> [Beats -> 0..Interval]]
  <2>1. ASSUME NEW p \in Procs, NEW b \in Beats
        PROVE  (IF beat[p][b] = "sleep" THEN wait[p][b] - 1 ELSE wait[p][b]) \in 0..Interval
    <3>1. wait[p][b] \in 0..Interval /\ Interval \in Nat /\ (beat[p][b] = "sleep" => wait[p][b] > 0)
      BY <1>1, RegistryAssumption DEF BeatTypes, Prompt
    <3> QED
      BY <3>1
  <2> QED
    BY <1>1, <2>1
<1>5. EtcdTypes' /\ BeatTypes'
  BY <1>1, <1>2, <1>3, <1>4 DEF EtcdTypes, BeatTypes
<1>6. ClientTypes' /\ ServerTypes' /\ pc' = pc
  BY <1>1 DEF ClientTypes, ServerTypes, clientVars, serverVars
<1>7. granted \in Nat
  BY RegistryAssumption DEF EtcdTypes
<1> QED
  BY <1>1, <1>5, <1>6, <1>7, RoomKept

LEMMA NextTInv == TInv /\ [Next]_vars => TInv'
<1> SUFFICES ASSUME TInv, [Next]_vars PROVE TInv'
  OBVIOUS
<1>1. ASSUME EtcdTypes' /\ ClientTypes' /\ BeatTypes' /\ ServerTypes' /\ RoomToGrant', UNCHANGED crashes
      PROVE  TInv'
  BY <1>1 DEF TInv, TypeOK
<1>2. CASE Time
  BY <1>1, <1>2, TickTInv DEF Time
<1>3. ASSUME NEW s \in Servers, Start(s) \/ Stop(s), UNCHANGED crashes PROVE TInv'
  BY <1>1, <1>3, StartTInv, ServerTInv
<1>4. ASSUME NEW p \in Procs, StartRegistry(p) \/ StopRegistry(p), UNCHANGED crashes PROVE TInv'
  BY <1>1, <1>4, RegistryTInv
<1>5. ASSUME NEW p \in Procs, RevokeStep(p) PROVE TInv'
  BY <1>1, <1>5, RegistryTInv DEF RevokeStep
<1>6. ASSUME NEW p \in Procs, BeatStep(p) PROVE TInv'
  BY <1>1, <1>6, BeatTInv DEF BeatStep
<1>7. ASSUME NEW p \in Procs, Crash(p) PROVE TInv'
  BY <1>7, CrashTInv
<1>8. ASSUME NEW s \in Servers, ServerStep(s) PROVE TInv'
  BY <1>1, <1>8, GrantTInv, ServerTInv DEF ServerStep
<1>9. CASE UNCHANGED vars
  <2>1. UNCHANGED <<ttl, key, granted, running, current, services, revoke, beat, wait, renew, missed,
                    pc, lease, todo, registered, listening, kept, crashes>>
    BY <1>9 DEF vars, etcdVars, beatVars, clientVars, serverVars
  <2> QED
    BY <2>1 DEF TInv, TypeOK, EtcdTypes, ClientTypes, BeatTypes, ServerTypes, RoomToGrant, InGrant
<1> QED
  BY <1>2, <1>3, <1>4, <1>5, <1>6, <1>7, <1>8, <1>9 DEF Next, UserStep

(***************************************************************************)
(* Types, for any servers and processes; in particular a lease is granted  *)
(* for everyone who asks, and no lease id is ever used that was not.       *)
(***************************************************************************)
THEOREM RegistryTypes == Spec => []TypeOK
<1>1. TInv => TypeOK
  BY DEF TInv
<1> QED
  BY <1>1, InitTInv, NextTInv, PTL DEF Spec

-----------------------------------------------------------------------------
(***************************************************************************)
(* A server that is alone stays in etcd.                                   *)
(*                                                                         *)
(* The inductive invariant: the lease of a server that is serving lives    *)
(* longer than the heartbeat needs, whichever of its threads is next and   *)
(* however many of the keep-alives that may still be lost are lost.  A     *)
(* thread may be in a round it began before the server got its lease; then *)
(* that lease is as young as it can be.                                    *)
(***************************************************************************)
Alone == \A s, t \in Servers : s = t

\* The time to live covers a round more than may be missed.
Tolerant == TTL > Interval + MaxMissed * Interval

\* The time the keep-alives that may still be lost can cost.
Slack(m) == (MaxMissed - m) * Interval

ThreadsSound ==
  /\ \A p \in Procs : running[p] => \E b \in Beats : beat[p][b] # "off"
  /\ \A p \in Procs : \A b \in Beats : beat[p][b] # "renew" => renew[p][b] = {}

LeasesSound ==
  /\ \A s \in Servers : services[s] <= granted
  /\ \A p \in Procs : \A l \in revoke[p] : l <= granted

\* Nobody knows the lease l yet but the server that has it from etcd.
NewLease(s, l) ==
  /\ l = granted /\ l \in Leases /\ ttl[l] = TTL
  /\ services[s] # l /\ \A q \in Procs : l \notin revoke[q]

RegisteringSound(s) ==
  /\ pc[s] = "ReadLease" => NewLease(s, current[Host[s]])
  /\ pc[s] \in {"Put", "Record"} => NewLease(s, lease[s])
  /\ pc[s] = "Record" => key[s] = lease[s]
  /\ pc[s] \in {"Grant", "ReadLease", "Put", "Undo", "Record"} => ~kept[s]

Serving(s) == kept[s] /\ (pc[s] = "Listen" \/ (pc[s] = "Idle" /\ listening[s]))

\* Thread b of process p renews the lease l in time.
InTime(p, b, l) ==
  /\ beat[p][b] = "sleep" => ttl[l] > wait[p][b] + Slack(missed[p])
  /\ beat[p][b] = "renew" /\ l \in renew[p][b] => ttl[l] > Slack(missed[p])
  /\ beat[p][b] = "renew" /\ l \notin renew[p][b] => ttl[l] > Interval + Slack(missed[p])
  /\ (\E x \in renew[p][b] : x # l) => ttl[l] = TTL

Held(s) ==
  /\ services[s] \in Leases /\ key[s] = services[s] /\ running[Host[s]]
  /\ \A q \in Procs : services[s] \notin revoke[q]
  /\ \A b \in Beats : InTime(Host[s], b, services[s])

DInv ==
  /\ TInv /\ ThreadsSound /\ LeasesSound
  /\ \A s \in Servers : RegisteringSound(s) /\ (Serving(s) => Held(s))

\* What every step but the types keeps.
DRest == ThreadsSound /\ LeasesSound /\ \A s \in Servers : RegisteringSound(s) /\ (Serving(s) => Held(s))

LEMMA SlackFacts ==
  /\ MaxMissed * Interval \in Nat /\ Interval \in Nat /\ TTL \in Nat
  /\ \A m \in 0..MaxMissed : Slack(m) \in Nat /\ Slack(m) <= MaxMissed * Interval
  /\ \A m \in 0..MaxMissed : m < MaxMissed => Slack(m) = Interval + Slack(m + 1)
<1>1. MaxMissed \in Nat /\ Interval \in Nat /\ TTL \in Nat
  BY RegistryAssumption
<1>2. \A a \in Nat : a * Interval \in Nat
  BY <1>1
<1>3. ASSUME NEW m \in 0..MaxMissed
      PROVE  /\ Slack(m) \in Nat /\ Slack(m) <= MaxMissed * Interval
             /\ m < MaxMissed => Slack(m) = Interval + Slack(m + 1)
  <2>1. MaxMissed - m \in Nat /\ m \in Nat /\ m * Interval \in Nat
    BY <1>1, <1>2
  <2>2. (MaxMissed - m) * Interval = MaxMissed * Interval - m * Interval
    BY <1>1, <2>1
  <2>3. (MaxMissed - (m + 1)) * Interval = MaxMissed * Interval - m * Interval - Interval
    BY <1>1, <2>1
  <2>4. Slack(m) \in Nat
    BY <1>2, <2>1 DEF Slack
  <2>5. MaxMissed * Interval \in Nat
    BY <1>1, <1>2
  <2> QED
    BY <1>1, <2>1, <2>2, <2>3, <2>4, <2>5 DEF Slack
<1> QED
  BY <1>1, <1>2, <1>3

LEMMA YoungFacts ==
  ASSUME Tolerant, NEW w \in 0..Interval, NEW m \in 0..MaxMissed
  PROVE  TTL > Interval + Slack(m) /\ TTL > Slack(m) /\ TTL > w + Slack(m)
<1> DEFINE S == Slack(m)
           K == MaxMissed * Interval
<1>1. TTL > Interval + K /\ Interval \in Nat /\ TTL \in Nat /\ K \in Nat /\ S \in Nat /\ S <= K
  BY SlackFacts DEF Tolerant
<1> HIDE DEF S, K
<1>2. TTL > Interval + S /\ TTL > S /\ TTL > w + S
  BY <1>1
<1> QED
  BY <1>2 DEF S

\* A lease at its full life is renewed in time by any thread.
LEMMA YoungInTime ==
  ASSUME Tolerant, BeatTypes', NEW p \in Procs, NEW b \in Beats, NEW l, ttl'[l] = TTL
  PROVE  InTime(p, b, l)'
<1>1. wait'[p][b] \in 0..Interval /\ missed'[p] \in 0..MaxMissed
  BY DEF BeatTypes
<1>2. TTL > Interval + Slack(missed'[p]) /\ TTL > Slack(missed'[p]) /\ TTL > wait'[p][b] + Slack(missed'[p])
  BY <1>1, YoungFacts
<1> QED
  BY <1>2 DEF InTime, Slack

\* With one server, a process without it has no lease, and its own has one.
LEMMA AloneLeases ==
  ASSUME Alone, NEW p \in Procs, NEW s \in Servers
  PROVE  LeasesOf(p) = IF Host[s] = p /\ services[s] # 0 THEN {services[s]} ELSE {}
  BY DEF Alone, LeasesOf, Of

LEMMA InitDRest == Init => DRest
<1> SUFFICES ASSUME Init PROVE DRest
  OBVIOUS
<1>1. ThreadsSound
  BY DEF Init, ThreadsSound
<1>2. LeasesSound
  BY DEF Init, LeasesSound
<1>3. ASSUME NEW s \in Servers PROVE RegisteringSound(s) /\ ~Serving(s)
  BY DEF Init, RegisteringSound, Serving
<1> QED
  BY <1>1, <1>2, <1>3 DEF DRest

\* A lease that stays as it was, for threads that stay as they were.
LEMMA InTimeFrame ==
  ASSUME NEW p \in Procs, NEW b \in Beats, NEW l, InTime(p, b, l),
         ttl'[l] = ttl[l], missed'[p] = missed[p],
         beat'[p][b] = beat[p][b], wait'[p][b] = wait[p][b], renew'[p][b] = renew[p][b]
  PROVE  InTime(p, b, l)'
  BY DEF InTime, Slack

LEMMA StartRegistryDRest ==
  ASSUME DInv, NEW p \in Procs, StartRegistry(p) PROVE DRest'
<1>1. /\ ~running[p] /\ running' = [running EXCEPT ![p] = TRUE]
      /\ UNCHANGED <<etcdVars, current, services, revoke, renew, missed, serverVars>>
  BY DEF StartRegistry
<1>2. PICK b \in Beats : /\ beat[p][b] = "off" /\ beat' = [beat EXCEPT ![p][b] = "sleep"]
                         /\ wait' = [wait EXCEPT ![p][b] = Interval]
  BY DEF StartRegistry
<1>3. /\ beat'[p][b] = "sleep"
      /\ \A q \in Procs, c \in Beats : q # p \/ c # b => beat'[q][c] = beat[q][c] /\ wait'[q][c] = wait[q][c]
      /\ running'[p] /\ \A q \in Procs : q # p => running'[q] = running[q]
  BY <1>1, <1>2 DEF DInv, TInv, TypeOK, BeatTypes, ClientTypes
<1>4. ThreadsSound'
  BY <1>1, <1>2, <1>3 DEF DInv, ThreadsSound
<1>5. LeasesSound'
  BY <1>1 DEF DInv, LeasesSound, etcdVars
<1>6. ASSUME NEW s \in Servers PROVE RegisteringSound(s)' /\ (Serving(s)' => Held(s)')
  <2>1. RegisteringSound(s)'
    BY <1>1 DEF DInv, RegisteringSound, NewLease, etcdVars, serverVars
  <2>2. Serving(s)' => Serving(s)
    BY <1>1 DEF Serving, serverVars
  <2>3. ASSUME Serving(s) PROVE Held(s)'
    <3>1. Held(s) /\ Host[s] \in Procs
      BY <2>3, RegistryAssumption DEF DInv
    <3>2. Host[s] # p
      BY <1>1, <3>1 DEF Held
    <3>3. \A c \in Beats : InTime(Host[s], c, services[s])'
      BY <1>1, <1>3, <3>1, <3>2, InTimeFrame DEF Held, etcdVars, InTime, Slack
    <3> QED
      BY <1>1, <1>3, <3>1, <3>2, <3>3 DEF Held, etcdVars
  <2> QED
    BY <2>1, <2>2, <2>3
<1> QED
  BY <1>4, <1>5, <1>6 DEF DRest

LEMMA StopRegistryDRest ==
  ASSUME Alone, DInv, NEW p \in Procs, StopRegistry(p) PROVE DRest'
<1>1. /\ running' = [running EXCEPT ![p] = FALSE]
      /\ revoke' = [revoke EXCEPT ![p] = @ \cup LeasesOf(p)]
      /\ services' = [s \in Servers |-> IF Host[s] = p THEN 0 ELSE services[s]]
      /\ kept' = [s \in Servers |-> Host[s] # p /\ kept[s]]
      /\ UNCHANGED <<etcdVars, current, beatVars, pc, lease, todo, registered, listening>>
  BY DEF StopRegistry
<1>2. /\ ~running'[p] /\ \A q \in Procs : q # p => running'[q] = running[q]
      /\ revoke'[p] = revoke[p] \cup LeasesOf(p) /\ \A q \in Procs : q # p => revoke'[q] = revoke[q]
  BY <1>1 DEF DInv, TInv, TypeOK, ClientTypes
<1>3. granted \in Nat
  BY RegistryAssumption DEF DInv, TInv, TypeOK, EtcdTypes
<1>4. ThreadsSound'
  BY <1>1, <1>2 DEF DInv, ThreadsSound, beatVars
<1>5. LeasesSound'
  <2>1. \A l \in LeasesOf(p) : l <= granted
    BY DEF DInv, LeasesSound, LeasesOf, Of
  <2> QED
    BY <1>1, <1>2, <1>3, <2>1 DEF DInv, LeasesSound, etcdVars
<1>6. ASSUME NEW s \in Servers PROVE RegisteringSound(s)' /\ (Serving(s)' => Held(s)')
  <2>1. LeasesOf(p) = IF Host[s] = p /\ services[s] # 0 THEN {services[s]} ELSE {}
    BY AloneLeases
  <2>2. ASSUME NEW l, NewLease(s, l) PROVE NewLease(s, l)'
    <3>1. l # 0
      BY <2>2, LeasesFacts DEF NewLease
    <3> QED
      BY <1>1, <1>2, <2>1, <2>2, <3>1 DEF NewLease, etcdVars
  <2>3. RegisteringSound(s)'
    BY <1>1, <2>2 DEF DInv, RegisteringSound, etcdVars
  <2>4. Serving(s)' => Serving(s) /\ Host[s] # p
    BY <1>1 DEF Serving
  <2>5. ASSUME Serving(s), Host[s] # p PROVE Held(s)'
    <3>1. Held(s) /\ Host[s] \in Procs
      BY <2>5, RegistryAssumption DEF DInv
    <3>2. services'[s] = services[s] /\ revoke'[p] = revoke[p]
      BY <1>1, <1>2, <2>1, <2>5
    <3>3. \A c \in Beats : InTime(Host[s], c, services[s])'
      BY <1>1, <3>1, <3>2 DEF Held, InTime, Slack, beatVars, etcdVars
    <3> QED
      BY <1>1, <1>2, <2>5, <3>1, <3>2, <3>3 DEF Held, etcdVars
  <2> QED
    BY <2>3, <2>4, <2>5
<1> QED
  BY <1>4, <1>5, <1>6 DEF DRest

LEMMA RevokeDRest ==
  ASSUME DInv, NEW p \in Procs, RevokeLease(p) PROVE DRest'
<1>1. UNCHANGED <<running, current, services, beatVars, serverVars>>
  BY DEF RevokeLease
<1>2. PICK l \in revoke[p] : /\ revoke' = [revoke EXCEPT ![p] = @ \ {l}]
                             /\ Drop({l}) \/ UNCHANGED etcdVars
  BY DEF RevokeLease
<1>3. granted' = granted /\ \A q \in Procs : revoke'[q] \subseteq revoke[q]
  BY <1>2 DEF Drop, etcdVars, DInv, TInv, TypeOK, ClientTypes
<1>4. /\ \A x \in Leases : x # l => ttl'[x] = ttl[x]
      /\ \A s \in Servers : key[s] # l => key'[s] = key[s]
  BY <1>2 DEF Drop, etcdVars
<1>5. ThreadsSound'
  BY <1>1 DEF DInv, ThreadsSound, beatVars
<1>6. LeasesSound'
  BY <1>1, <1>3 DEF DInv, LeasesSound
<1>7. ASSUME NEW s \in Servers PROVE RegisteringSound(s)' /\ (Serving(s)' => Held(s)')
  <2>1. ASSUME NEW x, NewLease(s, x) PROVE NewLease(s, x)' /\ x # l
    BY <1>1, <1>2, <1>3, <1>4, <2>1 DEF NewLease
  <2>2. RegisteringSound(s)'
    BY <1>1, <1>4, <2>1 DEF DInv, RegisteringSound, serverVars
  <2>3. Serving(s)' => Serving(s)
    BY <1>1 DEF Serving, serverVars
  <2>4. ASSUME Serving(s) PROVE Held(s)'
    <3>1. Held(s) /\ Host[s] \in Procs
      BY <2>4, RegistryAssumption DEF DInv
    <3>2. services[s] # l /\ services[s] \in Leases
      BY <1>2, <3>1 DEF Held
    <3>3. ttl'[services[s]] = ttl[services[s]] /\ key'[s] = key[s]
      BY <1>4, <3>1, <3>2 DEF Held
    <3>4. \A c \in Beats : InTime(Host[s], c, services[s])'
      BY <1>1, <3>1, <3>3 DEF Held, InTime, Slack, beatVars
    <3> QED
      BY <1>1, <1>3, <3>1, <3>3, <3>4 DEF Held
  <2> QED
    BY <2>2, <2>3, <2>4
<1> QED
  BY <1>5, <1>6, <1>7 DEF DRest

\* heartbeat_loop wakes up: a thread of a running client takes every lease of it.
LEMMA WakeDRest ==
  ASSUME Alone, DInv, NEW p \in Procs, NEW b \in Beats, Wake(p, b) PROVE DRest'
<1> USE DEF DInv, TInv, TypeOK
<1>1. /\ beat[p][b] = "sleep" /\ wait[p][b] = 0
      /\ UNCHANGED <<etcdVars, clientVars, wait, missed, serverVars>>
      /\ \/ ~running[p] /\ beat' = [beat EXCEPT ![p][b] = "off"] /\ renew' = renew
         \/ running[p] /\ beat' = [beat EXCEPT ![p][b] = "renew"] /\ renew' = [renew EXCEPT ![p][b] = LeasesOf(p)]
  BY DEF Wake
<1>2. /\ \A q \in Procs, c \in Beats : q # p \/ c # b => beat'[q][c] = beat[q][c] /\ renew'[q][c] = renew[q][c]
      /\ \/ ~running[p] /\ beat'[p][b] = "off" /\ renew'[p][b] = renew[p][b]
         \/ running[p] /\ beat'[p][b] = "renew" /\ renew'[p][b] = LeasesOf(p)
  BY <1>1 DEF BeatTypes
<1>3. ThreadsSound'
  BY <1>1, <1>2 DEF ThreadsSound, clientVars
<1>4. LeasesSound'
  BY <1>1 DEF LeasesSound, etcdVars, clientVars
<1>5. ASSUME NEW s \in Servers PROVE RegisteringSound(s)' /\ (Serving(s)' => Held(s)')
  <2>1. RegisteringSound(s)'
    BY <1>1 DEF RegisteringSound, NewLease, etcdVars, clientVars, serverVars
  <2>2. Serving(s)' => Serving(s)
    BY <1>1 DEF Serving, serverVars
  <2>3. ASSUME Serving(s) PROVE Held(s)'
    <3>1. Held(s) /\ Host[s] \in Procs /\ services[s] # 0
      BY <2>3, RegistryAssumption, LeasesFacts DEF Held
    <3>2. ASSUME NEW c \in Beats, Host[s] # p \/ c # b PROVE InTime(Host[s], c, services[s])'
      BY <1>1, <1>2, <3>1, <3>2 DEF Held, InTime, Slack, etcdVars, clientVars
    <3>3. ASSUME Host[s] = p PROVE InTime(p, b, services[s])'
      <4>1. beat'[p][b] = "renew" /\ renew'[p][b] = {services[s]}
        BY <1>2, <3>1, <3>3, AloneLeases DEF Held
      <4>2. ttl[services[s]] > 0 + Slack(missed[p]) /\ missed[p] \in 0..MaxMissed
        BY <1>1, <3>1, <3>3 DEF Held, InTime, BeatTypes
      <4>3. ttl[services[s]] > Slack(missed[p])
        BY <4>2, SlackFacts
      <4>4. services' = services /\ ttl' = ttl /\ missed' = missed
        BY <1>1 DEF etcdVars, clientVars
      <4> QED
        BY <4>1, <4>3, <4>4 DEF InTime, Slack
    <3>4. \A c \in Beats : InTime(Host[s], c, services[s])'
      BY <3>2, <3>3
    <3> QED
      BY <1>1, <3>1, <3>4 DEF Held, etcdVars, clientVars
  <2> QED
    BY <2>1, <2>2, <2>3
<1> QED
  BY <1>3, <1>4, <1>5 DEF DRest

\* The end of a round: the leases it did not leave out are renewed before the next.
LEMMA SleepDRest ==
  ASSUME DInv, NEW p \in Procs, NEW b \in Beats, Sleep(p, b) PROVE DRest'
<1> USE DEF DInv, TInv, TypeOK
<1>1. /\ beat[p][b] = "renew" /\ renew[p][b] = {}
      /\ UNCHANGED <<etcdVars, clientVars, renew, missed, serverVars>>
      /\ \/ ~running[p] /\ beat' = [beat EXCEPT ![p][b] = "off"] /\ wait' = wait
         \/ running[p] /\ beat' = [beat EXCEPT ![p][b] = "sleep"] /\ wait' = [wait EXCEPT ![p][b] = Interval]
  BY DEF Sleep
<1>2. /\ \A q \in Procs, c \in Beats : q # p \/ c # b => beat'[q][c] = beat[q][c] /\ wait'[q][c] = wait[q][c]
      /\ \/ ~running[p] /\ beat'[p][b] = "off"
         \/ running[p] /\ beat'[p][b] = "sleep" /\ wait'[p][b] = Interval
  BY <1>1 DEF BeatTypes
<1>3. ThreadsSound'
  BY <1>1, <1>2 DEF ThreadsSound, clientVars
<1>4. LeasesSound'
  BY <1>1 DEF LeasesSound, etcdVars, clientVars
<1>5. ASSUME NEW s \in Servers PROVE RegisteringSound(s)' /\ (Serving(s)' => Held(s)')
  <2>1. RegisteringSound(s)'
    BY <1>1 DEF RegisteringSound, NewLease, etcdVars, clientVars, serverVars
  <2>2. Serving(s)' => Serving(s)
    BY <1>1 DEF Serving, serverVars
  <2>3. ASSUME Serving(s) PROVE Held(s)'
    <3>1. Held(s) /\ Host[s] \in Procs
      BY <2>3, RegistryAssumption DEF Held
    <3>2. ASSUME NEW c \in Beats, Host[s] # p \/ c # b PROVE InTime(Host[s], c, services[s])'
      BY <1>1, <1>2, <3>1, <3>2 DEF Held, InTime, Slack, etcdVars, clientVars
    <3>3. ASSUME Host[s] = p PROVE InTime(p, b, services[s])'
      BY <1>1, <1>2, <3>1, <3>3 DEF Held, InTime, Slack, etcdVars, clientVars
    <3>4. \A c \in Beats : InTime(Host[s], c, services[s])'
      BY <3>2, <3>3
    <3> QED
      BY <1>1, <3>1, <3>4 DEF Held, etcdVars, clientVars
  <2> QED
    BY <2>1, <2>2, <2>3
<1> QED
  BY <1>3, <1>4, <1>5 DEF DRest

\* A lost keep-alive of thread b: its lease waits for the next round of b, and the
\* other threads have less to lose than before.
LEMMA LostInTime ==
  ASSUME NEW p \in Procs, NEW b \in Beats, NEW c \in Beats, NEW l, NEW x, BeatTypes, InTime(p, c, l),
         ttl[l] \in Nat, x = l, x \in renew[p][b], beat[p][b] = "renew",
         missed[p] < MaxMissed, missed'[p] = missed[p] + 1, ttl'[l] = ttl[l],
         beat'[p][c] = beat[p][c], wait'[p][c] = wait[p][c],
         renew'[p][c] = IF c = b THEN renew[p][c] \ {x} ELSE renew[p][c]
  PROVE  InTime(p, c, l)'
<1> DEFINE S == Slack(missed[p])
           T == Slack(missed[p] + 1)
<1>1. missed[p] \in 0..MaxMissed /\ missed[p] + 1 \in 0..MaxMissed /\ wait[p][c] \in Nat /\ Interval \in Nat
  BY RegistryAssumption DEF BeatTypes
<1>2. S \in Nat /\ T \in Nat /\ S = Interval + T
  BY <1>1, SlackFacts
<1>3. Slack(missed[p])' = T
  BY DEF Slack
<1> HIDE DEF S, T
<1>4. /\ beat[p][c] = "sleep" => ttl[l] > wait[p][c] + S
      /\ beat[p][c] = "renew" /\ l \in renew[p][c] => ttl[l] > S
      /\ beat[p][c] = "renew" /\ l \notin renew[p][c] => ttl[l] > Interval + S
      /\ (\E y \in renew[p][c] : y # l) => ttl[l] = TTL
  BY DEF InTime, S
<1>5. /\ beat[p][c] = "sleep" => ttl[l] > wait[p][c] + T
      /\ beat[p][c] = "renew" /\ l \in renew[p][c] => ttl[l] > Interval + T /\ ttl[l] > T
      /\ beat[p][c] = "renew" /\ l \notin renew[p][c] => ttl[l] > Interval + T
  BY <1>1, <1>2, <1>4
<1> QED
  BY <1>3, <1>4, <1>5 DEF InTime

LEMMA KeepAliveDRest ==
  ASSUME Tolerant, DInv, BeatTypes', NEW p \in Procs, NEW b \in Beats, KeepAlive(p, b) PROVE DRest'
<1> USE DEF DInv, TInv, TypeOK
<1>1. /\ beat[p][b] = "renew" /\ UNCHANGED <<key, granted, clientVars, beat, wait, serverVars>>
  BY DEF KeepAlive
<1>2. PICK ls : renew' = [renew EXCEPT ![p][b] = ls] /\ ls \subseteq renew[p][b]
  BY DEF KeepAlive
<1>3. /\ \A q \in Procs, c \in Beats : q # p \/ c # b => renew'[q][c] = renew[q][c]
      /\ renew'[p][b] = ls
  BY <1>2 DEF BeatTypes
<1>4. /\ \A l \in Leases : ttl'[l] = ttl[l] \/ ttl'[l] = TTL
      /\ \A q \in Procs : q # p => missed'[q] = missed[q]
  BY DEF KeepAlive, EtcdTypes, BeatTypes
<1>5. ThreadsSound'
  BY <1>1, <1>2, <1>3 DEF ThreadsSound, clientVars
<1>6. LeasesSound'
  BY <1>1 DEF LeasesSound, clientVars
<1>7. ASSUME NEW s \in Servers PROVE RegisteringSound(s)' /\ (Serving(s)' => Held(s)')
  <2>1. ASSUME NEW l, NewLease(s, l) PROVE NewLease(s, l)'
    BY <1>1, <1>4, <2>1 DEF NewLease, clientVars
  <2>2. RegisteringSound(s)'
    BY <1>1, <2>1 DEF RegisteringSound, clientVars, serverVars
  <2>3. Serving(s)' => Serving(s)
    BY <1>1 DEF Serving, serverVars
  <2>4. ASSUME Serving(s) PROVE Held(s)'
    <3>1. Held(s) /\ services[s] \in Leases /\ Host[s] \in Procs
      BY <2>4, RegistryAssumption DEF Held
    <3>2. PICK l \in Leases, h \in Procs : l = services[s] /\ h = Host[s]
      BY <3>1
    <3>3. running[h] /\ \A c \in Beats : InTime(h, c, l)
      BY <3>1, <3>2 DEF Held
    <3>4. ASSUME NEW c \in Beats PROVE InTime(h, c, l)'
      <4>1. beat' = beat /\ wait' = wait /\ InTime(h, c, l) /\ InTime(h, b, l)
        BY <1>1, <3>3
      <4>2. CASE ttl'[l] = TTL
        BY <4>2, YoungInTime
      <4>3. CASE ttl'[l] # TTL /\ h # p
        <5>1. ttl'[l] = ttl[l] /\ missed'[h] = missed[h] /\ renew'[h][c] = renew[h][c]
          BY <1>3, <1>4, <4>3
        <5> QED
          BY <4>1, <5>1, InTimeFrame
      <4>4. CASE ttl'[l] # TTL /\ h = p
        <5>1. PICK x \in renew[p][b] :
                /\ renew' = [renew EXCEPT ![p][b] = @ \ {x}]
                /\ \/ ttl' = [ttl EXCEPT ![x] = IF @ > 0 THEN TTL ELSE 0]
                   \/ missed[p] < MaxMissed /\ missed' = [missed EXCEPT ![p] = @ + 1] /\ ttl' = ttl
          BY <3>3, <4>4 DEF KeepAlive
        <5>2. x = l
          <6>1. ttl[l] = TTL => ttl'[l] = TTL
            BY <1>4
          <6> QED
            BY <4>1, <4>4, <6>1 DEF InTime
        <5>3. ttl[l] > 0 /\ ttl[l] \in Nat
          <6>1. ttl[l] > Slack(missed[p]) /\ missed[p] \in 0..MaxMissed /\ ttl[l] \in Nat
            BY <1>1, <4>1, <4>4, <5>2, RegistryAssumption DEF InTime, BeatTypes, EtcdTypes
          <6> QED
            BY <6>1, SlackFacts
        <5>4. missed[p] < MaxMissed /\ missed' = [missed EXCEPT ![p] = @ + 1] /\ ttl' = ttl
          BY <4>4, <5>1, <5>2, <5>3 DEF EtcdTypes
        <5>5. missed'[p] = missed[p] + 1 /\ renew'[p][c] = IF c = b THEN renew[p][c] \ {x} ELSE renew[p][c]
          BY <5>1, <5>4 DEF BeatTypes
        <5>6. BeatTypes /\ InTime(p, c, l) /\ beat'[p][c] = beat[p][c] /\ wait'[p][c] = wait[p][c] /\ ttl'[l] = ttl[l]
          BY <4>1, <4>4, <5>4
        <5>7. InTime(p, c, l)'
          BY <1>1, <5>1, <5>2, <5>3, <5>4, <5>5, <5>6, LostInTime
        <5> QED
          BY <4>4, <5>7
      <4> QED
        BY <4>2, <4>3, <4>4
    <3>5. services'[s] = l /\ \A c \in Beats : InTime(Host[s], c, services[s])'
      BY <1>1, <3>2, <3>4 DEF clientVars, InTime
    <3> QED
      BY <1>1, <3>1, <3>5 DEF Held, clientVars
  <2> QED
    BY <2>2, <2>3, <2>4
<1> QED
  BY <1>5, <1>6, <1>7 DEF DRest

\* What a step of a server leaves alone.
LEMMA ServerFrame ==
  ASSUME DInv, UNCHANGED <<running, revoke, beatVars>>, granted' = granted,
         NEW s \in Servers, services'[s] = services[s], key'[s] = key[s], ttl' = ttl
  PROVE  /\ Held(s) => Held(s)'
         /\ \A l : NewLease(s, l) => NewLease(s, l)'
<1>1. ASSUME Held(s) PROVE Held(s)'
  <2>1. \A b \in Beats : InTime(Host[s], b, services[s])'
    BY <1>1 DEF Held, InTime, Slack, beatVars
  <2> QED
    BY <1>1, <2>1 DEF Held
<1>2. ASSUME NEW l, NewLease(s, l) PROVE NewLease(s, l)'
  BY <1>2 DEF NewLease
<1> QED
  BY <1>1, <1>2

LEMMA ThreadsFrame ==
  ASSUME DInv, UNCHANGED <<running, beatVars>> PROVE ThreadsSound'
  BY DEF DInv, ThreadsSound, beatVars

\* register_service gets its lease; the server is not serving meanwhile.
LEMMA RegisterDRest ==
  ASSUME Alone, Tolerant, DInv, BeatTypes', NEW s \in Servers,
         Start(s) \/ Grant(s) \/ ReadLease(s) \/ Put(s) \/ Undo(s) \/ Record(s)
  PROVE  DRest'
<1> USE DEF DInv, TInv, TypeOK
<1>0. /\ Host[s] \in Procs /\ granted \in Nat /\ \A t \in Servers : t = s
      /\ \A t \in Servers : pc[t] \in Locations /\ services[t] <= granted /\ services[t] \in Nat
      /\ \A q \in Procs : \A l \in revoke[q] : l <= granted /\ l \in Nat
  BY RegistryAssumption DEF Alone, EtcdTypes, ServerTypes, ClientTypes, LeasesSound, Leases
<1>1. CASE Start(s)
  <2>1. /\ pc[s] = "Idle" /\ pc'[s] = "Grant" /\ kept'[s] = FALSE
        /\ UNCHANGED <<etcdVars, clientVars, beatVars, lease, todo, registered, listening>>
    BY <1>1 DEF Start, Goto, ServerTypes
  <2>2. RegisteringSound(s)' /\ ~Serving(s)'
    BY <2>1 DEF RegisteringSound, Serving
  <2>3. ThreadsSound' /\ LeasesSound'
    BY <2>1, ThreadsFrame DEF LeasesSound, clientVars, etcdVars
  <2> QED
    BY <1>0, <2>2, <2>3 DEF DRest
<1>2. CASE Grant(s)
  <2>1. /\ pc[s] = "Grant" /\ ~kept[s]
        /\ UNCHANGED <<key, running, services, revoke, beatVars, lease, todo, registered, listening, kept>>
    BY <1>2 DEF Grant, RegisteringSound
  <2>2. \/ pc'[s] = "ReadLease" /\ EtcdGrants /\ current'[Host[s]] = granted + 1
        \/ pc'[s] = "Listen" /\ (EtcdGrants \/ UNCHANGED <<granted, ttl>>)
    BY <1>0, <1>2 DEF Grant, Goto, ServerTypes, ClientTypes
  <2>3. ThreadsSound' /\ LeasesSound'
    <3>1. granted' = granted \/ granted' = granted + 1
      BY <2>2 DEF EtcdGrants
    <3> QED
      BY <1>0, <2>1, <3>1, ThreadsFrame DEF LeasesSound
  <2>4. ~Serving(s)'
    BY <2>1 DEF Serving
  <2>5. ASSUME pc'[s] = "ReadLease" PROVE NewLease(s, current[Host[s]])'
    <3>1. EtcdGrants /\ granted + 1 \in Leases
      <4>1. IsFiniteSet(InGrant) /\ s \in InGrant
        BY <2>1, RegistryAssumption, FS_Subset DEF InGrant
      <4>2. Cardinality(InGrant) # 0 /\ Cardinality(InGrant) \in Nat
        BY <4>1, FS_EmptySet, FS_CardinalityType
      <4> QED
        BY <1>0, <2>2, <2>5, <4>2, RegistryAssumption DEF RoomToGrant, Leases
    <3> QED
      BY <1>0, <2>1, <2>2, <2>5, <3>1 DEF NewLease, EtcdGrants, EtcdTypes
  <2>6. RegisteringSound(s)'
    BY <2>1, <2>2, <2>5 DEF RegisteringSound
  <2> QED
    BY <1>0, <2>3, <2>4, <2>6 DEF DRest
<1>3. CASE ReadLease(s)
  <2>1. /\ pc[s] = "ReadLease" /\ pc'[s] = "Put" /\ lease'[s] = current[Host[s]] /\ ~kept[s]
        /\ UNCHANGED <<etcdVars, clientVars, beatVars, todo, registered, listening, kept>>
        /\ NewLease(s, current[Host[s]])
    BY <1>3 DEF ReadLease, Goto, ServerTypes, RegisteringSound
  <2>2. RegisteringSound(s)' /\ ~Serving(s)'
    BY <2>1 DEF RegisteringSound, Serving, NewLease, clientVars, etcdVars
  <2>3. ThreadsSound' /\ LeasesSound'
    BY <2>1, ThreadsFrame DEF LeasesSound, clientVars, etcdVars
  <2> QED
    BY <1>0, <2>2, <2>3 DEF DRest
<1>4. CASE Put(s)
  <2>1. /\ pc[s] = "Put" /\ ~kept[s] /\ NewLease(s, lease[s])
        /\ UNCHANGED <<ttl, granted, clientVars, beatVars, lease, todo, registered, listening, kept>>
    BY <1>4 DEF Put, RegisteringSound
  <2>2. pc'[s] = "Undo" \/ (pc'[s] = "Record" /\ key'[s] = lease[s])
    BY <1>4 DEF Put, Goto, ServerTypes, EtcdTypes
  <2>3. RegisteringSound(s)' /\ ~Serving(s)'
    BY <2>1, <2>2 DEF RegisteringSound, Serving, NewLease, clientVars
  <2>4. ThreadsSound' /\ LeasesSound'
    BY <2>1, ThreadsFrame DEF LeasesSound, clientVars
  <2> QED
    BY <1>0, <2>3, <2>4 DEF DRest
<1>5. CASE Undo(s)
  <2>1. /\ pc[s] = "Undo" /\ pc'[s] = "Listen" /\ ~kept[s] /\ granted' = granted
        /\ UNCHANGED <<clientVars, beatVars, lease, todo, registered, listening, kept>>
    BY <1>5 DEF Undo, Goto, ServerTypes, RegisteringSound, Drop, etcdVars
  <2>2. RegisteringSound(s)' /\ ~Serving(s)'
    BY <2>1 DEF RegisteringSound, Serving
  <2>3. ThreadsSound' /\ LeasesSound'
    BY <2>1, ThreadsFrame DEF LeasesSound, clientVars
  <2> QED
    BY <1>0, <2>2, <2>3 DEF DRest
<1>6. CASE Record(s)
  <2>1. /\ pc[s] = "Record" /\ pc'[s] = "Listen" /\ services'[s] = lease[s] /\ kept'[s] = running[Host[s]]
        /\ UNCHANGED <<etcdVars, running, current, revoke, beatVars, lease, todo, listening>>
        /\ NewLease(s, lease[s]) /\ key[s] = lease[s]
    BY <1>6 DEF Record, Goto, ServerTypes, ClientTypes, RegisteringSound
  <2>2. RegisteringSound(s)'
    BY <2>1 DEF RegisteringSound
  <2>3. ThreadsSound' /\ LeasesSound'
    BY <1>0, <2>1, ThreadsFrame DEF LeasesSound, etcdVars, NewLease
  <2>4. ASSUME kept'[s] PROVE Held(s)'
    <3>1. PICK l \in Leases : l = lease[s]
      BY <2>1 DEF NewLease
    <3>2. ttl'[l] = TTL
      BY <2>1, <3>1 DEF NewLease, etcdVars
    <3>3. \A b \in Beats : InTime(Host[s], b, l)'
      BY <1>0, <3>2, YoungInTime
    <3>4. services'[s] = l /\ \A b \in Beats : InTime(Host[s], b, services[s])'
      BY <2>1, <3>1, <3>3 DEF InTime
    <3> QED
      BY <2>1, <2>4, <3>1, <3>4 DEF Held, etcdVars, NewLease
  <2>5. Serving(s)' => Held(s)'
    BY <2>4 DEF Serving
  <2> QED
    BY <1>0, <2>2, <2>3, <2>5 DEF DRest
<1> QED
  BY <1>1, <1>2, <1>3, <1>4, <1>5, <1>6

\* start listens, and stop unregisters before it stops listening.
LEMMA ServeDRest ==
  ASSUME Alone, DInv, NEW s \in Servers,
         Listen(s) \/ Stop(s) \/ GetKeys(s) \/ Delete(s) \/ StopListening(s)
  PROVE  DRest'
<1> USE DEF DInv, TInv, TypeOK
<1>0. /\ granted \in Nat /\ \A t \in Servers : t = s
      /\ UNCHANGED <<ttl, granted, running, current, revoke, beatVars, lease, kept>>
  BY RegistryAssumption DEF Alone, EtcdTypes, Listen, Stop, GetKeys, Delete, StopListening, etcdVars, clientVars
<1>1. \/ services'[s] = services[s] /\ key'[s] = key[s]
      \/ pc[s] = "Delete" /\ pc'[s] = "Delete" /\ (services'[s] = services[s] \/ services'[s] = 0)
  <2>1. CASE Delete(s)
    BY <1>0, <2>1 DEF Delete, ClientTypes, ServerTypes
  <2>2. CASE ~Delete(s)
    BY <2>2 DEF Listen, Stop, GetKeys, StopListening, etcdVars, clientVars
  <2> QED
    BY <2>1, <2>2
<1>2. pc'[s] \in {"Idle", "GetKeys", "Delete"}
  BY DEF Listen, Stop, GetKeys, Delete, StopListening, Goto, ServerTypes
<1>3. Serving(s)' => Serving(s) /\ pc[s] # "Delete"
  BY <1>0 DEF Serving, Listen, Stop, GetKeys, Delete, StopListening, Goto, ServerTypes
<1>4. ThreadsSound' /\ LeasesSound'
  BY <1>0, <1>1, ThreadsFrame DEF LeasesSound
<1>5. RegisteringSound(s)'
  BY <1>2 DEF RegisteringSound
<1>6. Serving(s)' => Held(s)'
  BY <1>0, <1>1, <1>3, ServerFrame
<1> QED
  BY <1>0, <1>4, <1>5, <1>6 DEF DRest

LEMMA CrashDRest ==
  ASSUME DInv, NEW p \in Procs, Crash(p) PROVE DRest'
<1> USE DEF DInv, TInv, TypeOK
<1>1. /\ ~running'[p] /\ \A q \in Procs : q # p => running'[q] = running[q]
      /\ revoke'[p] = {} /\ \A q \in Procs : q # p => revoke'[q] = revoke[q]
      /\ missed'[p] = 0 /\ \A q \in Procs : q # p => missed'[q] = missed[q]
  BY DEF Crash, ClientTypes, BeatTypes
<1>2. /\ \A b \in Beats : renew'[p][b] = {}
      /\ \A q \in Procs : q # p => beat'[q] = beat[q] /\ renew'[q] = renew[q]
  BY DEF Crash, BeatTypes
<1>3. UNCHANGED <<ttl, key, granted, current, wait, lease>>
  BY DEF Crash, etcdVars
<1>4. ThreadsSound'
  BY <1>1, <1>2 DEF ThreadsSound
<1>5. LeasesSound'
  <2>1. granted \in Nat
    BY RegistryAssumption DEF EtcdTypes
  <2> QED
    BY <1>1, <1>3, <2>1 DEF LeasesSound, Crash
<1>6. ASSUME NEW s \in Servers PROVE RegisteringSound(s)' /\ (Serving(s)' => Held(s)')
  <2>0. Host[s] \in Procs
    BY RegistryAssumption
  <2>1. CASE Host[s] = p
    <3>1. pc'[s] = "Idle" /\ ~kept'[s]
      BY <2>1 DEF Crash
    <3> QED
      BY <3>1 DEF RegisteringSound, Serving
  <2>2. CASE Host[s] # p
    <3>1. pc'[s] = pc[s] /\ services'[s] = services[s] /\ (kept'[s] <=> kept[s]) /\ (listening'[s] <=> listening[s])
      BY <2>2 DEF Crash
    <3>2. ASSUME NEW l, NewLease(s, l) PROVE NewLease(s, l)'
      BY <1>1, <1>3, <3>1, <3>2 DEF NewLease
    <3>3. RegisteringSound(s)'
      BY <1>3, <3>1, <3>2 DEF RegisteringSound
    <3>4. Serving(s)' => Serving(s)
      BY <3>1 DEF Serving
    <3>5. ASSUME Held(s) PROVE Held(s)'
      <4>1. \A b \in Beats : InTime(Host[s], b, services[s])'
        BY <1>1, <1>2, <1>3, <2>0, <2>2, <3>1, <3>5 DEF Held, InTime, Slack
      <4> QED
        BY <1>1, <1>3, <2>0, <2>2, <3>1, <3>5, <4>1 DEF Held
    <3> QED
      BY <3>3, <3>4, <3>5
  <2> QED
    BY <2>1, <2>2
<1> QED
  BY <1>4, <1>5, <1>6 DEF DRest

\* Time passes while every thread sleeps: a thread that comes a tick closer to its
\* next round finds the lease a tick older, and some thread keeps it from ending.
LEMMA TickDRest ==
  ASSUME DInv, Tick PROVE DRest'
<1> USE DEF DInv, TInv, TypeOK
<1>1. /\ UNCHANGED <<granted, clientVars, beat, renew, missed, serverVars>>
      /\ ttl' = [l \in Leases |-> IF ttl[l] > 0 THEN ttl[l] - 1 ELSE 0]
      /\ key' = [s \in Servers |-> IF key[s] # 0 /\ ttl[key[s]] <= 1 THEN 0 ELSE key[s]]
      /\ wait' = [p \in Procs |-> [b \in Beats |->
                  IF beat[p][b] = "sleep" THEN wait[p][b] - 1 ELSE wait[p][b]]]
      /\ \A p \in Procs, b \in Beats : beat[p][b] = "off" \/ (beat[p][b] = "sleep" /\ wait[p][b] > 0)
      /\ \A s \in Servers : pc[s] = "Idle"
  BY DEF Tick, Prompt
<1>2. ThreadsSound'
  BY <1>1 DEF ThreadsSound, clientVars
<1>3. LeasesSound'
  BY <1>1 DEF LeasesSound, clientVars
<1>4. ASSUME NEW s \in Servers PROVE RegisteringSound(s)' /\ (Serving(s)' => Held(s)')
  <2>1. RegisteringSound(s)'
    BY <1>1 DEF RegisteringSound, serverVars
  <2>2. Serving(s)' => Serving(s)
    BY <1>1 DEF Serving, serverVars
  <2>3. ASSUME Serving(s) PROVE Held(s)'
    <3>1. Held(s) /\ services[s] \in Leases /\ Host[s] \in Procs
      BY <2>3, RegistryAssumption DEF Held
    <3>2. PICK l \in Leases, h \in Procs : l = services[s] /\ h = Host[s]
      BY <3>1
    <3>3. running[h] /\ (\A b \in Beats : InTime(h, b, l)) /\ key[s] = l
      BY <3>1, <3>2 DEF Held
    <3>4. ASSUME NEW b \in Beats, beat[h][b] = "sleep"
          PROVE  ttl[l] > 1 /\ ttl[l] - 1 > wait[h][b] - 1 + Slack(missed[h])
      <4>1. /\ wait[h][b] \in Nat /\ wait[h][b] > 0 /\ ttl[l] \in Nat /\ missed[h] \in 0..MaxMissed
            /\ ttl[l] > wait[h][b] + Slack(missed[h])
        BY <1>1, <3>3, <3>4, RegistryAssumption DEF InTime, EtcdTypes, BeatTypes
      <4>2. Slack(missed[h]) \in Nat
        BY <4>1, SlackFacts
      <4> QED
        BY <4>1, <4>2
    <3>5. ttl[l] > 1 /\ ttl[l] \in Nat
      <4>1. \E b \in Beats : beat[h][b] = "sleep"
        BY <1>1, <3>3 DEF ThreadsSound
      <4>2. ttl[l] \in Nat
        BY RegistryAssumption DEF EtcdTypes
      <4> QED
        BY <3>4, <4>1, <4>2
    <3>6. key'[s] = l /\ ttl'[l] = ttl[l] - 1
      BY <1>1, <3>3, <3>5
    <3>7. ASSUME NEW b \in Beats PROVE InTime(h, b, l)'
      <4>1. beat'[h][b] = beat[h][b] /\ renew'[h][b] = {} /\ Slack(missed[h])' = Slack(missed[h])
        BY <1>1 DEF ThreadsSound, Slack
      <4>2. CASE beat[h][b] = "sleep"
        <5>1. wait'[h][b] = wait[h][b] - 1
          BY <1>1, <4>2
        <5>2. ttl'[l] > wait'[h][b] + Slack(missed[h])
          BY <3>4, <3>6, <4>2, <5>1
        <5> QED
          BY <4>1, <4>2, <5>2 DEF InTime
      <4>3. CASE beat[h][b] = "off"
        BY <4>1, <4>3 DEF InTime
      <4> QED
        BY <1>1, <4>2, <4>3
    <3>8. services'[s] = l /\ \A b \in Beats : InTime(Host[s], b, services[s])'
      BY <1>1, <3>2, <3>7 DEF clientVars, InTime
    <3> QED
      BY <1>1, <3>1, <3>6, <3>8 DEF Held, clientVars
  <2> QED
    BY <2>1, <2>2, <2>3
<1> QED
  BY <1>2, <1>3, <1>4 DEF DRest

LEMMA NextDInv ==
  ASSUME Alone, Tolerant PROVE DInv /\ [Next]_vars => DInv'
<1> SUFFICES ASSUME DInv, [Next]_vars PROVE DInv'
  OBVIOUS
<1>1. TInv' /\ BeatTypes'
  BY NextTInv DEF DInv, TInv, TypeOK
<1>2. DRest'
  <2>1. CASE Time
    BY <2>1, TickDRest DEF Time
  <2>2. CASE UserStep
    BY <1>1, <2>2, StartRegistryDRest, StopRegistryDRest, RegisterDRest, ServeDRest DEF UserStep
  <2>3. ASSUME NEW p \in Procs, RevokeStep(p) \/ BeatStep(p) \/ Crash(p) PROVE DRest'
    <3>1. CASE RevokeStep(p)
      BY <3>1, RevokeDRest DEF RevokeStep
    <3>2. CASE BeatStep(p)
      BY <1>1, <3>2, WakeDRest, KeepAliveDRest, SleepDRest DEF BeatStep
    <3>3. CASE Crash(p)
      BY <3>3, CrashDRest
    <3> QED
      BY <2>3, <3>1, <3>2, <3>3
  <2>4. ASSUME NEW s \in Servers, ServerStep(s) PROVE DRest'
    BY <1>1, <2>4, RegisterDRest, ServeDRest DEF ServerStep
  <2>5. CASE UNCHANGED vars
    <3>1. UNCHANGED <<ttl, key, granted, running, current, services, revoke, beat, wait, renew, missed,
                      pc, lease, todo, registered, listening, kept>>
      BY <2>5 DEF vars, etcdVars, beatVars, clientVars, serverVars
    <3> QED
      BY <3>1 DEF DInv, DRest, ThreadsSound, LeasesSound, RegisteringSound, NewLease, Serving, Held, InTime, Slack
  <2> QED
    BY <2>1, <2>2, <2>3, <2>4, <2>5 DEF Next
<1> QED
  BY <1>1, <1>2 DEF DInv, DRest

(***************************************************************************)
(* A server that is the only one of its service stays discoverable, for    *)
(* any number of heartbeat threads and whatever is lost, restarted or      *)
(* crashes, if the time to live outlasts the keep-alives that are lost in  *)
(* a row and the sleep before the next (heartbeat_loop, rpc_service_       *)
(* registry.cc:602-632; ttl 30 and interval 10 tolerate one).              *)
(***************************************************************************)
THEOREM AloneStaysDiscoverable ==
  ASSUME Alone, Tolerant PROVE Spec => []Discoverable
<1>1. Init => DInv
  BY InitTInv, InitDRest DEF DInv, DRest
<1>2. DInv /\ [Next]_vars => DInv'
  BY NextDInv
<1>3. DInv => Discoverable
  BY LeasesFacts DEF DInv, Discoverable, Serving, Held
<1> QED
  BY <1>1, <1>2, <1>3, PTL DEF Spec
=============================================================================
