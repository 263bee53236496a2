---------------------------- MODULE ServerLifecycle ----------------------------
(***************************************************************************)
(* A server of the RPC library from start to stop, on top of CommServer:   *)
(* SimpleRpcServer, which runs until another thread requests its stop, and *)
(* TinyPbRpcServer, whose destructor stops it once more.                   *)
(***************************************************************************)
EXTENDS CommServer

VARIABLES stop_requested,  \* SimpleRpcServer::stop_requested_
          destroying       \* the destructor runs

lifeVars == <<stop_requested, destroying>>
allVars  == <<vars, lifeVars>>

LifeInit == Init /\ stop_requested = FALSE /\ destroying = FALSE

\* SimpleRpcServer::start takes lifecycle_mutex_ and forgets earlier requests.
BeginStart ==
  /\ Goto(Owner, "Off", "Starting") \/ Goto(Owner, "Stopped", "Starting")
  /\ stop_requested' = FALSE
  /\ UNCHANGED <<serviceVars, drainVars, entryVars, idle, tmutex, pollVars, conn,
                 peerVars, destroying>>

\* The rest of start; the mutex is released.
EndStart == Start(Owner, "Starting", "Up", "Off") /\ UNCHANGED lifeVars

\* request_stop, by any thread that gets the mutex.
RequestStop ==
  /\ pc[Owner] # "Starting"
  /\ stop_requested' = TRUE
  /\ UNCHANGED <<vars, destroying>>

\* run_until_stopped: wait_for_stop returns, and stop begins.
StopServer == stop_requested /\ Shutdown(Owner, "Up") /\ UNCHANGED lifeVars

\* The destructor of a TinyPbRpcServer that was started and stopped: stop begins
\* again.
Destroy ==
  /\ Shutdown(Owner, "Stopped")
  /\ destroying' = TRUE
  /\ UNCHANGED stop_requested

\* stop ends.
StopEnds ==
  /\ WaitFinish(Owner, IF destroying THEN "Gone" ELSE "Stopped")
  /\ UNCHANGED lifeVars

OwnerStep ==
  \/ EndStart \/ StopServer \/ StopEnds
  \/ ShutdownStep(Owner) /\ UNCHANGED lifeVars

ConnStep(c) ==
  \/ Send(c) \/ Accept(c) \/ Receive(c) \/ ReadFails(c) \/ PollerStep(c)

Next ==
  \/ BeginStart \/ RequestStop \/ OwnerStep
  \/ /\ \/ ListenFails \/ Unlistened
        \/ \E c \in Conns : ConnStep(c)
        \/ \E t \in Handlers : HandlerStep(t)
     /\ UNCHANGED lifeVars

(***************************************************************************)
(* Threads of the library keep running, the functions they call return,    *)
(* and the poller's timeouts end a connection whose first or next request  *)
(* does not come to its end.  Nobody needs to stop or start the server, to *)
(* connect or to send, and a connection may be kept alive for ever.        *)
(***************************************************************************)
Fairness ==
  /\ WF_allVars(OwnerStep)
  /\ WF_allVars(Unlistened /\ UNCHANGED lifeVars)
  /\ \A t \in Handlers : WF_allVars(HandlerStep(t) /\ UNCHANGED lifeVars)
  /\ \A c \in Conns :
       /\ WF_allVars(PollerStep(c) /\ UNCHANGED lifeVars)
       /\ WF_allVars(/\ state[c] \in {"Connected", "Receiving"}
                     /\ Receive(c) \/ ReadFails(c)
                     /\ UNCHANGED lifeVars)

\* A SimpleRpcServer, whose destructor does nothing ...
FairSpec == LifeInit /\ [][Next]_allVars /\ Fairness

\* ... and a TinyPbRpcServer.
TinyPbSpec == LifeInit /\ [][Next \/ Destroy]_allVars /\ Fairness

-----------------------------------------------------------------------------
OwnerPCs   == {"Off", "Stopped", "Starting", "Up", "Unlisten", "DrainAll", "DrainedAll",
               "WaitFinish", "Gone"}
HandlerPCs == Results \cup {"Ready", "Enter", "DrainOne", "DrainedOne", "DrainAll",
               "DrainedAll", "Reply", "KeepReplied", "KeepWritten",
               "Replied", "UnrefReplied", "EndSession", "Unkeep", "Unref"}

\* The types of the variables, and no reference count below zero.
TypeOK ==
  /\ listening \in BOOLEAN /\ listener \in {"off", "on", "deleted"}
  /\ ref \in Nat /\ unbind_finish \in BOOLEAN
  /\ conn_count \in Nat
  /\ keep_alive_list \in Seq(Conns)
  /\ smutex \in Threads \cup {NoThread} /\ victim \in Conns \cup {NoConn}
  /\ state \in [Conns -> States] /\ eref \in [Conns -> Nat] /\ tref \in [Conns -> Nat]
  /\ idle \subseteq Conns /\ tmutex \in [Conns -> Handlers \cup {NoThread}]
  /\ node \in [Conns -> {"none", "read", "write"}] /\ pipe \in [Conns -> BOOLEAN]
  /\ reading \in [Conns -> {"no", "asked", "message"}]
  /\ queue \in Seq([kind : Results, conn : Conns \cup {NoConn}])
  /\ pc \in [Threads -> OwnerPCs \cup HandlerPCs]
  /\ conn \in [Threads -> Conns \cup {NoConn}]
  /\ unread \in [Conns -> Nat] /\ sent \in [Conns -> Nat]
  /\ answered \in [Conns -> Nat] /\ premature \subseteq Conns
  /\ stop_requested \in BOOLEAN /\ destroying \in BOOLEAN

Busy(t) == t \in Handlers /\ pc[t] # "Ready"

\* __release_conn frees an entry only when nothing refers to it any more: no
\* list, no poller node or result, no thread, and its target goes with it.
NoUseAfterFree ==
  \A c \in Conns : state[c] = "Freed" =>
    /\ c \notin idle /\ ~Contains(keep_alive_list, c) /\ victim # c
    /\ node[c] = "none" /\ ~pipe[c] /\ reading[c] = "no" /\ tmutex[c] = NoThread
    /\ \A i \in 1..Len(queue) : queue[i].conn # c
    /\ \A t \in Handlers : Busy(t) => conn[t] # c
    /\ eref[c] = 0 /\ tref[c] = 0

\* handle_unbound comes last: when wait_finish may return, and while the server
\* is off, no reference to the service is left, and no connection, session or
\* result either ("stop() will block until all server tasks' series end"), with
\* one exception: the report that its listening socket failed holds the service
\* without a reference, and a thread may call handle_stop on it at any time.
UnboundLast ==
  unbind_finish \/ pc[Owner] \in {"Off", "Stopped", "Starting"} =>
    /\ ref = 0 /\ conn_count = 0
    /\ \A c \in Conns : state[c] \in {"None", "Freed"} /\ tref[c] = 0
    /\ \A i \in 1..Len(queue) : queue[i].kind = "ListenFailed"
    /\ \A t \in Handlers : Busy(t) => pc[t] = "ListenFailed"

\* An entry has one link for two lists: it is in the service's list only while it
\* is kept alive, in its target's only while it waits for a reply, never twice.
ListsAgree ==
  /\ IsInjective(keep_alive_list)
  /\ \A i \in 1..Len(keep_alive_list) : state[keep_alive_list[i]] = "KeepAlive"
  /\ \A c \in idle : state[c] = "Idle"

\* The structure of a service: its types, counts and lists (CommConnEntry and
\* CommService, as accept, reply, drain and __release_conn leave them).
EntriesSound == TypeOK /\ ListsAgree

\* new_connection: connections that are not being closed never exceed the limit.
ConnLimit ==
  Cardinality({c \in Conns : state[c] \notin {"None", "Closing", "Freed"}})
    <= MaxConnections

\* create_request never refuses the request of a client that waited for the
\* previous response, unless the server is closing the connection: it waits for
\* the thread that has written the response and not yet marked the connection.
WaitedNotRefused ==
  [][\A c \in Conns :
       reading[c] = "asked" /\ reading'[c] = "no" /\ c \notin premature
         => state[c] = "Closing"]_allVars

\* A client that waits for its response gets it, or sees the connection closed:
\* no client waits for ever.
Waits(c) == sent[c] # answered[c] /\ c \notin premature /\ state[c] # "Freed"

Answered == \A c \in Conns : []<>~Waits(c)

\* stop returns: the owner does not wait for ever for the end of the service; every
\* connection is closed in the end and handle_unbound runs.
StopReturns == []<>(pc[Owner] # "WaitFinish")
=============================================================================
