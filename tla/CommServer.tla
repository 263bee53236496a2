------------------------------ MODULE CommServer ------------------------------
(***************************************************************************)
(* The server side of Workflow's Communicator, on which both RPC servers   *)
(* stand: a service that listens, the connections it accepted, the poller  *)
(* that watches their sockets and the handler threads that work off the    *)
(* poller's results.  WFServerBase starts it, shuts it down and waits for  *)
(* its end.                                                                *)
(*                                                                         *)
(* A connection is a CommConnEntry and its CommServiceTarget, each with a  *)
(* reference count.  Every critical section is a step; a mutex is a        *)
(* variable where a thread holds it over several steps.  TCP without SSL,  *)
(* keep-alive on; no descriptor is used twice.                             *)
(***************************************************************************)
EXTENDS Integers, Sequences, FiniteSets, SequencesExt

CONSTANTS Conns,           \* the connections clients open
          Handlers,        \* the handler threads
          Owner,           \* the thread that starts and stops the server
          NoThread,        \* the owner of a mutex that is free
          NoConn,          \* no connection
          MaxConnections,  \* params.max_connections
          MaxRequests,     \* bound: requests a client sends on each connection
          MaxReports       \* bound: failures of the listening socket in the queue

ASSUME CommAssumption ==
  /\ Owner \notin Handlers /\ NoThread \notin Handlers \cup {Owner}
  /\ NoConn \notin Conns /\ IsFiniteSet(Conns) /\ IsFiniteSet(Handlers)
  /\ MaxConnections \in Nat \ {0} /\ MaxRequests \in [Conns -> Nat]
  /\ MaxReports \in Nat

Threads == Handlers \cup {Owner}

VARIABLES
  \* CommService and WFServerBase
  listening,       \* CommService::listen_fd >= 0
  listener,        \* the node of the listening socket: "off", "on" or "deleted"
  ref,             \* CommService::ref
  unbind_finish,   \* unbind_finish
  conn_count,      \* conn_count
  keep_alive_list, \* keep_alive_list, newest first
  smutex,          \* CommService::mutex
  victim,          \* drain: entry, while smutex is held
  \* CommConnEntry and CommServiceTarget
  state,           \* entry->state, "None" before accept_conn, "Freed" at the end
  eref,            \* entry->ref
  tref,            \* target->ref
  idle,            \* the connections in their target's idle_list
  tmutex,          \* target->mutex
  \* the poller
  node,            \* what the socket is watched for: "none", "read" or "write"
  pipe,            \* the node was deleted, and waits in the pipe
  reading,         \* __poller_handle_read: "no", "asked" or "message"
  queue,           \* msgqueue: the results handler threads will take
  \* threads
  pc,              \* what each thread does next
  conn,            \* the connection it works on
  \* the clients
  unread,          \* requests in the socket
  sent,            \* requests sent
  answered,        \* responses written completely
  premature        \* history: connections with a request before the last was answered

serviceVars == <<listening, listener, ref, unbind_finish, conn_count>>
drainVars   == <<keep_alive_list, smutex, victim>>
entryVars   == <<state, eref, tref>>
pollVars    == <<node, pipe, reading, queue>>
peerVars    == <<unread, sent, answered, premature>>
vars == <<serviceVars, drainVars, entryVars, idle, tmutex, pollVars,
          pc, conn, peerVars>>

States == {"None", "Connected", "Receiving", "Success", "Idle", "KeepAlive",
           "Closing", "Error", "Freed"}

Results == {"Accepted", "ListenFailed", "Unlisten", "Request", "Closed", "Written",
            "WriteFailed"}

Goto(t, from, to) == pc[t] = from /\ pc' = [pc EXCEPT ![t] = to]

Set(f, x, v) == [f EXCEPT ![x] = v]

\* The thread is done with its connection.
Leave(t) == conn' = [conn EXCEPT ![t] = NoConn]

\* poller->callback: msgqueue_put.
Put(kind, c) == queue' = Append(queue, [kind |-> kind, conn |-> c])

\* mpoller_del of a connection: the node, if any, goes through the pipe.
NodeDel(c) ==
  /\ node' = Set(node, c, "none")
  /\ pipe' = Set(pipe, c, pipe[c] \/ node[c] # "none")

\* CommService::decref, with handle_unbound.
ServiceDecref ==
  /\ ref' = ref - 1
  /\ unbind_finish' = (unbind_finish \/ ref = 1)

\* CommServiceTarget::decref.
TargetDecref(c) ==
  /\ tref' = Set(tref, c, tref[c] - 1)
  /\ IF tref[c] = 1 THEN ServiceDecref ELSE UNCHANGED <<ref, unbind_finish>>

-----------------------------------------------------------------------------
Init ==
  /\ listening = FALSE /\ listener = "off" /\ ref = 0 /\ unbind_finish = FALSE
  /\ conn_count = 0 /\ keep_alive_list = <<>> /\ smutex = NoThread /\ victim = NoConn
  /\ state = [c \in Conns |-> "None"]
  /\ eref = [c \in Conns |-> 0] /\ tref = [c \in Conns |-> 0]
  /\ idle = {} /\ tmutex = [c \in Conns |-> NoThread]
  /\ node = [c \in Conns |-> "none"] /\ pipe = [c \in Conns |-> FALSE]
  /\ reading = [c \in Conns |-> "no"] /\ queue = <<>>
  /\ pc = [t \in Threads |-> IF t = Owner THEN "Off" ELSE "Ready"]
  /\ conn = [t \in Threads |-> NoConn]
  /\ unread = [c \in Conns |-> 0] /\ sent = [c \in Conns |-> 0]
  /\ answered = [c \in Conns |-> 0] /\ premature = {}

-----------------------------------------------------------------------------
(***************************************************************************)
(* The clients.                                                            *)
(***************************************************************************)
Send(c) ==
  /\ state[c] \notin {"None", "Freed"} /\ sent[c] < MaxRequests[c]
  /\ sent' = Set(sent, c, sent[c] + 1)
  /\ unread' = Set(unread, c, unread[c] + 1)
  /\ premature' = IF sent[c] > answered[c] THEN premature \cup {c} ELSE premature
  /\ UNCHANGED <<serviceVars, drainVars, entryVars, idle, tmutex,
                 pollVars, pc, conn, answered>>

(***************************************************************************)
(* The poller.                                                             *)
(***************************************************************************)
\* Faulty variant: the target takes no reference to the service.
Accept_NoRef(c) ==
  /\ listener # "off" /\ state[c] = "None" /\ tref[c] = 0
  /\ tref' = Set(tref, c, 1)
  /\ Put("Accepted", c)
  /\ UNCHANGED <<serviceVars, drainVars, state, eref, idle, tmutex, node, pipe,
                 reading, pc, conn, peerVars>>

\* __poller_handle_listen and Communicator::accept.  The poller may be in its
\* loop when the node is deleted.
Accept(c) ==
  /\ listener # "off" /\ state[c] = "None" /\ tref[c] = 0
  /\ ref' = ref + 1
  /\ tref' = Set(tref, c, 1)
  /\ Put("Accepted", c)
  /\ UNCHANGED <<listening, listener, unbind_finish, conn_count, drainVars,
                 state, eref, idle, tmutex, node, pipe, reading, pc, conn, peerVars>>

\* The end of __poller_handle_listen, when accept fails: the node goes, and its
\* result names the service without a reference to it.
ListenFails ==
  /\ listener = "on"
  /\ Cardinality({i \in DOMAIN queue : queue[i].kind = "ListenFailed"}) < MaxReports
  /\ listener' = "off"
  /\ Put("ListenFailed", NoConn)
  /\ UNCHANGED <<listening, ref, unbind_finish, conn_count, drainVars,
                 entryVars, idle, tmutex, node, pipe, reading, pc, conn, peerVars>>

\* __poller_handle_pipe: the deleted node of the listening socket.
Unlistened ==
  /\ listener = "deleted"
  /\ listener' = "off"
  /\ Put("Unlisten", NoConn)
  /\ UNCHANGED <<listening, ref, unbind_finish, conn_count, drainVars,
                 entryVars, idle, tmutex, node, pipe, reading, pc, conn, peerVars>>

\* __poller_handle_pipe: the deleted node of a connection.
Deleted(c) ==
  /\ pipe[c] /\ reading[c] # "asked"
  /\ pipe' = Set(pipe, c, FALSE)
  /\ reading' = Set(reading, c, "no")
  /\ Put("Closed", c)
  /\ UNCHANGED <<serviceVars, drainVars, entryVars, idle, tmutex,
                 node, pc, conn, peerVars>>

\* Faulty variant: create_request does not wait for the reply to be complete.
Read_NoWait(c) ==
  /\ node[c] = "read" \/ pipe[c]
  /\ reading[c] = "no" /\ unread[c] > 0
  /\ reading' = Set(reading, c, "asked")
  /\ UNCHANGED <<serviceVars, drainVars, entryVars, idle, tmutex,
                 node, pipe, queue, pc, conn, peerVars>>

\* __poller_handle_read, also for an event of a node that was just deleted, and
\* the first part of create_request: it waits while the connection is replied to.
Read(c) ==
  /\ node[c] = "read" \/ pipe[c]
  /\ reading[c] = "no" /\ unread[c] > 0
  /\ state[c] = "Idle" => tmutex[c] = NoThread
  /\ reading' = Set(reading, c, "asked")
  /\ UNCHANGED <<serviceVars, drainVars, entryVars, idle, tmutex,
                 node, pipe, queue, pc, conn, peerVars>>

\* Faulty variant: the connection stays in the list of those kept alive.
CreateRequest_Listed(c) ==
  /\ reading[c] = "asked" /\ smutex = NoThread
  /\ state[c] \in {"KeepAlive", "Connected"}
  /\ state' = Set(state, c, "Receiving")
  /\ tref' = Set(tref, c, tref[c] + 1)
  /\ reading' = Set(reading, c, "message")
  /\ UNCHANGED <<serviceVars, drainVars, eref, idle, tmutex, node, pipe, queue, pc, conn, peerVars>>

\* create_request: a new session.
CreateRequest(c) ==
  /\ reading[c] = "asked" /\ smutex = NoThread
  /\ state[c] \in {"KeepAlive", "Connected"}
  /\ keep_alive_list' = RemoveFirst(keep_alive_list, c)
  /\ state' = Set(state, c, "Receiving")
  /\ tref' = Set(tref, c, tref[c] + 1)
  /\ reading' = Set(reading, c, "message")
  /\ UNCHANGED <<serviceVars, smutex, victim, eref, idle, tmutex, node, pipe, queue, pc, conn, peerVars>>

\* create_request refuses in any other state, and __poller_handle_read fails,
\* unless the node was deleted meanwhile.
Refuse(c) ==
  /\ reading[c] = "asked" /\ smutex = NoThread
  /\ state[c] \notin {"KeepAlive", "Connected"}
  /\ reading' = Set(reading, c, "no")
  /\ unread' = Set(unread, c, unread[c] - 1)
  /\ \/ node[c] = "read" /\ Put("Closed", c)
     \/ node[c] # "read" /\ UNCHANGED queue
  /\ node' = IF node[c] = "read" THEN Set(node, c, "none") ELSE node
  /\ UNCHANGED <<serviceVars, drainVars, entryVars, idle, tmutex,
                 pipe, pc, conn, sent, answered, premature>>

\* append_message: the request is complete.
Receive(c) ==
  /\ reading[c] = "message"
  /\ reading' = Set(reading, c, "no")
  /\ unread' = Set(unread, c, unread[c] - 1)
  /\ state' = Set(state, c, "Success")
  /\ Put("Request", c)
  /\ UNCHANGED <<serviceVars, drainVars, eref, tref, idle, tmutex,
                 node, pipe, pc, conn, sent, answered, premature>>

\* The client is gone, the timeout expired, or append failed.
ReadFails(c) ==
  /\ node[c] = "read" /\ reading[c] # "asked"
  /\ node' = Set(node, c, "none")
  /\ reading' = Set(reading, c, "no")
  /\ Put("Closed", c)
  /\ UNCHANGED <<serviceVars, drainVars, entryVars, idle, tmutex,
                 pipe, pc, conn, peerVars>>

\* __poller_handle_write: the rest of a response is written, or that fails.
Write(c) ==
  /\ node[c] = "write" /\ reading[c] # "asked"
  /\ node' = Set(node, c, "none")
  /\ \/ Put("Written", c) /\ answered' = Set(answered, c, answered[c] + 1)
     \/ Put("WriteFailed", c) /\ UNCHANGED answered
  /\ UNCHANGED <<serviceVars, drainVars, entryVars, idle, tmutex,
                 pipe, reading, pc, conn, unread, sent, premature>>

-----------------------------------------------------------------------------
(***************************************************************************)
(* Handler threads.                                                        *)
(***************************************************************************)
\* handler_thread_routine: msgqueue_get.
Get(t) ==
  /\ t \in Handlers /\ queue # <<>>
  /\ Goto(t, "Ready", Head(queue).kind)
  /\ conn' = Set(conn, t, Head(queue).conn)
  /\ queue' = Tail(queue)
  /\ UNCHANGED <<serviceVars, drainVars, entryVars, idle, tmutex,
                 node, pipe, reading, peerVars>>

\* handle_listen_result, PR_ST_ERROR: service->handle_stop, which WFServerBase
\* does not override: it does nothing.
HandleStop(t) ==
  /\ Goto(t, "ListenFailed", "Ready")
  /\ UNCHANGED <<serviceVars, drainVars, entryVars, idle, tmutex, pollVars, conn, peerVars>>

\* A connection is released, or never gets an entry: the socket is closed, with
\* what is in it, and a reference to the target goes.
Drop(t) ==
  /\ conn_count' = conn_count - 1
  /\ state' = Set(state, conn[t], "Freed")
  /\ unread' = Set(unread, conn[t], 0) /\ sent' = Set(sent, conn[t], 0)
  /\ answered' = Set(answered, conn[t], 0) /\ premature' = premature \ {conn[t]}
  /\ TargetDecref(conn[t])

\* Faulty variant: the limit is not looked at.
NewConnection_NoLimit(t) ==
  /\ Goto(t, "Accepted", "Enter")
  /\ conn_count' = conn_count + 1
  /\ UNCHANGED <<listening, listener, ref, unbind_finish, drainVars,
                 entryVars, idle, tmutex, pollVars, conn, peerVars>>

\* handle_listen_result: new_connection, which makes room if there are too many.
NewConnection(t) ==
  /\ \/ conn_count < MaxConnections  /\ Goto(t, "Accepted", "Enter")
     \/ conn_count >= MaxConnections /\ Goto(t, "Accepted", "DrainOne")
  /\ conn_count' = conn_count + 1
  /\ UNCHANGED <<listening, listener, ref, unbind_finish, drainVars,
                 entryVars, idle, tmutex, pollVars, conn, peerVars>>

\* new_connection: there is no connection to close, this one is refused.
NoRoom(t) ==
  /\ smutex = NoThread /\ keep_alive_list = <<>>
  /\ Goto(t, "DrainOne", "Ready")
  /\ Drop(t) /\ Leave(t)
  /\ UNCHANGED <<listening, listener, drainVars, eref, idle, tmutex, pollVars>>

\* accept_conn and the rest of handle_listen_result.
Enter(t) ==
  /\ Goto(t, "Enter", "Ready") /\ Leave(t)
  /\ \/ /\ state' = Set(state, conn[t], "Connected")
        /\ eref' = Set(eref, conn[t], 1)
        /\ node' = Set(node, conn[t], "read")
        /\ UNCHANGED <<conn_count, tref, ref, unbind_finish, peerVars>>
     \/ Drop(t) /\ UNCHANGED <<eref, node>>
  /\ UNCHANGED <<listening, listener, drainVars, idle, tmutex,
                 pipe, reading, queue>>

\* drain, under the service's mutex: the connection that was kept alive longest
\* leaves the list, its node is deleted ...
DrainTake(t) ==
  /\ smutex \in {NoThread, t} /\ keep_alive_list # <<>>
  /\ Goto(t, "DrainOne", "DrainedOne") \/ Goto(t, "DrainAll", "DrainedAll")
  /\ smutex' = t
  /\ victim' = Last(keep_alive_list)
  /\ keep_alive_list' = Front(keep_alive_list)
  /\ NodeDel(Last(keep_alive_list))
  /\ UNCHANGED <<serviceVars, entryVars, idle, tmutex, reading, queue, conn, peerVars>>

\* ... and it is marked.
DrainMark(t) ==
  /\ \/ Goto(t, "DrainedOne", "Enter") /\ smutex' = NoThread
     \/ Goto(t, "DrainedAll", "DrainAll") /\ UNCHANGED smutex
  /\ state' = Set(state, victim, "Closing")
  /\ victim' = NoConn
  /\ UNCHANGED <<serviceVars, keep_alive_list, eref, tref, idle, tmutex, pollVars, conn, peerVars>>

\* Faulty variant: the socket counts as open until the connections are drained.
CloseListen_Late(t) ==
  /\ Goto(t, "Unlisten", "DrainAll")
  /\ UNCHANGED <<listening, listener, ref, unbind_finish, conn_count, drainVars,
                 entryVars, idle, tmutex, pollVars, conn, peerVars>>

\* shutdown_service: no connection is kept alive from now on ...
CloseListen(t) ==
  /\ Goto(t, "Unlisten", "DrainAll")
  /\ listening' = FALSE
  /\ UNCHANGED <<listener, ref, unbind_finish, conn_count, drainVars,
                 entryVars, idle, tmutex, pollVars, conn, peerVars>>

\* ... those that are get closed, and the service loses a reference.
EndShutdown(t) ==
  /\ smutex \in {NoThread, t} /\ keep_alive_list = <<>>
  /\ Goto(t, "DrainAll", IF t = Owner THEN "WaitFinish" ELSE "Ready")
  /\ smutex' = NoThread
  /\ ServiceDecref
  /\ UNCHANGED <<listening, listener, conn_count, keep_alive_list, victim, entryVars, idle,
                 tmutex, pollVars, conn, peerVars>>

-----------------------------------------------------------------------------
\* handle_incoming_request, PR_ST_SUCCESS: the connection waits for the reply,
\* unless it was closed meanwhile.  Then WFServerTask::handle runs the server's
\* process function, and the task replies.
ToReply(t) ==
  LET c == conn[t] IN
  /\ Goto(t, "Request", "Reply")
  /\ tmutex[c] = NoThread
  /\ \/ /\ state[c] = "Success"
        /\ eref' = Set(eref, c, eref[c] + 1)
        /\ state' = Set(state, c, "Idle")
        /\ idle' = idle \cup {c}
     \/ state[c] # "Success" /\ UNCHANGED <<eref, state, idle>>
  /\ UNCHANGED <<serviceVars, drainVars, tref, tmutex, pollVars, conn, peerVars>>

\* reply_reliable finds the connection closed.
NothingToReply(t) ==
  /\ Goto(t, "Reply", "EndSession")
  /\ tmutex[conn[t]] = NoThread /\ conn[t] \notin idle
  /\ UNCHANGED <<serviceVars, drainVars, entryVars, idle, tmutex, pollVars, conn, peerVars>>

\* reply_reliable and send_message_sync: the response is written in one go; the
\* target's mutex is held on.
ReplyAll(t) ==
  LET c == conn[t] IN
  /\ Goto(t, "Reply", "KeepReplied")
  /\ tmutex[c] = NoThread /\ c \in idle
  /\ tmutex' = Set(tmutex, c, t)
  /\ idle' = idle \ {c}
  /\ eref' = Set(eref, c, eref[c] + 1)
  /\ answered' = Set(answered, c, answered[c] + 1)
  /\ UNCHANGED <<serviceVars, drainVars, state, tref, pollVars, conn, unread, sent, premature>>

\* send_message_async: the poller shall write the rest; if it lost the socket,
\* the result that says so ends the session.
ReplyPart(t) ==
  LET c == conn[t] IN
  /\ Goto(t, "Reply", "Unref")
  /\ tmutex[c] = NoThread /\ c \in idle
  /\ idle' = idle \ {c}
  /\ \/ node[c] = "read" /\ node' = Set(node, c, "write") /\ UNCHANGED state
     \/ node[c] = "none" /\ state' = Set(state, c, "Receiving") /\ UNCHANGED node
  /\ UNCHANGED <<serviceVars, drainVars, eref, tref, tmutex, pipe, reading, queue, conn, peerVars>>

\* reply_reliable after a failed send: the deletion of the node ends the session.
ReplyFails(t) ==
  LET c == conn[t] IN
  /\ Goto(t, "Reply", "Unref")
  /\ tmutex[c] = NoThread /\ c \in idle
  /\ idle' = idle \ {c}
  /\ NodeDel(c)
  /\ state' = Set(state, c, "Error")
  /\ UNCHANGED <<serviceVars, drainVars, eref, tref, tmutex, reading, queue, conn, peerVars>>

\* The response is out: the connection is kept alive while the server listens,
\* and closed otherwise.
KeepOrClose(c) ==
  \/ /\ listening
     /\ state' = Set(state, c, "KeepAlive")
     /\ keep_alive_list' = <<c>> \o keep_alive_list
     /\ UNCHANGED <<node, pipe>>
  \/ /\ ~listening
     /\ state' = Set(state, c, "Closing")
     /\ NodeDel(c)
     /\ UNCHANGED keep_alive_list

\* The end of send_message_sync, and of handle_reply_result's part under the lock.
Keep(t) ==
  LET c == conn[t] IN
  /\ smutex = NoThread
  /\ Goto(t, "KeepReplied", "Replied") \/ Goto(t, "KeepWritten", "EndSession")
  /\ KeepOrClose(c)
  /\ tmutex' = Set(tmutex, c, NoThread)
  /\ UNCHANGED <<serviceVars, smutex, victim, eref, tref, idle, reading, queue, conn, peerVars>>

\* Faulty variant: the socket is not watched again.
Written_NotWatched(t) ==
  LET c == conn[t] IN
  /\ pc[t] = "Written" /\ tmutex[c] = NoThread
  /\ Goto(t, "Written", "KeepWritten")
  /\ tmutex' = Set(tmutex, c, t)
  /\ eref' = Set(eref, c, eref[c] + 1)
  /\ UNCHANGED <<serviceVars, drainVars, state, tref, idle, pollVars, conn, peerVars>>

\* handle_reply_result, PR_ST_FINISHED: the socket is watched for the next
\* request, if the poller takes it.
Written(t) ==
  LET c == conn[t] IN
  /\ pc[t] = "Written" /\ tmutex[c] = NoThread
  /\ \/ /\ Goto(t, "Written", "KeepWritten")
        /\ tmutex' = Set(tmutex, c, t)
        /\ eref' = Set(eref, c, eref[c] + 1)
        /\ node' = Set(node, c, "read")
     \/ Goto(t, "Written", "EndSession") /\ UNCHANGED <<tmutex, eref, node>>
  /\ UNCHANGED <<serviceVars, drainVars, state, tref, idle, pipe, reading, queue, conn, peerVars>>

\* handle_incoming_request for a socket that is not watched any more.
Closed(t) ==
  LET c == conn[t] IN
  /\ pc[t] = "Closed" /\ tmutex[c] = NoThread
  /\ \/ /\ state[c] = "KeepAlive" /\ Goto(t, "Closed", "Unkeep")
        /\ tmutex' = Set(tmutex, c, t) /\ UNCHANGED <<state, idle>>
     \/ /\ state[c] = "Idle" /\ Goto(t, "Closed", "Unref")
        /\ idle' = idle \ {c} /\ UNCHANGED <<state, tmutex>>
     \/ /\ state[c] \in {"Error", "Receiving"} /\ Goto(t, "Closed", "EndSession")
        /\ UNCHANGED <<state, idle, tmutex>>
     \/ /\ state[c] = "Success" /\ Goto(t, "Closed", "Ready")
        /\ state' = Set(state, c, "Closing") /\ UNCHANGED <<idle, tmutex>>
     \/ /\ state[c] \in {"Connected", "Closing"} /\ Goto(t, "Closed", "Unref")
        /\ UNCHANGED <<state, idle, tmutex>>
  /\ conn' = IF state[c] = "Success" THEN [conn EXCEPT ![t] = NoConn] ELSE conn
  /\ UNCHANGED <<serviceVars, drainVars, eref, tref, pollVars, peerVars>>

\* Faulty variant: the list of the service is changed without its mutex.
Unkeep_NoLock(t) ==
  LET c == conn[t] IN
  /\ Goto(t, "Unkeep", "Unref")
  /\ keep_alive_list' = Remove(keep_alive_list, c)
  /\ tmutex' = Set(tmutex, c, NoThread)
  /\ UNCHANGED <<serviceVars, smutex, victim, entryVars, idle, pollVars, conn, peerVars>>

\* The case CONN_STATE_KEEPALIVE, under the service's mutex: drain may have been
\* faster.
Unkeep(t) ==
  LET c == conn[t] IN
  /\ smutex = NoThread
  /\ Goto(t, "Unkeep", "Unref")
  /\ keep_alive_list' = IF state[c] = "KeepAlive" THEN RemoveFirst(keep_alive_list, c)
                                                  ELSE keep_alive_list
  /\ tmutex' = Set(tmutex, c, NoThread)
  /\ UNCHANGED <<serviceVars, smutex, victim, entryVars, idle, pollVars, conn, peerVars>>

\* session->handle at the end: the task and its session are deleted.
EndSession(t) ==
  /\ \/ Goto(t, "Replied", "UnrefReplied")
     \/ Goto(t, "EndSession", "Unref") \/ Goto(t, "WriteFailed", "Unref")
  /\ TargetDecref(conn[t])
  /\ UNCHANGED <<listening, listener, conn_count, drainVars, state, eref, idle, tmutex,
                 pollVars, conn, peerVars>>

\* The reference to the entry is given back; the last one releases it.
Unref(t) ==
  LET c == conn[t] IN
  /\ \/ Goto(t, "UnrefReplied", "Unref") /\ UNCHANGED conn
     \/ Goto(t, "Unref", "Ready") /\ Leave(t)
  /\ eref' = Set(eref, c, eref[c] - 1)
  /\ \/ eref[c] = 1 /\ Drop(t)
     \/ eref[c] # 1 /\ UNCHANGED <<state, conn_count, tref, ref, unbind_finish, peerVars>>
  /\ UNCHANGED <<listening, listener, drainVars, idle, tmutex, pollVars>>

-----------------------------------------------------------------------------
(***************************************************************************)
(* WFServerBase, called by its owner.                                      *)
(***************************************************************************)
\* start, init and Communicator::bind, which may fail.
Start(t, from, to, failed) ==
  \/ /\ Goto(t, from, to)
     /\ listening' = TRUE /\ listener' = "on" /\ ref' = 1
     /\ UNCHANGED <<unbind_finish, conn_count, drainVars, entryVars, idle, tmutex, pollVars,
                    conn, peerVars>>
  \/ /\ Goto(t, from, failed)
     /\ UNCHANGED <<serviceVars, drainVars, entryVars, idle, tmutex, pollVars, conn, peerVars>>

\* shutdown and Communicator::unbind; without a node, shutdown_service is run here.
Shutdown(t, from) ==
  /\ \/ listener = "on" /\ listener' = "deleted" /\ Goto(t, from, "WaitFinish")
     \/ listener # "on" /\ Goto(t, from, "Unlisten") /\ UNCHANGED listener
  /\ UNCHANGED <<listening, ref, unbind_finish, conn_count, drainVars, entryVars, idle,
                 tmutex, pollVars, conn, peerVars>>

\* wait_finish.
WaitFinish(t, to) ==
  /\ unbind_finish
  /\ Goto(t, "WaitFinish", to)
  /\ unbind_finish' = FALSE
  /\ UNCHANGED <<listening, listener, ref, conn_count, drainVars, entryVars, idle,
                 tmutex, pollVars, conn, peerVars>>

\* A step of shutdown_service, by whoever runs it.
ShutdownStep(t) == CloseListen(t) \/ DrainTake(t) \/ DrainMark(t) \/ EndShutdown(t)

\* What a handler thread does with a result.
HandlerStep(t) ==
  \/ Get(t) \/ HandleStop(t) \/ NewConnection(t) \/ NoRoom(t) \/ Enter(t)
  \/ ShutdownStep(t)
  \/ ToReply(t) \/ NothingToReply(t) \/ ReplyAll(t) \/ ReplyPart(t)
  \/ ReplyFails(t) \/ Keep(t) \/ Written(t) \/ Closed(t) \/ Unkeep(t)
  \/ EndSession(t) \/ Unref(t)

PollerStep(c) == Deleted(c) \/ Read(c) \/ CreateRequest(c) \/ Refuse(c) \/ Write(c)
=============================================================================
