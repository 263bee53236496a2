---------------------------- MODULE RpcFramework ----------------------------
(***************************************************************************)
(* RpcClient and RpcServer on a keep-alive connection: a task sends its    *)
(* request, the server parses it in pieces, on_process looks the handler   *)
(* up and runs it, and the client parses the response in pieces.           *)
(*                                                                         *)
(* Workflow is external: one request at a time on a connection, a new      *)
(* connection and at most retry_max repetitions when one is lost or times  *)
(* out.  on_process goes on for a request whose connection is lost, but    *)
(* its response is dropped and nothing else it does can be seen: it leaves *)
(* the model with the connection.                                          *)
(***************************************************************************)
EXTENDS RpcMessage, FiniteSets

CONSTANTS Methods,      \* what clients call: records [id, service, method]
          Payloads,     \* request payloads
          HASH,         \* the character '#'
          RetryMax,     \* retry_max
          MaxRequests   \* bound: sequence numbers handed out

ASSUME FrameworkAssumption ==
  /\ RetryMax \in Nat /\ MaxRequests \in Nat /\ HASH \in Int
  /\ Methods \subseteq [id : Int \ {0}, service : Seq(Int), method : Seq(Int)]
  /\ Payloads \subseteq Seq(Int)
  \* The id stands for the method: its handler answers with it.
  /\ \A m, n \in Methods : m.id = n.id <=> m.service = n.service /\ m.method = n.method
  \* No name holds a '#': it separates service and method in handlers_.
  /\ \A m \in Methods : \A i \in 1..Len(m.service) : m.service[i] # HASH
  /\ \A m \in Methods : \A i \in 1..Len(m.method) : m.method[i] # HASH

VARIABLES
  \* the client
  seq,       \* next_sequence's counter
  task,      \* "idle" or "waiting" for the response
  request,   \* the last task's request, with the id of the method it calls
  known,     \* history: that method had a handler when the task was created
  retries,   \* repetitions so far
  outcome,   \* what the last callback was given
  \* the connection
  wire,      \* what was sent and has not been delivered, in each direction
  parser,    \* the message being received, in each direction
  \* the server
  handlers,  \* handlers_: pairs of a key and the id of the handler
  jobs       \* requests in on_process

clientVars == <<seq, task, request, known, retries, outcome>>
connVars   == <<wire, parser>>
vars == <<clientVars, connVars, handlers, jobs>>

\* RpcStatus, as far as this path uses it.
RPC_OK                    == 0
RPC_BAD_REQUEST           == 400
RPC_NOT_FOUND             == 404
RPC_PROTO_PARSE_ERROR     == 422
RPC_PROTO_SERIALIZE_ERROR == 423
RPC_INTERNAL_ERROR        == 500
RPC_NETWORK_ERROR         == 503

\* What a handler may answer but RPC_OK: the two errors of register_pb_method,
\* and RPC_INTERNAL_ERROR for whatever else a binary handler returns.  One that
\* returns RPC_BAD_REQUEST, RPC_NOT_FOUND or RPC_NETWORK_ERROR, which the
\* framework uses itself, is left out.
HandlerErrors == {RPC_PROTO_PARSE_ERROR, RPC_PROTO_SERIALIZE_ERROR, RPC_INTERNAL_ERROR}

Directions == {"req", "resp"}

NoRequest == [id |-> 0, sequence |-> 0, status |-> 0, meta |-> <<>>, payload |-> <<>>]
NoOutcome == [status |-> RPC_NETWORK_ERROR, sequence |-> 0, payload |-> <<>>]

\* Faulty variant: nothing between service and method.
KeyOf_NoHash(service, method) == service \o method

\* key_of.
KeyOf(service, method) == service \o <<HASH>> \o method

Registered(key) == \E h \in handlers : h.key = key

-----------------------------------------------------------------------------
Init ==
  /\ seq = 1 /\ task = "idle" /\ request = NoRequest /\ known = FALSE
  /\ retries = 0 /\ outcome = NoOutcome
  /\ wire = [d \in Directions |-> <<>>] /\ parser = [d \in Directions |-> Fresh]
  /\ handlers = {} /\ jobs = {}

\* register_binary_method: the handler replaces one with the same key.
RegisterMethod(m) ==
  LET key == KeyOf(m.service, m.method)
  IN  /\ handlers' = {h \in handlers : h.key # key} \cup {[key |-> key, id |-> m.id]}
      /\ UNCHANGED <<clientVars, connVars, jobs>>

\* A task starts: its request is encoded onto the connection.
StartTask(id, sequence, meta, payload) ==
  LET r == [id |-> id, sequence |-> sequence, status |-> 0, meta |-> meta, payload |-> payload]
  IN  /\ task = "idle"
      /\ task' = "waiting" /\ request' = r /\ retries' = 0
      /\ wire' = [wire EXCEPT !["req"] = @ \o Encode(r)]
      /\ UNCHANGED <<outcome, parser, handlers, jobs>>

\* next_sequence.
NextSequence == seq <= MaxRequests /\ seq' = seq + 1

\* create_pb_task with a name that is too long: the task is dismissed, and its
\* sequence number used up.
DismissTask(m) ==
  /\ ~ValidNames(m.service, m.method)
  /\ NextSequence
  /\ UNCHANGED <<task, request, known, retries, outcome, connVars, handlers, jobs>>

\* create_pb_task, and the task is started.
CallMethod(m, payload) ==
  /\ ValidNames(m.service, m.method)
  /\ NextSequence
  /\ known' = Registered(KeyOf(m.service, m.method))
  /\ StartTask(m.id, seq, ServiceMethod(m.service, m.method), payload)

\* create_task by an application that sets no sequence, service or method.
CallWithoutMethod(payload) ==
  /\ known' = FALSE
  /\ StartTask(0, 0, <<>>, payload)
  /\ UNCHANGED seq

\* The connection of a waiting task is gone: the request is sent again on a
\* new one, with a new message for the response, or the callback is given
\* RPC_NETWORK_ERROR.
Reconnect ==
  /\ jobs' = {}
  /\ parser' = [d \in Directions |-> Fresh]
  /\ \/ /\ retries < RetryMax
        /\ retries' = retries + 1
        /\ wire' = [d \in Directions |-> IF d = "req" THEN Encode(request) ELSE <<>>]
        /\ UNCHANGED <<task, outcome>>
     \/ /\ retries = RetryMax
        /\ task' = "idle" /\ outcome' = NoOutcome
        /\ wire' = [d \in Directions |-> <<>>]
        /\ UNCHANGED retries
  /\ UNCHANGED <<seq, request, known, handlers>>

\* A failure of the network, or a timeout of the task.
LoseConnection == task = "waiting" /\ Reconnect

\* The next message of a direction begins; what append left over is its start.
Advance(d, p, used) ==
  /\ parser' = [parser EXCEPT ![d] = p]
  /\ wire' = [wire EXCEPT ![d] = SubSeq(@, used + 1, Len(@))]

\* A piece of a request arrives at the server.  A complete request goes to
\* on_process; a bad header closes the connection.
ReceiveRequest(n) ==
  LET r == AppendPiece(parser["req"], SubSeq(wire["req"], 1, n))
  IN  \/ /\ r.ret = 0
         /\ Advance("req", r.msg, r.used)
         /\ UNCHANGED <<clientVars, handlers, jobs>>
      \/ /\ r.ret = 1
         /\ Advance("req", Fresh, r.used)
         /\ jobs' = jobs \cup {[sequence |-> r.msg.sequence, meta |-> r.msg.meta,
                                payload |-> r.msg.payload, handler |-> 0]}
         /\ UNCHANGED <<clientVars, handlers>>
      \/ r.ret = -1 /\ Reconnect

\* on_process ends, and Workflow encodes the response.
Reply(j, status, payload) ==
  /\ jobs' = jobs \ {j}
  /\ wire' = [wire EXCEPT !["resp"] =
               @ \o Encode([sequence |-> j.sequence, status |-> status,
                            meta |-> <<>>, payload |-> payload])]
  /\ UNCHANGED <<clientVars, parser, handlers>>

\* Some text that explains the status.
ErrorText == <<HASH>>

\* Faulty variant: a request for an unknown method waits until it is registered.
FindHandler_Waits(j) ==
  /\ j.handler = 0
  /\ \/ ~HasServiceMethod(j.meta) /\ Reply(j, RPC_BAD_REQUEST, ErrorText)
     \/ /\ HasServiceMethod(j.meta)
        /\ \E h \in handlers :
             /\ h.key = KeyOf(ServiceOf(j.meta), MethodOf(j.meta))
             /\ jobs' = (jobs \ {j}) \cup {[j EXCEPT !.handler = h.id]}
             /\ UNCHANGED <<clientVars, connVars, handlers>>

\* on_process up to the end of its critical section: the handler is copied.
FindHandler(j) ==
  /\ j.handler = 0
  /\ \/ ~HasServiceMethod(j.meta) /\ Reply(j, RPC_BAD_REQUEST, ErrorText)
     \/ /\ HasServiceMethod(j.meta)
        /\ LET key == KeyOf(ServiceOf(j.meta), MethodOf(j.meta))
           IN  \/ ~Registered(key) /\ Reply(j, RPC_NOT_FOUND, ErrorText)
               \/ \E h \in handlers :
                    /\ h.key = key
                    /\ jobs' = (jobs \ {j}) \cup {[j EXCEPT !.handler = h.id]}
                    /\ UNCHANGED <<clientVars, connVars, handlers>>

\* The handler runs.  It answers with its id and the payload it was given, twice,
\* or with a status of its own, and then the payload stays empty.
RunHandler(j) ==
  /\ j.handler # 0
  /\ \/ Reply(j, RPC_OK, <<j.handler>> \o j.payload \o j.payload)
     \/ \E s \in HandlerErrors : Reply(j, s, <<>>)

\* The callback of a task, which ends it.
Callback(status, sequence, payload) ==
  /\ task' = "idle"
  /\ outcome' = [status |-> status, sequence |-> sequence, payload |-> payload]
  /\ UNCHANGED <<seq, request, known, retries>>

\* A piece of a response arrives at the client.  The callback of create_pb_task
\* is given the status of the response, or RPC_PROTO_PARSE_ERROR if the payload
\* of a good one cannot be parsed.
ReceiveResponse(n) ==
  LET r == AppendPiece(parser["resp"], SubSeq(wire["resp"], 1, n))
  IN  \/ /\ r.ret = 0
         /\ Advance("resp", r.msg, r.used)
         /\ UNCHANGED <<clientVars, handlers, jobs>>
      \/ /\ r.ret = 1
         /\ Advance("resp", Fresh, r.used)
         /\ \/ Callback(r.msg.status, r.msg.sequence, r.msg.payload)
            \/ /\ r.msg.status = RPC_OK
               /\ Callback(RPC_PROTO_PARSE_ERROR, r.msg.sequence, <<>>)
         /\ UNCHANGED <<handlers, jobs>>
      \/ r.ret = -1 /\ Reconnect

Receive == \/ \E n \in 1..Len(wire["req"]) : ReceiveRequest(n)
           \/ \E n \in 1..Len(wire["resp"]) : ReceiveResponse(n)

Process == \E j \in jobs : FindHandler(j) \/ RunHandler(j)

Next == \/ \E m \in Methods : RegisterMethod(m) \/ DismissTask(m) \/ \E x \in Payloads : CallMethod(m, x)
        \/ \E x \in Payloads : CallWithoutMethod(x)
        \/ LoseConnection \/ Receive \/ Process

Spec == Init /\ [][Next]_vars

(***************************************************************************)
(* What was sent arrives, and on_process of every request runs to its end, *)
(* unless the connection is lost.  Nobody has to call or to register.      *)
(***************************************************************************)
FairSpec == Spec /\ WF_vars(Receive) /\ WF_vars(Process)

-----------------------------------------------------------------------------
\* What the receiver of a direction has taken of the message it is receiving.
Received(p) == p.header \o p.meta \o p.payload

(***************************************************************************)
(* However the stream is cut, the receiver has a beginning of the message  *)
(* that was sent and the wire has the rest: append neither loses, repeats  *)
(* nor misplaces a byte (rpc_message.cc:204-273), and a response under way *)
(* is for the task that waits.  A message that is complete is handed over  *)
(* at once, and none above the size limit gets past its header.            *)
(***************************************************************************)
Framing ==
  /\ \A d \in Directions :
       /\ Len(parser[d].header) <= RPC_HEADER_SIZE
       /\ ~Complete(parser[d])
       /\ parser[d].expected_meta_len + parser[d].expected_payload_len <= SizeLimit
  /\ Received(parser["req"]) \o wire["req"] \in {<<>>, Encode(request)}
  /\ LET bytes == Received(parser["resp"]) \o wire["resp"]
     IN  bytes # <<>> => bytes[1] = RPC_MAGIC /\ bytes[2] = request.sequence

(***************************************************************************)
(* A task that waits has its request on the wire, or in on_process, or its *)
(* response on the wire, and exactly one of the three: no message waits    *)
(* for bytes that nobody sends.  An idle connection has none of them left, *)
(* so the next task on it starts clean (rpc_message.cc:204-273,            *)
(* rpc_framework.cc:61-95).                                                *)
(***************************************************************************)
InOnePlace ==
  Cardinality({d \in Directions : wire[d] # <<>>}) + Cardinality(jobs)
    = IF task = "waiting" THEN 1 ELSE 0

(***************************************************************************)
(* A callback is given the answer to its own request by the handler of the *)
(* method it named: no other sequence number, handler or payload, "not     *)
(* found" only if the method was not registered when the task was created, *)
(* and "bad request" only without a method (rpc_framework.cc:61-95).       *)
(***************************************************************************)
AnswersOwnRequest ==
  task = "idle" /\ outcome.status # RPC_NETWORK_ERROR =>
    /\ outcome.sequence = request.sequence
    /\ outcome.status = RPC_OK => outcome.payload = <<request.id>> \o request.payload \o request.payload
    /\ outcome.status = RPC_NOT_FOUND => ~known
    /\ outcome.status = RPC_BAD_REQUEST <=> request.id = 0

(***************************************************************************)
(* Every task ends: its callback runs, with a response or with             *)
(* RPC_NETWORK_ERROR, whatever is lost (retry_max, rpc_framework.cc:97).   *)
(***************************************************************************)
EveryTaskEnds == task = "waiting" ~> task = "idle"
=============================================================================
