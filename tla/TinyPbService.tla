--------------------------- MODULE TinyPbService ---------------------------
(***************************************************************************)
(* The server's work on a request: on_process (tinypb_rpc_server.cc), the  *)
(* dispatcher, the lazily filled table of crc32, and the metrics of a      *)
(* request, down to the atomics of the latency histogram                   *)
(* (MetricsHistogram).  Requests are processed by several handler threads  *)
(* while the application registers services and /metrics is scraped.       *)
(***************************************************************************)
EXTENDS MetricsHistogram, TinyPbCodec, FiniteSets, FiniteSetsExt

CONSTANTS
  Dot,          \* the unit '.'
  Unknown,      \* the string "unknown"
  Requests,     \* TinyPbStructs clients send
  Methods,      \* the methods of each service the application has
  Registered,   \* the services it registers before the start
  Parses(_),    \* does the pb_data parse?
  MaxRequests   \* bound: requests the server gets

NoStruct == [msg_req |-> <<>>, service_full_name |-> <<>>, err_code |-> 0,
             err_info |-> <<>>, pb_data |-> <<>>]

\* Every client numbers its requests, and no identifier has a dot in it.
ASSUME ServiceAssumption ==
  /\ IsFiniteSet(Threads)
  /\ Dot \in Int /\ Unknown \in Seq(Int)
  /\ Requests \subseteq TinyPbStruct /\ NoStruct \notin Requests
  /\ Registered \subseteq DOMAIN Methods
  /\ \A s \in DOMAIN Methods :
       s \in Seq(Int) /\ \A m \in Methods[s] : m \in Seq(Int) /\ Dot \notin Range(m)
  /\ \A r \in Requests : Parses(r.pb_data) \in BOOLEAN

\* The sender of nothing that can be decoded.
Nobody == [struct |-> NoStruct, intact |-> FALSE, known |-> {}]

VARIABLES
  service_map,  \* the services registered so far
  initialized,  \* crc32: initialized
  filled,       \* crc32_table: entries written
  crc,          \* where each thread is in crc32
  at,           \* where each thread is in on_process
  message,      \* the request it got
  request,      \* request_struct
  response,     \* response_struct
  total, success, failure, \* total_requests_, success_requests_, failure_requests_
  asked,        \* history: what the client sent, and the services there were
  answer,       \* history: the reply, as the client decodes it
  got,          \* history: requests received
  sent          \* history: replies, by their outcome

table    == <<initialized, filled>>
handling == <<at, crc, message, request, response>>
counters == <<total, success, failure>>
clients  == <<asked, answer, got, sent>>
svars    == <<vars, service_map, table, handling, counters, clients>>

Dots(name) == {i \in DOMAIN name : name[i] = Dot}
Before(name, i) == SubSeq(name, 1, i - 1)
After(name, i)  == SubSeq(name, i + 1, Len(name))

Move(t, from, to) == at[t] = from /\ at' = [at EXCEPT ![t] = to]

-----------------------------------------------------------------------------
(* crc32 *)

\* The first, unlocked test of initialized.
CrcCheck(t) ==
  /\ crc[t] = "Check" /\ pc[t] = "Idle"
  /\ crc' = [crc EXCEPT ![t] = IF initialized THEN "Ready" ELSE "Lock"]
  /\ UNCHANGED <<vars, service_map, table, at, message, request, response, counters, clients>>

Filling == {t \in Threads : crc[t] \in {"Fill", "Flag"}}

\* Faulty variant: the flag is set before the table is filled.
CrcLock_FlagFirst(t) ==
  /\ crc[t] = "Lock" /\ Filling = {}
  /\ crc' = [crc EXCEPT ![t] = IF initialized THEN "Ready" ELSE "Fill"]
  /\ initialized' = TRUE
  /\ UNCHANGED <<vars, service_map, filled, at, message, request, response, counters, clients>>

\* crc32_mutex_, and the second test.
CrcLock(t) ==
  /\ crc[t] = "Lock" /\ Filling = {}
  /\ crc' = [crc EXCEPT ![t] = IF initialized THEN "Ready" ELSE "Fill"]
  /\ UNCHANGED <<vars, service_map, table, at, message, request, response, counters, clients>>

\* init_crc32_table, in two halves; the stores become visible in order.
FillTable(t) ==
  /\ crc[t] = "Fill"
  /\ filled' = filled + TableSize \div 2
  /\ crc' = [crc EXCEPT ![t] = IF filled' = TableSize THEN "Flag" ELSE "Fill"]
  /\ UNCHANGED <<vars, service_map, initialized, at, message, request, response, counters, clients>>

SetInitialized(t) ==
  /\ crc[t] = "Flag"
  /\ initialized' = TRUE
  /\ crc' = [crc EXCEPT ![t] = "Ready"]
  /\ UNCHANGED <<vars, service_map, filled, at, message, request, response, counters, clients>>

-----------------------------------------------------------------------------
(* on_process *)

\* A request arrives: as it was encoded, or damaged in the data, in the end
\* mark or by the loss of its end.
Damaged(m) ==
  {[m EXCEPT ![i] = @ + 1] : i \in {Len(m) - 2, Len(m)}} \cup {Front(m)}

Receive(t, r) ==
  /\ Move(t, "Idle", "Decode")
  /\ got < MaxRequests /\ got' = got + 1
  /\ LET m == Encode(r, TableSize)
     IN  \E x \in {m} \cup Damaged(m) :
           /\ message' = [message EXCEPT ![t] = x]
           /\ crc' = [crc EXCEPT ![t] = IF Framed(x) THEN "Check" ELSE "None"]
           /\ asked' = [asked EXCEPT ![t] = IF x = m
                THEN [struct |-> r, intact |-> TRUE, known |-> service_map]
                ELSE Nobody]
  /\ UNCHANGED <<vars, service_map, table, request, response, counters, answer, sent>>

\* decode succeeds.
DecodeRequest(t) ==
  /\ Move(t, "Decode", "Request") /\ crc[t] = "Ready"
  /\ Decodes(message[t], filled)
  /\ request' = [request EXCEPT ![t] = Fields(message[t])]
  /\ message' = [message EXCEPT ![t] = <<>>] /\ crc' = [crc EXCEPT ![t] = "None"]
  /\ UNCHANGED <<vars, service_map, table, response, counters, clients>>

\* decode fails: a failure of an unknown method, and no latency.
RefuseRequest(t) ==
  /\ Move(t, "Decode", "Encode") /\ crc[t] \in {"None", "Ready"}
  /\ crc[t] = "Ready" => ~Decodes(message[t], filled)
  /\ failure' = failure + 1
  /\ response' = [response EXCEPT ![t] = [NoStruct EXCEPT !.msg_req = Unknown, !.err_code = 400]]
  /\ message' = [message EXCEPT ![t] = <<>>] /\ crc' = [crc EXCEPT ![t] = "Check"]
  /\ UNCHANGED <<vars, service_map, table, request, total, success, clients>>

RecordRequest(t) ==
  /\ Move(t, "Request", "Dispatch")
  /\ total' = total + 1
  /\ UNCHANGED <<vars, service_map, table, crc, message, request, response, success, failure, clients>>

\* dispatch answers with the name and number of the request.
Respond(t, code, pb) ==
  response' = [response EXCEPT ![t] =
    [request[t] EXCEPT !.err_code = code, !.err_info = <<>>, !.pb_data = pb]]

\* The service and the method are split at the last dot (on_process splits at
\* the first, to name the per-method metrics).
LastDot(t) == Max(Dots(request[t].service_full_name))
ServiceName(t) == Before(request[t].service_full_name, LastDot(t))
MethodName(t)  == After(request[t].service_full_name, LastDot(t))

\* Faulty variant: split where on_process does.
Dispatch_FirstDot(t) ==
  /\ at[t] = "Dispatch"
  /\ LET name == request[t].service_full_name
         found == Dots(name) # {} /\ Before(name, Min(Dots(name))) \in service_map
     IN  IF found THEN at' = [at EXCEPT ![t] = "Call"] /\ UNCHANGED response
         ELSE at' = [at EXCEPT ![t] = "Outcome"]
              /\ Respond(t, IF Dots(name) = {} THEN 400 ELSE 404, <<>>)
  /\ UNCHANGED <<vars, service_map, table, crc, message, request, counters, clients>>

\* dispatch, up to the lookup under mutex_.
Dispatch(t) ==
  LET named == Dots(request[t].service_full_name) # {}
      found == named /\ ServiceName(t) \in service_map
  IN  /\ \/ Move(t, "Dispatch", "Call") /\ found /\ UNCHANGED response
         \/ Move(t, "Dispatch", "Outcome") /\ ~named /\ Respond(t, 400, <<>>)
         \/ Move(t, "Dispatch", "Outcome") /\ named /\ ~found /\ Respond(t, 404, <<>>)
      /\ UNCHANGED <<vars, service_map, table, crc, message, request, counters, clients>>

\* The rest of dispatch, with the service it found.  What the method answers
\* may fail to serialise.
CallMethod(t) ==
  LET known == MethodName(t) \in Methods[ServiceName(t)]
      good  == known /\ Parses(request[t].pb_data)
  IN  /\ Move(t, "Call", "Outcome")
      /\ \/ ~known /\ Respond(t, 404, <<>>)
         \/ known /\ ~good /\ Respond(t, 422, <<>>)
         \/ good /\ Respond(t, 500, <<>>)
         \/ good /\ Respond(t, 0, request[t].pb_data)
      /\ UNCHANGED <<vars, service_map, table, crc, message, request, counters, clients>>

\* record_success or record_failure.
RecordOutcome(t) ==
  /\ Move(t, "Outcome", "Latency")
  /\ \/ /\ response[t].err_code = 0
        /\ success' = success + 1
        /\ UNCHANGED failure
     \/ /\ response[t].err_code # 0
        /\ failure' = failure + 1
        /\ UNCHANGED success
  /\ UNCHANGED <<vars, service_map, table, crc, message, request, response, total, clients>>

\* Faulty variant: no latency for a request that failed.
RecordLatency_OnSuccess(t) ==
  /\ Move(t, "Latency", "Encode")
  /\ crc' = [crc EXCEPT ![t] = "Check"]
  /\ IF response[t].err_code = 0 THEN \E v \in Values : Record(t, v) ELSE UNCHANGED vars
  /\ UNCHANGED <<service_map, table, message, request, response, counters, clients>>

\* record_latency: request_latency_.record; its other steps are Step(t), and
\* encode comes after them.
RecordLatency(t) ==
  /\ Move(t, "Latency", "Encode")
  /\ crc' = [crc EXCEPT ![t] = "Check"]
  /\ \E v \in Values : Record(t, v)
  /\ UNCHANGED <<service_map, table, message, request, response, counters, clients>>

\* encode, and the reply.  The client decodes it.
EncodeReply(t) ==
  /\ Move(t, "Encode", "Replied") /\ crc[t] = "Ready"
  /\ LET m == Encode(response[t], filled)
     IN  answer' = [answer EXCEPT ![t] =
           IF Decodes(m, TableSize) THEN Fields(m) ELSE NoStruct]
  /\ crc' = [crc EXCEPT ![t] = "None"]
  /\ UNCHANGED <<vars, service_map, table, message, request, response, counters, asked, got, sent>>

\* on_process returns.
Outcome(t) ==
  CASE response[t].err_code = 0 -> "ok"
    [] request[t] = NoStruct -> "refused"
    [] OTHER -> "error"

Return(t) ==
  /\ Move(t, "Replied", "Idle")
  /\ sent' = [sent EXCEPT ![Outcome(t)] = @ + 1]
  /\ request' = [request EXCEPT ![t] = NoStruct]
  /\ response' = [response EXCEPT ![t] = NoStruct]
  /\ answer' = [answer EXCEPT ![t] = NoStruct]
  /\ asked' = [asked EXCEPT ![t] = Nobody]
  /\ UNCHANGED <<vars, service_map, table, crc, message, counters, got>>

\* registerService, at any time.  A name is not registered a second time
\* while requests are processed: that would destroy the service in use.
RegisterService(s) ==
  /\ s \notin service_map
  /\ service_map' = service_map \cup {s}
  /\ UNCHANGED <<vars, table, handling, counters, clients>>

-----------------------------------------------------------------------------
ServiceInit ==
  /\ Init
  /\ service_map = Registered /\ initialized = FALSE /\ filled = 0
  /\ crc = [t \in Threads |-> "None"]
  /\ at = [t \in Threads |-> "Idle"]
  /\ message = [t \in Threads |-> <<>>]
  /\ request = [t \in Threads |-> NoStruct]
  /\ response = [t \in Threads |-> NoStruct]
  /\ total = 0 /\ success = 0 /\ failure = 0
  /\ asked = [t \in Threads |-> Nobody]
  /\ answer = [t \in Threads |-> NoStruct]
  /\ got = 0 /\ sent = [ok |-> 0, error |-> 0, refused |-> 0]

Process(t) ==
  \/ CrcCheck(t) \/ CrcLock(t) \/ FillTable(t) \/ SetInitialized(t)
  \/ DecodeRequest(t) \/ RefuseRequest(t) \/ RecordRequest(t)
  \/ Dispatch(t) \/ CallMethod(t) \/ RecordOutcome(t) \/ RecordLatency(t)
  \/ EncodeReply(t) \/ Return(t)

\* Bound: a scrape begins when the last requests have got to their latencies and
\* all services are registered; after one that has shown a record the next
\* comes at the end.
ScrapeBound ==
  spc = "Idle" =>
    /\ got = MaxRequests /\ service_map = DOMAIN Methods
    /\ \A t \in Threads : at[t] \in {"Idle", "Latency", "Encode", "Replied"}
    /\ scraped.count = 0 \/ \A t \in Threads : at[t] = "Idle"

ServiceNext ==
  \/ \E t \in Threads :
       \/ Process(t)
       \/ \E r \in Requests : Receive(t, r)
       \/ Step(t) /\ UNCHANGED <<service_map, table, handling, counters, clients>>
  \/ \E s \in DOMAIN Methods : RegisterService(s)
  \/ /\ Scrape /\ ScrapeBound
     /\ UNCHANGED <<service_map, table, handling, counters, clients>>

ServiceSpec == ServiceInit /\ [][ServiceNext]_svars

-----------------------------------------------------------------------------
\* Types.
ServiceTypeOK ==
  /\ service_map \subseteq DOMAIN Methods
  /\ initialized \in BOOLEAN /\ filled \in 0..TableSize
  /\ crc \in [Threads -> {"None", "Check", "Lock", "Fill", "Flag", "Ready"}]
  /\ at \in [Threads -> {"Idle", "Decode", "Request", "Dispatch", "Call", "Outcome",
                         "Latency", "Encode", "Replied"}]
  /\ \A t \in Threads : at[t] \notin {"Idle", "Decode", "Encode", "Replied"} => request[t] \in Requests
  /\ total \in Nat /\ success \in Nat /\ failure \in Nat

(***************************************************************************)
(* No checksum is computed with a table that is not complete, although     *)
(* initialized is read without the lock (crc32, tinypb_codec.cc:30).       *)
(***************************************************************************)
TableComplete ==
  \A t \in Threads : crc[t] = "Ready" => filled = TableSize

\* The types of the service and of its histogram, where the limits of int64_t
\* are never exported, and the table of crc32: nothing is used half made.
ServiceSound == TypeOK /\ ServiceTypeOK /\ TableComplete

(***************************************************************************)
(* What a client decodes is the answer to what it sent: the number and     *)
(* name of its request with the verdict on that name and that data; a      *)
(* damaged request is refused, and never taken for another.  A service     *)
(* registered while the request is processed may or may not be found       *)
(* (on_process, dispatch, encode and decode).                              *)
(***************************************************************************)
Verdicts(r, method_known) ==
  CASE method_known /\ Parses(r.pb_data)  -> {0, 500}
    [] method_known /\ ~Parses(r.pb_data) -> {422}
    [] Dot \notin Range(r.service_full_name) -> {400}
    [] OTHER -> {404}

Names(r, s, m) == r.service_full_name = s \o <<Dot>> \o m

RightReply ==
  \A t \in Threads : at[t] = "Replied" =>
    LET r == asked[t].struct
        a == answer[t]
        has(services) == \E s \in services : \E m \in Methods[s] : Names(r, s, m)
    IN  IF asked[t].intact
        THEN /\ a.msg_req = r.msg_req /\ a.service_full_name = r.service_full_name
             /\ a.err_code \in Verdicts(r, has(asked[t].known))
                          \cup Verdicts(r, has(service_map))
             /\ a.err_code = 0 => a.pb_data = r.pb_data
        ELSE a.err_code = 400 /\ a.msg_req = Unknown

(***************************************************************************)
(* Every request is counted once: in total_requests_ and then in exactly   *)
(* one of the outcomes, the one its reply reports, and its latency once; a *)
(* request that cannot be decoded is a failure and nothing else            *)
(* (on_process).                                                           *)
(***************************************************************************)
In(places) == Cardinality({t \in Threads : at[t] \in places})
Ending(what) == Cardinality({t \in Threads : at[t] \in {"Latency", "Encode", "Replied"} /\ Outcome(t) = what})

RequestsCounted ==
  LET open == {"Dispatch", "Call", "Outcome"}
      refused == sent.refused + Ending("refused")
  IN  /\ total + refused = success + failure + In(open)
      /\ total = records + In(open \cup {"Latency"})
      /\ records = count + Cardinality({t \in Threads : pc[t] = "AddCount"})
      /\ success = sent.ok + Ending("ok")
      /\ failure = sent.error + Ending("error") + refused
=============================================================================
