----------------------------- MODULE RpcMessage -----------------------------
(***************************************************************************)
(* RpcMessage: the encoding of a message and the parser that Workflow      *)
(* feeds with whatever pieces the network delivers.                        *)
(*                                                                         *)
(* A stream is a sequence of units.  A field of the header or a length in  *)
(* the meta data is one unit (cutting a field in two is no different from  *)
(* cutting beside it: the parser copies bytes), and so is a character of a *)
(* name or of a payload.                                                   *)
(***************************************************************************)
EXTENDS Integers, Sequences

CONSTANTS RPC_MAGIC,   \* magic and version
          SizeLimit,   \* size_limit
          MaxName      \* the greatest length of a name, 0xffff

ASSUME MessageAssumption == RPC_MAGIC \in Nat /\ SizeLimit \in Nat /\ MaxName \in Nat \ {0}

\* magic, sequence, status, meta_len, payload_len
RPC_HEADER_SIZE == 5

Lesser(a, b) == IF a < b THEN a ELSE b

-----------------------------------------------------------------------------
\* set_service_method: the meta data of a request.  The lengths have 16 bits.
ServiceMethod(service, method) ==
  <<Len(service) % (MaxName + 1), Len(method) % (MaxName + 1)>> \o service \o method

\* The names set_service_method accepts.
ValidNames(service, method) == Len(service) <= MaxName /\ Len(method) <= MaxName

\* get_service_method: false, or what service and method are set to.
HasServiceMethod(meta) == Len(meta) >= 2 /\ Len(meta) = 2 + meta[1] + meta[2]

ServiceOf(meta) == SubSeq(meta, 3, 2 + meta[1])
MethodOf(meta)  == SubSeq(meta, 3 + meta[1], Len(meta))

\* encode: the header, and what there is of meta data and payload.
Encode(m) ==
  <<RPC_MAGIC, m.sequence, m.status, Len(m.meta), Len(m.payload)>> \o m.meta \o m.payload

-----------------------------------------------------------------------------
\* The receiving side of a message: the header as far as it has come, the
\* expected lengths, and as much of the body as has come.
Fresh == [header |-> <<>>, header_ready |-> FALSE, expected_meta_len |-> 0,
          expected_payload_len |-> 0, sequence |-> 0, status |-> 0,
          meta |-> <<>>, payload |-> <<>>]

\* What decode_header accepts.
ValidHeader(h) == h[1] = RPC_MAGIC /\ h[4] + h[5] <= SizeLimit

DecodeHeader(p, h) ==
  [p EXCEPT !.header = h, !.header_ready = TRUE, !.sequence = h[2], !.status = h[3],
            !.expected_meta_len = h[4], !.expected_payload_len = h[5]]

\* Faulty variant: a message without a payload is never complete.
Complete_NeedsPayload(p) == /\ p.header_ready
                            /\ Len(p.meta) = p.expected_meta_len
                            /\ Len(p.payload) = p.expected_payload_len
                            /\ p.payload # <<>>

\* Both parts have come to their end.
Complete(p) == /\ p.header_ready
               /\ Len(p.meta) = p.expected_meta_len
               /\ Len(p.payload) = p.expected_payload_len

\* Faulty variant: the payload is copied from where the meta data was.
AppendBody_Overlaps(p, buf, n) ==
  LET m == Lesser(Len(buf) - n, p.expected_meta_len - Len(p.meta))
      l == Lesser(Len(buf) - n - m, p.expected_payload_len - Len(p.payload))
      q == [p EXCEPT !.meta = @ \o SubSeq(buf, n + 1, n + m),
                     !.payload = @ \o SubSeq(buf, n + 1, n + l)]
  IN  [msg |-> q, used |-> n + m + l, ret |-> IF Complete(q) THEN 1 ELSE 0]

\* append after the header: fill the meta data, then the payload, from buf,
\* of which the header took the first n.
AppendBody(p, buf, n) ==
  LET m == Lesser(Len(buf) - n, p.expected_meta_len - Len(p.meta))
      l == Lesser(Len(buf) - n - m, p.expected_payload_len - Len(p.payload))
      q == [p EXCEPT !.meta = @ \o SubSeq(buf, n + 1, n + m),
                     !.payload = @ \o SubSeq(buf, n + m + 1, n + m + l)]
  IN  [msg |-> q, used |-> n + m + l, ret |-> IF Complete(q) THEN 1 ELSE 0]

\* append: the message after a piece buf, how much of buf it used, and what
\* append returns: 1 complete, 0 wants more, -1 bad header.
AppendPiece(p, buf) ==
  LET n == IF p.header_ready THEN 0 ELSE Lesser(Len(buf), RPC_HEADER_SIZE - Len(p.header))
      h == p.header \o SubSeq(buf, 1, n)
  IN  IF p.header_ready THEN AppendBody(p, buf, 0)
      ELSE IF Len(h) < RPC_HEADER_SIZE
           THEN [msg |-> [p EXCEPT !.header = h], used |-> n, ret |-> 0]
      ELSE IF ~ValidHeader(h)
           THEN [msg |-> [p EXCEPT !.header = h], used |-> n, ret |-> -1]
      ELSE AppendBody(DecodeHeader(p, h), buf, n)
=============================================================================
