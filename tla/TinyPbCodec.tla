---------------------------- MODULE TinyPbCodec ----------------------------
(***************************************************************************)
(* TinyPbCodec (tinypb_codec.cc) as operators.  A message is a sequence of *)
(* units: a character is one, and so is an integer in network byte order.  *)
(* The checksum is the table-driven one of crc32, over a table of          *)
(* TableSize entries that the first caller fills; filled is the number of  *)
(* entries that have been written.                                         *)
(***************************************************************************)
EXTENDS Integers, Sequences, SequencesExt

\* A request or a reply.
TinyPbStruct == [msg_req : Seq(Int), service_full_name : Seq(Int), err_code : Int,
                 err_info : Seq(Int), pb_data : Seq(Int)]

TINYPB_START == 2
TINYPB_END   == 3
TINYPB_FIXED_HEADER_SIZE == 8  \* start, 5 integers, checksum, end

\* 256 entries of four bytes, scaled down to entries of two digits; a sum of
\* two words stands for their exclusive or.
TableSize == 32

\* init_crc32_table, after it has written the first entries; the rest of a
\* static array is zero.  As in the real table no two entries agree in their
\* high part.
Crc32Table(filled) ==
  [i \in 0..(TableSize - 1) |->
     IF i < filled THEN ((7 * i + 3) % TableSize) * TableSize + i ELSE 0]

Crc32(data, filled) ==
  LET table == Crc32Table(filled)
      initial == TableSize * TableSize - 1
      crc[n \in 0..Len(data)] ==  \* after n units
        IF n = 0 THEN initial
        ELSE LET c == crc[n - 1]
             IN  (table[(c + data[n]) % TableSize] + c \div TableSize)
                   % (TableSize * TableSize)
  IN  initial - crc[Len(data)]

\* encode: everything between the start mark and the checksum is summed.
Encode(d, filled) ==
  LET body == <<Len(d.msg_req)>> \o d.msg_req
           \o <<Len(d.service_full_name)>> \o d.service_full_name
           \o <<d.err_code, Len(d.err_info)>> \o d.err_info \o d.pb_data
      total == Len(body) + 4
      summed == <<total - 2>> \o body
  IN  <<TINYPB_START>> \o summed \o <<Crc32(summed, filled), TINYPB_END>>

\* What decode tests before it reads the rest of the message.
Framed(m) ==
  /\ Len(m) >= TINYPB_FIXED_HEADER_SIZE
  /\ m[1] = TINYPB_START
  /\ m[2] + 2 = Len(m)

\* The four variable fields, each where the lengths before it put it.
Fields(m) ==
  LET req  == 3
      name == req + 1 + m[req]
      code == name + 1 + m[name]
      info == code + 1
      pb   == info + 1 + m[info]
  IN  [msg_req           |-> SubSeq(m, req + 1, name - 1),
       service_full_name |-> SubSeq(m, name + 1, code - 1),
       err_code          |-> m[code],
       err_info          |-> SubSeq(m, info + 1, pb - 1),
       pb_data           |-> SubSeq(m, pb, Len(m) - 2)]

\* What decode tests after it: the checksum and the end mark.
Intact(m, filled) ==
  /\ Crc32(SubSeq(m, 2, Len(m) - 2), filled) = m[Len(m) - 1]
  /\ m[Len(m)] = TINYPB_END

Decodes(m, filled) == Framed(m) /\ Intact(m, filled)
=============================================================================
