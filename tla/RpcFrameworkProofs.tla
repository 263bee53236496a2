------------------------- MODULE RpcFrameworkProofs -------------------------
(***************************************************************************)
(* Proofs about RpcFramework and RpcMessage, for any methods, names,       *)
(* payloads, limits and numbers of retries, and for every way the network  *)
(* cuts a message into pieces.                                             *)
(***************************************************************************)
EXTENDS RpcFramework, FiniteSetTheorems, SequenceTheorems, TLAPS

-----------------------------------------------------------------------------
(* Parts of a stream *)

\* The units of e after the first a, up to the b-th.
Cut(e, a, b) == SubSeq(e, a + 1, b)

LEMMA CutType ==
  ASSUME NEW e \in Seq(Int), NEW a \in Nat, NEW b \in Nat, a <= b, b <= Len(e)
  PROVE  /\ Cut(e, a, b) \in Seq(Int) /\ Len(Cut(e, a, b)) = b - a
         /\ \A i \in 1..(b - a) : Cut(e, a, b)[i] = e[a + i]
<1>1. Len(e) \in Nat /\ \A i \in (a + 1)..b : e[i] \in Int
  BY LenProperties, ElementOfSeq
<1>2. /\ SubSeq(e, a + 1, b) \in Seq(Int)
      /\ Len(SubSeq(e, a + 1, b)) = IF a + 1 <= b THEN b - (a + 1) + 1 ELSE 0
      /\ \A i \in 1..(b - (a + 1) + 1) : SubSeq(e, a + 1, b)[i] = e[a + 1 + i - 1]
  BY <1>1, SubSeqProperties
<1>3. \A i \in 1..(b - a) : i \in 1..(b - (a + 1) + 1) /\ a + 1 + i - 1 = a + i
  OBVIOUS
<1> QED
  BY <1>2, <1>3 DEF Cut

LEMMA CutNone == ASSUME NEW e, NEW a \in Nat PROVE Cut(e, a, a) = <<>>
  BY SubSeqEmpty DEF Cut

LEMMA CutAll == ASSUME NEW e \in Seq(Int) PROVE Cut(e, 0, Len(e)) = e
  BY SubSeqFull DEF Cut

\* Two adjacent parts are one.
LEMMA CutJoin ==
  ASSUME NEW e \in Seq(Int), NEW a \in Nat, NEW b \in Nat, NEW c \in Nat,
         a <= b, b <= c, c <= Len(e)
  PROVE  Cut(e, a, b) \o Cut(e, b, c) = Cut(e, a, c)
<1>1. Len(e) \in Nat
  BY LenProperties
<1>2. a + 1 \in 1..(Len(e) + 1) /\ b \in ((a + 1) - 1)..Len(e) /\ c \in b..Len(e)
  BY <1>1
<1> QED
  BY <1>2, ConcatAdjacentSubSeq DEF Cut

\* A part of a part.
LEMMA CutCut ==
  ASSUME NEW e \in Seq(Int), NEW a \in Nat, NEW b \in Nat, NEW c \in Nat, NEW d \in Nat,
         a <= b, b <= Len(e), c <= d, a + d <= b
  PROVE  Cut(Cut(e, a, b), c, d) = Cut(e, a + c, a + d)
<1> DEFINE u == Cut(e, a, b)
           v == Cut(u, c, d)
           w == Cut(e, a + c, a + d)
<1>1. /\ u \in Seq(Int) /\ Len(u) = b - a /\ Len(e) \in Nat
      /\ \A i \in 1..(b - a) : u[i] = e[a + i]
  BY CutType, LenProperties
<1> HIDE DEF u
<1>2. d <= Len(u)
  BY <1>1
<1>3. /\ v \in Seq(Int) /\ Len(v) = d - c
      /\ \A i \in 1..(d - c) : v[i] = u[c + i]
  BY <1>1, <1>2, CutType
<1>4. /\ w \in Seq(Int) /\ Len(w) = (a + d) - (a + c)
      /\ \A i \in 1..((a + d) - (a + c)) : w[i] = e[(a + c) + i]
  <2>1. a + c \in Nat /\ a + d \in Nat /\ a + c <= a + d /\ a + d <= Len(e)
    BY <1>1
  <2> QED
    BY <2>1, CutType
<1> HIDE DEF v, w
<1>5. ASSUME NEW i \in 1..(d - c) PROVE v[i] = w[i]
  <2>1. c + i \in 1..(b - a) /\ a + (c + i) = (a + c) + i /\ i \in 1..((a + d) - (a + c))
    OBVIOUS
  <2> QED
    BY <1>1, <1>3, <1>4, <2>1
<1>6. v = w
  <2>1. Len(v) = d - c /\ Len(w) = d - c
    BY <1>3, <1>4
  <2> QED
    BY <1>3, <1>4, <1>5, <2>1, SeqEqual
<1> QED
  BY <1>6 DEF u, v, w

\* A concatenation, unit by unit.
LEMMA Concat ==
  ASSUME NEW s \in Seq(Int), NEW t \in Seq(Int)
  PROVE  /\ s \o t \in Seq(Int) /\ Len(s) \in Nat /\ Len(t) \in Nat /\ Len(s \o t) = Len(s) + Len(t)
         /\ \A j \in 1..Len(s) : (s \o t)[j] = s[j]
         /\ \A j \in (Len(s) + 1)..(Len(s) + Len(t)) : (s \o t)[j] = t[j - Len(s)]
<1>1. Len(s) \in Nat /\ Len(t) \in Nat
  BY LenProperties
<1> QED
  BY <1>1, ConcatProperties

\* What is a sequence unit by unit.
LEMMA CutIs ==
  ASSUME NEW e \in Seq(Int), NEW s \in Seq(Int), NEW a \in Nat, a + Len(s) <= Len(e),
         \A i \in 1..Len(s) : e[a + i] = s[i]
  PROVE  Cut(e, a, a + Len(s)) = s
<1> DEFINE u == Cut(e, a, a + Len(s))
<1>1. Len(s) \in Nat /\ Len(e) \in Nat
  BY LenProperties
<1>2. u \in Seq(Int) /\ Len(u) = Len(s) /\ \A i \in 1..Len(s) : u[i] = e[a + i]
  <2> DEFINE b == a + Len(s)
  <2>1. b \in Nat /\ a <= b /\ b <= Len(e) /\ b - a = Len(s)
    BY <1>1
  <2> HIDE DEF b
  <2>2. /\ Cut(e, a, b) \in Seq(Int) /\ Len(Cut(e, a, b)) = b - a
        /\ \A i \in 1..(b - a) : Cut(e, a, b)[i] = e[a + i]
    BY <2>1, CutType
  <2> QED
    BY <2>1, <2>2 DEF b
<1> HIDE DEF u
<1>3. u = s
  BY <1>2, SeqEqual
<1> QED
  BY <1>3 DEF u

\* The stream e has the three parts a, b and c.
HasParts(e, a, b, c) ==
  /\ e \in Seq(Int) /\ Len(e) = (Len(a) + Len(b)) + Len(c)
  /\ Len(a) \in Nat /\ Len(b) \in Nat /\ Len(c) \in Nat
  /\ \A i \in 1..Len(a) : e[i] = a[i]
  /\ \A i \in 1..Len(b) : e[Len(a) + i] = b[i]
  /\ Cut(e, Len(a), Len(a) + Len(b)) = b
  /\ Cut(e, Len(a) + Len(b), (Len(a) + Len(b)) + Len(c)) = c

LEMMA ThreeParts ==
  ASSUME NEW a \in Seq(Int), NEW b \in Seq(Int), NEW c \in Seq(Int)
  PROVE  HasParts(a \o b \o c, a, b, c)
<1> DEFINE A == Len(a)
           B == Len(b)
           C == Len(c)
           ab == a \o b
           e == ab \o c
<1>1. /\ ab \in Seq(Int) /\ Len(ab) = A + B /\ A \in Nat /\ B \in Nat
      /\ \A i \in 1..A : ab[i] = a[i]
      /\ \A i \in (A + 1)..(A + B) : ab[i] = b[i - A]
  BY Concat
<1> HIDE DEF ab, A, B
<1>2. /\ e \in Seq(Int) /\ Len(e) = Len(ab) + C /\ C \in Nat
      /\ \A i \in 1..Len(ab) : e[i] = ab[i]
      /\ \A i \in (Len(ab) + 1)..(Len(ab) + C) : e[i] = c[i - Len(ab)]
  <2>1. ab \in Seq(Int) /\ c \in Seq(Int)
    BY <1>1
  <2> QED
    BY ONLY <2>1, Concat
<1> HIDE DEF e, C
<1>3. Len(e) = (A + B) + C
  BY <1>1, <1>2
<1>4. \A i \in 1..A : e[i] = a[i]
  <2>1. TAKE i \in 1..A
  <2>2. i \in 1..Len(ab)
    BY <1>1
  <2> QED
    BY <1>1, <1>2, <2>2
<1>5. \A i \in 1..B : e[A + i] = b[i]
  <2>1. TAKE i \in 1..B
  <2>2. A + i \in 1..Len(ab) /\ A + i \in (A + 1)..(A + B) /\ (A + i) - A = i
    BY <1>1
  <2> QED
    BY <1>1, <1>2, <2>2
<1>6. \A i \in 1..C : e[(A + B) + i] = c[i]
  <2>1. TAKE i \in 1..C
  <2>2. (A + B) + i \in (Len(ab) + 1)..(Len(ab) + C) /\ ((A + B) + i) - Len(ab) = i
    BY <1>1, <1>2
  <2> QED
    BY <1>2, <2>2
<1>7. Cut(e, A, A + B) = b
  <2>1. A + B <= Len(e)
    BY <1>1, <1>2, <1>3
  <2> QED
    BY <1>1, <1>2, <1>5, <2>1, CutIs DEF B
<1>8. Cut(e, A + B, (A + B) + C) = c
  <2> DEFINE d == A + B
  <2>1. d \in Nat /\ d + C <= Len(e)
    BY <1>1, <1>2, <1>3
  <2>2. \A i \in 1..C : e[d + i] = c[i]
    BY <1>6
  <2> HIDE DEF d
  <2>3. Cut(e, d, d + C) = c
    BY <1>2, <2>1, <2>2, CutIs DEF C
  <2> QED
    BY <2>3 DEF d
<1> QED
  BY <1>1, <1>2, <1>3, <1>4, <1>5, <1>7, <1>8 DEF HasParts, e, ab, A, B, C

-----------------------------------------------------------------------------
(* A message and its stream *)

IsMessage(x) ==
  /\ x.sequence \in Int /\ x.status \in Int
  /\ x.meta \in Seq(Int) /\ x.payload \in Seq(Int)

Total(x) == RPC_HEADER_SIZE + Len(x.meta) + Len(x.payload)

\* The header, the meta data and the payload are where encode puts them.
LEMMA Layout ==
  ASSUME NEW x, IsMessage(x)
  PROVE  LET e == Encode(x)
             M == Len(x.meta)
         IN  /\ e \in Seq(Int) /\ Len(e) = Total(x)
             /\ e[1] = RPC_MAGIC /\ e[2] = x.sequence /\ e[3] = x.status
             /\ e[4] = M /\ e[5] = Len(x.payload)
             /\ Cut(e, RPC_HEADER_SIZE, RPC_HEADER_SIZE + M) = x.meta
             /\ Cut(e, RPC_HEADER_SIZE + M, Total(x)) = x.payload
<1> DEFINE M == Len(x.meta)
           N == Len(x.payload)
           h == <<RPC_MAGIC, x.sequence, x.status, M, N>>
           e == h \o x.meta \o x.payload
<1>1. M \in Nat /\ N \in Nat /\ x.meta \in Seq(Int) /\ x.payload \in Seq(Int) /\ RPC_MAGIC \in Int
  BY MessageAssumption, LenProperties DEF IsMessage
<1>2. /\ h \in Seq(Int) /\ Len(h) = 5
      /\ h[1] = RPC_MAGIC /\ h[2] = x.sequence /\ h[3] = x.status /\ h[4] = M /\ h[5] = N
  BY <1>1 DEF IsMessage
<1>3. Encode(x) = e
  BY DEF Encode
<1> HIDE DEF h
<1>4. /\ e \in Seq(Int) /\ Len(e) = (Len(h) + M) + N
      /\ \A i \in 1..Len(h) : e[i] = h[i]
      /\ Cut(e, Len(h), Len(h) + M) = x.meta /\ Cut(e, Len(h) + M, (Len(h) + M) + N) = x.payload
  <2>1. HasParts(e, h, x.meta, x.payload)
    BY <1>1, <1>2, ThreeParts
  <2> QED
    BY <2>1 DEF HasParts
<1> HIDE DEF e, M, N
<1>5. Total(x) = (5 + M) + N
  BY <1>1 DEF Total, M, N, RPC_HEADER_SIZE
<1>6. e[1] = RPC_MAGIC /\ e[2] = x.sequence /\ e[3] = x.status /\ e[4] = M /\ e[5] = N
  BY <1>2, <1>4
<1> QED
  BY <1>2, <1>3, <1>4, <1>5, <1>6 DEF M, N, RPC_HEADER_SIZE

-----------------------------------------------------------------------------
(* The parser *)

RpcParser ==
  [header : Seq(Int), header_ready : BOOLEAN, expected_meta_len : Int,
   expected_payload_len : Int, sequence : Int, status : Int, meta : Seq(Int), payload : Seq(Int)]

Greater(a, b) == IF a < b THEN b ELSE a

\* The parser p has taken the first k units of the message x.
Parsed(p, x, k) ==
  LET e == Encode(x)
      M == Len(x.meta)
      N == Len(x.payload)
  IN  /\ p \in RpcParser /\ p.header = Cut(e, 0, Lesser(k, RPC_HEADER_SIZE))
      /\ k < RPC_HEADER_SIZE => /\ ~p.header_ready /\ p.meta = <<>> /\ p.payload = <<>>
                  /\ p.expected_meta_len = 0 /\ p.expected_payload_len = 0
      /\ k >= RPC_HEADER_SIZE => /\ p.header_ready /\ p.sequence = x.sequence /\ p.status = x.status
                   /\ p.expected_meta_len = M /\ p.expected_payload_len = N /\ M + N <= SizeLimit
                   /\ p.meta = Cut(e, RPC_HEADER_SIZE, Lesser(k, RPC_HEADER_SIZE + M))
                   /\ p.payload = Cut(e, RPC_HEADER_SIZE + M, Greater(k, RPC_HEADER_SIZE + M))

\* append has used n units, is now behind the k-th, and complete if that is the last.
Takes(r, x, n, k) == /\ r.used = n /\ Parsed(r.msg, x, k)
                     /\ r.ret = IF k = Total(x) THEN 1 ELSE 0

\* append has refused the header of a message above the limit.
Refuses(r, x) == r.ret = -1 /\ Len(x.meta) + Len(x.payload) > SizeLimit

\* The body takes the whole piece, and is complete exactly at the end of the message.
LEMMA BodyTakes ==
  ASSUME NEW x, IsMessage(x), NEW k \in Nat, NEW n0 \in Nat, NEW n \in Nat, n0 <= n, RPC_HEADER_SIZE <= k + n0,
         k + n <= Total(x), NEW p, Parsed(p, x, k + n0)
  PROVE  LET r == AppendBody(p, Cut(Encode(x), k, k + n), n0)
         IN  Takes(r, x, n, k + n)
<1> DEFINE H == RPC_HEADER_SIZE
           e == Encode(x)
           M == Len(x.meta)
           N == Len(x.payload)
           at == k + n0
           len == n - n0
           buf == Cut(e, k, k + n)
           m == Lesser(Len(buf) - n0, p.expected_meta_len - Len(p.meta))
           l == Lesser(Len(buf) - n0 - m, p.expected_payload_len - Len(p.payload))
           q == [p EXCEPT !.meta = @ \o SubSeq(buf, n0 + 1, n0 + m),
                          !.payload = @ \o SubSeq(buf, n0 + m + 1, n0 + m + l)]
           L(i) == Lesser(i, H + M)
           G(i) == Greater(i, H + M)
<1>1. /\ e \in Seq(Int) /\ M \in Nat /\ N \in Nat /\ Len(e) = (H + M) + N
      /\ Total(x) = (H + M) + N /\ H \in Nat
  <2>1. M \in Nat /\ N \in Nat /\ H \in Nat
    BY LenProperties DEF IsMessage, RPC_HEADER_SIZE
  <2> QED
    BY <2>1, Layout DEF Total
<1>2. at \in Nat /\ len \in Nat /\ at + len = k + n /\ k + n \in Nat /\ H <= at
  OBVIOUS
<1>3. /\ p \in RpcParser /\ p.header = Cut(e, 0, Lesser(at, H)) /\ p.header_ready
      /\ p.sequence = x.sequence /\ p.status = x.status
      /\ p.expected_meta_len = M /\ p.expected_payload_len = N /\ M + N <= SizeLimit
      /\ p.meta = Cut(e, H, L(at)) /\ p.payload = Cut(e, H + M, G(at))
  BY <1>2 DEF Parsed
<1>5. AppendBody(p, buf, n0) = [msg |-> q, used |-> n0 + m + l, ret |-> IF Complete(q) THEN 1 ELSE 0]
  BY DEF AppendBody
<1> HIDE DEF H, e, M, N, at
<1>4. k + n <= (H + M) + N /\ at + len <= (H + M) + N /\ at <= (H + M) + N /\ k <= k + n
  BY <1>1, <1>2
<1>0. /\ H <= L(at) /\ L(at) <= H + M /\ L(at) \in Nat /\ H + M <= G(at) /\ G(at) \in Nat
      /\ H <= L(k + n) /\ L(k + n) <= H + M /\ L(k + n) \in Nat /\ H + M <= G(k + n) /\ G(k + n) \in Nat
      /\ L(at) <= Len(e) /\ L(k + n) <= Len(e) /\ H \in Nat
      /\ G(at) <= Len(e) /\ G(k + n) <= Len(e) /\ H + M \in Nat
  <2>1. ASSUME NEW i \in Nat, H <= i, i <= (H + M) + N
        PROVE  /\ H <= L(i) /\ L(i) <= H + M /\ L(i) \in Nat /\ H + M <= G(i) /\ G(i) \in Nat
               /\ L(i) <= Len(e) /\ G(i) <= Len(e)
    BY <1>1, <2>1 DEF Lesser, Greater
  <2>2. H <= k + n
    BY <1>1, <1>2
  <2>3. H \in Nat /\ H + M \in Nat
    BY <1>1
  <2> HIDE DEF L, G
  <2>4. /\ H <= L(at) /\ L(at) <= H + M /\ L(at) \in Nat /\ H + M <= G(at) /\ G(at) \in Nat
        /\ L(at) <= Len(e) /\ G(at) <= Len(e)
    BY <1>2, <1>4, <2>1
  <2> DEFINE end == k + n
  <2>5. end \in Nat /\ H <= end /\ end <= (H + M) + N
    BY <1>2, <1>4, <2>2
  <2> HIDE DEF end
  <2>6. /\ H <= L(end) /\ L(end) <= H + M /\ L(end) \in Nat /\ H + M <= G(end) /\ G(end) \in Nat
        /\ L(end) <= Len(e) /\ G(end) <= Len(e)
    BY <2>1, <2>5
  <2> QED
    BY <2>3, <2>4, <2>6 DEF end
<1>6. Len(buf) = n /\ buf \in Seq(Int)
  <2>1. k + n <= Len(e) /\ (k + n) - k = n
    BY <1>1, <1>4
  <2> QED
    BY <1>1, <1>2, <1>4, <2>1, CutType
<1> HIDE DEF buf
<1>7. Len(p.meta) = L(at) - H /\ Len(p.payload) = G(at) - (H + M)
  <2> HIDE DEF L, G
  <2>1. Len(Cut(e, H, L(at))) = L(at) - H
    BY <1>1, <1>0, CutType
  <2>2. Len(Cut(e, H + M, G(at))) = G(at) - (H + M)
    BY <1>1, <1>0, CutType
  <2> QED
    BY <1>3, <2>1, <2>2
<1>8. /\ m = Lesser(len, M - (L(at) - H))
      /\ l = Lesser(len - m, N - (G(at) - (H + M)))
  BY <1>3, <1>6, <1>7
<1>9. /\ m \in Nat /\ l \in Nat /\ m + l = len
      /\ m # 0 => L(at) = at
      /\ l # 0 => G(at) = at + m
      /\ L(at) + m = L(at + len) /\ G(at) + l = G(at + len)
  <2>1. M \in Nat /\ N \in Nat /\ H \in Nat /\ at \in Nat /\ len \in Nat /\ H <= at
        /\ at + len <= (H + M) + N
    BY <1>1, <1>2, <1>4
  <2> HIDE DEF len, m, l
  <2> QED
    BY ONLY <1>8, <2>1 DEF Lesser, Greater
<1> HIDE DEF m, l, L, G, len
<1>10. Cut(e, H, L(at)) \o SubSeq(buf, n0 + 1, n0 + m) = Cut(e, H, L(k + n))
  <2>1. SubSeq(buf, n0 + 1, n0 + m) = Cut(e, at, at + m)
    <3>1. n0 + m \in Nat /\ n0 <= n0 + m /\ k + (n0 + m) <= k + n
      BY <1>2, <1>9 DEF len
    <3>2. Cut(buf, n0, n0 + m) = Cut(e, k + n0, k + (n0 + m))
      BY <1>1, <1>2, <3>1, CutCut DEF buf
    <3>3. k + n0 = at /\ k + (n0 + m) = at + m
      BY <1>9 DEF at
    <3> QED
      BY <3>2, <3>3 DEF Cut
  <2>2. CASE m = 0
    <3>1. Cut(e, at, at + m) = <<>> /\ L(at) = L(k + n)
      BY <1>2, <1>0, <1>9, <2>2, CutNone
    <3>2. Cut(e, H, L(at)) \in Seq(Int)
      BY <1>1, <1>0, CutType
    <3> QED
      BY <2>1, <3>1, <3>2, ConcatEmptySeq
  <2>3. CASE m # 0
    <3>1. L(at) = at /\ L(k + n) = at + m /\ at + m \in Nat /\ at + m <= Len(e)
      BY <1>1, <1>2, <1>0, <1>9, <2>3
    <3>2. Cut(e, H, at) \o Cut(e, at, L(k + n)) = Cut(e, H, L(k + n))
      <4>1. at <= L(k + n) /\ H \in Nat
        BY <1>1, <1>2, <1>9, <3>1
      <4>2. e \in Seq(Int)
        BY <1>1
      <4> QED
        <5> DEFINE c == L(k + n)
        <5>1. /\ e \in Seq(Int) /\ H \in Nat /\ at \in Nat /\ c \in Nat
              /\ H <= at /\ at <= c /\ c <= Len(e)
          BY <1>0, <1>2, <4>1, <4>2
        <5> HIDE DEF c
        <5>2. Cut(e, H, at) \o Cut(e, at, c) = Cut(e, H, c)
          BY ONLY <5>1, CutJoin
        <5> QED
          BY <5>2 DEF c
    <3> QED
      BY <2>1, <3>1, <3>2
  <2> QED
    BY <2>2, <2>3
<1>11. Cut(e, H + M, G(at)) \o SubSeq(buf, n0 + m + 1, n0 + m + l) = Cut(e, H + M, G(k + n))
  <2>1. SubSeq(buf, n0 + m + 1, n0 + m + l) = Cut(e, at + m, at + m + l)
    <3>1. /\ n0 + m \in Nat /\ n0 + m + l \in Nat /\ n0 + m <= n0 + m + l
          /\ k + (n0 + m + l) <= k + n
      BY <1>2, <1>9 DEF len
    <3>2. Cut(buf, n0 + m, n0 + m + l) = Cut(e, k + (n0 + m), k + (n0 + m + l))
      <4> DEFINE c == n0 + m
                 d == n0 + m + l
      <4>1. c \in Nat /\ d \in Nat /\ c <= d /\ k + d <= k + n
        BY <3>1
      <4> HIDE DEF c, d
      <4>2. Cut(buf, c, d) = Cut(e, k + c, k + d)
        BY <1>1, <1>2, <4>1, CutCut DEF buf
      <4> QED
        BY <4>2 DEF c, d
    <3>3. k + (n0 + m) = at + m /\ k + (n0 + m + l) = at + m + l
      BY <1>9 DEF at
    <3> QED
      BY <3>2, <3>3 DEF Cut
  <2>2. CASE l = 0
    <3>1. at + m \in Nat /\ at + m + l = at + m /\ G(at) = G(k + n)
      BY <1>2, <1>0, <1>9, <2>2
    <3>2. Cut(e, at + m, at + m + l) = <<>>
      BY <3>1, CutNone
    <3>3. Cut(e, H + M, G(at)) \in Seq(Int)
      BY <1>1, <1>0, CutType
    <3> QED
      BY <2>1, <3>1, <3>2, <3>3, ConcatEmptySeq
  <2>3. CASE l # 0
    <3>1. G(at) = at + m /\ G(k + n) = at + m + l
      BY <1>1, <1>2, <1>0, <1>9, <2>3
    <3>2. Cut(e, H + M, G(at)) \o Cut(e, G(at), G(k + n)) = Cut(e, H + M, G(k + n))
      <4>1. G(at) <= G(k + n)
        BY <1>2, <1>0, <1>9, SMTT(30)
      <4>2. e \in Seq(Int)
        BY <1>1
      <4> QED
        BY ONLY <1>0, <4>1, <4>2, CutJoin, ZenonT(40)
    <3> QED
      BY <2>1, <3>1, <3>2
  <2> QED
    BY <2>2, <2>3
<1>12. /\ q \in RpcParser /\ q.header = p.header /\ q.header_ready
       /\ q.sequence = x.sequence /\ q.status = x.status
       /\ q.expected_meta_len = M /\ q.expected_payload_len = N
       /\ q.meta = Cut(e, H, L(k + n)) /\ q.payload = Cut(e, H + M, G(k + n))
  <2> DEFINE v == Cut(e, H, L(k + n))
             w == Cut(e, H + M, G(k + n))
  <2>1. v \in Seq(Int) /\ w \in Seq(Int)
    BY <1>1, <1>0, CutType
  <2>2. q = [p EXCEPT !.meta = v, !.payload = w]
    BY <1>3, <1>10, <1>11
  <2> HIDE DEF v, w, q
  <2> QED
    BY <1>3, <2>1, <2>2 DEF RpcParser, v, w
<1> HIDE DEF q
<1>13. Parsed(q, x, k + n)
  <2>1. Lesser(k + n, H) = Lesser(at, H) /\ ~(k + n < H)
    BY <1>1, <1>2 DEF Lesser
  <2> QED
    BY <1>3, <1>12, <2>1 DEF Parsed, e, H, M, N, L, G
<1>14. Complete(q) <=> k + n = Total(x)
  <2>1. Len(q.meta) = L(k + n) - H /\ Len(q.payload) = G(k + n) - (H + M)
    <3>1. Len(Cut(e, H, L(k + n))) = L(k + n) - H
      BY <1>1, <1>0, CutType
    <3>2. Len(Cut(e, H + M, G(k + n))) = G(k + n) - (H + M)
      BY <1>1, <1>0, CutType
    <3> QED
      BY <1>12, <3>1, <3>2
  <2>2. L(k + n) - H = M /\ G(k + n) - (H + M) = N <=> k + n = (H + M) + N
    BY <1>1, <1>2 DEF L, G, Lesser, Greater
  <2> QED
    BY <1>1, <1>12, <2>1, <2>2 DEF Complete
<1>15. n0 + m + l = n
  BY <1>9 DEF len
<1> QED
  BY <1>5, <1>13, <1>14, <1>15 DEF e, buf, Takes

LEMMA MessageSize ==
  ASSUME NEW x, IsMessage(x)
  PROVE  /\ Encode(x) \in Seq(Int) /\ Len(Encode(x)) = Total(x) /\ Total(x) \in Nat
         /\ Len(x.meta) \in Nat /\ Len(x.payload) \in Nat /\ RPC_HEADER_SIZE \in Nat
         /\ Total(x) = (RPC_HEADER_SIZE + Len(x.meta)) + Len(x.payload)
<1> DEFINE H == RPC_HEADER_SIZE
           M == Len(x.meta)
           N == Len(x.payload)
<1>1. M \in Nat /\ N \in Nat /\ H \in Nat
  BY LenProperties DEF IsMessage, RPC_HEADER_SIZE
<1>2. Encode(x) \in Seq(Int) /\ Len(Encode(x)) = Total(x)
  BY Layout
<1>3. Total(x) = H + M + N
  BY DEF Total
<1> HIDE DEF H, M, N
<1>4. Total(x) \in Nat /\ Total(x) = (H + M) + N
  BY <1>1, <1>3
<1> QED
  BY <1>1, <1>2, <1>4 DEF H, M, N

\* A fresh parser has taken nothing of any message.
LEMMA FreshParsed == ASSUME NEW x, IsMessage(x) PROVE Parsed(Fresh, x, 0)
<1>1. Lesser(0, RPC_HEADER_SIZE) = 0 /\ 0 < RPC_HEADER_SIZE
  BY DEF Lesser, RPC_HEADER_SIZE
<1>2. Cut(Encode(x), 0, 0) = <<>>
  BY CutNone
<1>3. Fresh \in RpcParser
  BY EmptySeq DEF Fresh, RpcParser
<1>4. /\ Fresh.header = <<>> /\ ~Fresh.header_ready /\ Fresh.meta = <<>> /\ Fresh.payload = <<>>
      /\ Fresh.expected_meta_len = 0 /\ Fresh.expected_payload_len = 0
  BY DEF Fresh
<1> QED
  BY <1>1, <1>2, <1>3, <1>4 DEF Parsed, RPC_HEADER_SIZE

\* The beginning of a stream, and how it grows.
LEMMA Prefix ==
  ASSUME NEW e \in Seq(Int), NEW k \in Nat, NEW n \in Nat, k + n <= Len(e)
  PROVE  /\ Cut(e, 0, k) \in Seq(Int) /\ Len(Cut(e, 0, k)) = k
         /\ \A i \in 1..k : Cut(e, 0, k)[i] = e[i]
         /\ Cut(e, 0, k) \o Cut(e, k, k + n) = Cut(e, 0, k + n)
<1> DEFINE z == 0
           c == k + n
<1>1. /\ z \in Nat /\ c \in Nat /\ z <= k /\ k <= c /\ c <= Len(e) /\ k <= Len(e) /\ k - z = k
      /\ \A i \in 1..k : z + i = i
  BY LenProperties
<1> HIDE DEF z, c
<1>2. /\ Cut(e, z, k) \in Seq(Int) /\ Len(Cut(e, z, k)) = k - z
      /\ \A i \in 1..(k - z) : Cut(e, z, k)[i] = e[z + i]
  BY <1>1, CutType
<1>3. Cut(e, z, k) \o Cut(e, k, c) = Cut(e, z, c)
  BY <1>1, CutJoin
<1>4. \A i \in 1..k : Cut(e, z, k)[i] = e[i]
  BY <1>1, <1>2
<1> QED
  BY <1>1, <1>2, <1>3, <1>4 DEF z, c

\* The beginning of a part.
LEMMA CutPrefix ==
  ASSUME NEW e \in Seq(Int), NEW k \in Nat, NEW n \in Nat, NEW l \in Nat, k + n <= Len(e), l <= n
  PROVE  SubSeq(Cut(e, k, k + n), 1, l) = Cut(e, k, k + l)
<1> DEFINE z == 0
           c == k + n
<1>1. /\ z \in Nat /\ c \in Nat /\ z <= l /\ k <= c /\ c <= Len(e) /\ k + l <= c
      /\ k + z = k /\ z + 1 = 1
  BY LenProperties
<1> HIDE DEF z, c
<1>2. Cut(Cut(e, k, c), z, l) = Cut(e, k + z, k + l)
  BY <1>1, CutCut
<1>3. SubSeq(Cut(e, k, c), 1, l) = Cut(Cut(e, k, c), z, l)
  BY <1>1 DEF Cut
<1> QED
  BY <1>1, <1>2, <1>3 DEF c

\* A piece that comes after the header.
LEMMA AppendAfterHeader ==
  ASSUME NEW x, IsMessage(x), NEW k \in Nat, NEW n \in Nat, k + n <= Total(x),
         NEW p, Parsed(p, x, k), RPC_HEADER_SIZE <= k
  PROVE  LET r == AppendPiece(p, Cut(Encode(x), k, k + n))
         IN  Takes(r, x, n, k + n)
<1> DEFINE z == 0
           buf == Cut(Encode(x), k, k + n)
<1>1. p.header_ready
  <2>1. k >= RPC_HEADER_SIZE
    BY DEF RPC_HEADER_SIZE
  <2> QED
    BY <2>1 DEF Parsed
<1>2. AppendPiece(p, buf) = AppendBody(p, buf, z)
  BY <1>1 DEF AppendPiece
<1>3. z \in Nat /\ z <= n /\ k + z = k
  OBVIOUS
<1> HIDE DEF z
<1>4. RPC_HEADER_SIZE <= k + z /\ Parsed(p, x, k + z)
  BY <1>3
<1>5. LET r == AppendBody(p, buf, z)
      IN  Takes(r, x, n, k + n)
  BY <1>3, <1>4, BodyTakes
<1> HIDE DEF buf
<1>6. QED
  BY <1>2, <1>5 DEF buf

\* decode_header of a whole header that is not refused.
LEMMA HeaderDecoded ==
  ASSUME NEW x, IsMessage(x), NEW k \in Nat, k < RPC_HEADER_SIZE, NEW p, Parsed(p, x, k),
         ValidHeader(Cut(Encode(x), 0, RPC_HEADER_SIZE))
  PROVE  Parsed(DecodeHeader(p, Cut(Encode(x), 0, RPC_HEADER_SIZE)), x, RPC_HEADER_SIZE)
<1> DEFINE H == RPC_HEADER_SIZE
           e == Encode(x)
           M == Len(x.meta)
           N == Len(x.payload)
           h == Cut(e, 0, H)
           a == x.sequence
           b == x.status
           q == DecodeHeader(p, h)
<1>1. /\ e \in Seq(Int) /\ M \in Nat /\ N \in Nat /\ Len(e) = (H + M) + N /\ H \in Nat
      /\ a \in Int /\ b \in Int
  BY MessageSize DEF IsMessage
<1>2. p \in RpcParser /\ p.meta = <<>> /\ p.payload = <<>>
  BY DEF Parsed
<1>3. e[2] = a /\ e[3] = b /\ e[4] = M /\ e[5] = N
  BY Layout
<1>4. H = 5 /\ h \in Seq(Int) /\ h[2] = a /\ h[3] = b /\ h[4] = M /\ h[5] = N
  <2>1. H = 5
    BY DEF RPC_HEADER_SIZE
  <2> HIDE DEF H, e, M, N, a, b
  <2>2. H + 0 <= Len(e) /\ 0 \in Nat
    BY <1>1
  <2>3. h \in Seq(Int) /\ \A i \in 1..H : h[i] = e[i]
    BY <1>1, <2>2, Prefix
  <2> HIDE DEF h
  <2> QED
    BY <1>3, <2>1, <2>3, SMTT(30)
<1>5. M + N <= SizeLimit
  <2>1. ValidHeader(h)
    OBVIOUS
  <2> HIDE DEF M, N, h
  <2> QED
    BY <1>4, <2>1 DEF ValidHeader
<1>6. q = [p EXCEPT !.header = h, !.header_ready = TRUE, !.sequence = a, !.status = b,
                    !.expected_meta_len = M, !.expected_payload_len = N]
  <2> HIDE DEF h, M, N, a, b
  <2> QED
    BY <1>4 DEF DecodeHeader
<1>7. /\ q \in RpcParser /\ q.header = h /\ q.header_ready
      /\ q.sequence = a /\ q.status = b /\ q.meta = <<>> /\ q.payload = <<>>
      /\ q.expected_meta_len = M /\ q.expected_payload_len = N
  <2> HIDE DEF h, e, M, N, a, b, q, H
  <2>1. M \in Int /\ N \in Int
    BY <1>1
  <2> QED
    BY <1>1, <1>2, <1>4, <1>6, <2>1 DEF RpcParser
<1>8. /\ Cut(e, H, Lesser(H, H + M)) = <<>> /\ Cut(e, H + M, Greater(H, H + M)) = <<>>
      /\ Lesser(H, H) = H
  <2> HIDE DEF H, M, e
  <2>1. Lesser(H, H + M) = H /\ Greater(H, H + M) = H + M /\ H + M \in Nat /\ Lesser(H, H) = H
    BY <1>1 DEF Lesser, Greater
  <2> QED
    BY <1>1, <2>1, CutNone
<1>9. H >= H /\ ~(H < H)
  BY <1>4
<1> HIDE DEF q
<1>10. Parsed(q, x, H)
  BY <1>5, <1>7, <1>8, <1>9 DEF Parsed
<1> QED
  BY <1>10 DEF q

\* A piece that comes before the header is complete.
LEMMA AppendToHeader ==
  ASSUME NEW x, IsMessage(x), NEW k \in Nat, NEW n \in Nat, k + n <= Total(x),
         NEW p, Parsed(p, x, k), k < RPC_HEADER_SIZE
  PROVE  LET r == AppendPiece(p, Cut(Encode(x), k, k + n))
         IN  Refuses(r, x) \/ Takes(r, x, n, k + n)
<1> DEFINE H == RPC_HEADER_SIZE
           e == Encode(x)
           M == Len(x.meta)
           N == Len(x.payload)
           buf == Cut(e, k, k + n)
           n0 == Lesser(Len(buf), H - Len(p.header))
           h == p.header \o SubSeq(buf, 1, n0)
           body == AppendBody(DecodeHeader(p, h), buf, n0)
           bad == [msg |-> [p EXCEPT !.header = h], used |-> n0, ret |-> -1]
           more == [msg |-> [p EXCEPT !.header = h], used |-> n0, ret |-> 0]
<1>1. /\ e \in Seq(Int) /\ M \in Nat /\ N \in Nat /\ Len(e) = (H + M) + N
      /\ Total(x) = (H + M) + N /\ H \in Nat
  BY MessageSize
<1>2. /\ p \in RpcParser /\ p.header = Cut(e, 0, Lesser(k, H)) /\ ~p.header_ready
      /\ p.meta = <<>> /\ p.payload = <<>>
      /\ p.expected_meta_len = 0 /\ p.expected_payload_len = 0
  BY DEF Parsed
<1>3. AppendPiece(p, buf) = IF Len(h) < H THEN more ELSE IF ~ValidHeader(h) THEN bad ELSE body
  BY <1>2 DEF AppendPiece
<1>4. k < H /\ k + n <= (H + M) + N
  BY <1>1
<1>5. Len(buf) = n /\ buf \in Seq(Int)
  <2> HIDE DEF e, H, M, N
  <2>1. k + n <= Len(e) /\ k + n \in Nat /\ (k + n) - k = n /\ k <= k + n
    BY <1>1, <1>4
  <2> DEFINE c == k + n
  <2> HIDE DEF c
  <2>2. Len(Cut(e, k, c)) = c - k /\ Cut(e, k, c) \in Seq(Int)
    BY <1>1, <2>1, CutType DEF c
  <2> QED
    BY <2>1, <2>2 DEF c
<1> HIDE DEF H, e, M, N, bad, more, body
<1>6. p.header = Cut(e, 0, k) /\ Len(p.header) = k
  <2>1. Lesser(k, H) = k /\ k + 0 <= Len(e) /\ 0 \in Nat
    BY <1>1, <1>4 DEF Lesser
  <2> QED
    BY <1>1, <1>2, <2>1, Prefix
<1>7. /\ n0 \in Nat /\ n0 <= n /\ k + n0 <= H /\ k + n0 \in Nat /\ k + n0 <= Len(e)
      /\ k + n < H => n0 = n
      /\ k + n >= H => k + n0 = H
  <2>1. n0 = Lesser(n, H - k)
    BY <1>5, <1>6
  <2> HIDE DEF n0
  <2> QED
    BY ONLY <1>1, <1>4, <2>1, k \in Nat, n \in Nat DEF Lesser
<1> HIDE DEF n0
<1>8. h = Cut(e, 0, k + n0) /\ Len(h) = k + n0 /\ h \in Seq(Int)
      /\ \A i \in 1..(k + n0) : h[i] = e[i]
  <2>1. k + n <= Len(e)
    BY <1>1, <1>4
  <2>2. SubSeq(buf, 1, n0) = Cut(e, k, k + n0)
    BY <1>1, <1>7, <2>1, CutPrefix, ZenonT(40)
  <2>3. h = Cut(e, 0, k + n0)
    <3>1. Cut(e, 0, k) \o Cut(e, k, k + n0) = Cut(e, 0, k + n0)
      BY <1>1, <1>7, Prefix
    <3> QED
      BY <1>6, <2>2, <3>1
  <2> DEFINE c == k + n0
  <2>4. c \in Nat /\ 0 \in Nat /\ c + 0 <= Len(e)
    BY <1>1, <1>7
  <2> HIDE DEF c
  <2>5. /\ Cut(e, 0, c) \in Seq(Int) /\ Len(Cut(e, 0, c)) = c
        /\ \A i \in 1..c : Cut(e, 0, c)[i] = e[i]
    BY <1>1, <2>4, Prefix
  <2> QED
    BY <2>3, <2>5 DEF c
<1> HIDE DEF h, buf
<1>9. CASE k + n < H
  <2>1. AppendPiece(p, buf) = more
    BY <1>1, <1>3, <1>7, <1>8, <1>9
  <2> DEFINE q == [p EXCEPT !.header = h]
  <2>2. more = [msg |-> q, used |-> n, ret |-> 0]
    BY <1>7, <1>9 DEF more
  <2>3. /\ q \in RpcParser /\ q.header = h /\ ~q.header_ready
        /\ q.meta = <<>> /\ q.payload = <<>>
        /\ q.expected_meta_len = 0 /\ q.expected_payload_len = 0
    BY <1>2, <1>8 DEF RpcParser
  <2>4. h = Cut(e, 0, Lesser(k + n, H)) /\ k + n # Total(x) /\ ~(k + n >= H)
    BY <1>1, <1>4, <1>7, <1>8, <1>9 DEF Lesser
  <2> HIDE DEF q
  <2>5. Parsed(q, x, k + n)
    BY <1>9, <2>3, <2>4 DEF Parsed, e, H
  <2> QED
    <3>1. Takes(more, x, n, k + n)
      BY <2>2, <2>4, <2>5 DEF Takes
    <3> QED
      BY <2>1, <3>1 DEF buf, e
<1>10. CASE k + n >= H
  <2>1. h = Cut(e, 0, H) /\ Len(h) = H /\ k + n0 = H /\ \A i \in 1..H : h[i] = e[i]
    BY <1>1, <1>7, <1>8, <1>10
  <2>2. ~(Len(h) < H)
    BY <1>1, <2>1
  <2>3. CASE ~ValidHeader(h)
    <3>1. AppendPiece(p, buf) = bad /\ bad.ret = -1
      BY <1>3, <2>2, <2>3 DEF bad
    <3>2. H = 5 /\ e[1] = RPC_MAGIC /\ e[4] = M /\ e[5] = N
      BY Layout DEF RPC_HEADER_SIZE, H, e, M, N
    <3>3. h[1] = RPC_MAGIC /\ h[4] = M /\ h[5] = N
      BY <2>1, <3>2
    <3>4. M + N > SizeLimit
      BY <1>1, <2>3, <3>3, MessageAssumption DEF ValidHeader
    <3>5. Refuses(bad, x)
      BY <3>1, <3>4 DEF Refuses, M, N
    <3> QED
      BY <3>1, <3>5 DEF buf, e
  <2>4. CASE ValidHeader(h)
    <3> DEFINE q == DecodeHeader(p, h)
    <3>1. AppendPiece(p, buf) = AppendBody(q, buf, n0)
      BY <1>3, <2>2, <2>4 DEF body
    <3>2. Parsed(q, x, H)
      BY <2>1, <2>4, HeaderDecoded DEF e, H
    <3> HIDE DEF q
    <3>3. Parsed(q, x, k + n0) /\ RPC_HEADER_SIZE <= k + n0
      BY <1>1, <2>1, <3>2 DEF H
    <3>4. LET r == AppendBody(q, Cut(Encode(x), k, k + n), n0)
          IN  Takes(r, x, n, k + n)
      BY <1>7, <3>3, BodyTakes
    <3> QED
      BY <3>1, <3>4 DEF buf, e
  <2> QED
    BY <2>3, <2>4
<1>11. k + n < H \/ k + n >= H
  BY <1>1
<1> QED
  BY <1>9, <1>10, <1>11

(***************************************************************************)
(* append is given a piece of a message that is cut anywhere               *)
(* (rpc_message.cc:204-273): it uses the whole piece and is complete       *)
(* exactly at the end of the message, or it refuses the header, and that   *)
(* only because the message is above the size limit.                       *)
(***************************************************************************)
THEOREM AppendTakes ==
  ASSUME NEW x, IsMessage(x), NEW k \in Nat, NEW n \in Nat, k + n <= Total(x),
         NEW p, Parsed(p, x, k)
  PROVE  LET r == AppendPiece(p, Cut(Encode(x), k, k + n))
         IN  Refuses(r, x) \/ Takes(r, x, n, k + n)
<1>1. CASE RPC_HEADER_SIZE <= k
  BY <1>1, AppendAfterHeader
<1>2. CASE k < RPC_HEADER_SIZE
  BY <1>2, AppendToHeader
<1>3. RPC_HEADER_SIZE <= k \/ k < RPC_HEADER_SIZE
  BY DEF RPC_HEADER_SIZE
<1> QED
  BY <1>1, <1>2, <1>3

\* What a parser in the middle of a message has, and that it is not complete.
LEMMA InTheMiddle ==
  ASSUME NEW x, IsMessage(x), NEW k \in Nat, k < Total(x), NEW p, Parsed(p, x, k)
  PROVE  /\ p \in RpcParser /\ Len(p.header) <= RPC_HEADER_SIZE /\ ~Complete(p)
         /\ p.expected_meta_len + p.expected_payload_len <= SizeLimit
         /\ Received(p) = Cut(Encode(x), 0, k)
<1> DEFINE H == RPC_HEADER_SIZE
           e == Encode(x)
           M == Len(x.meta)
           N == Len(x.payload)
           B == H + M
<1>1. /\ e \in Seq(Int) /\ M \in Nat /\ N \in Nat /\ Len(e) = (H + M) + N
      /\ Total(x) = (H + M) + N /\ H \in Nat /\ SizeLimit \in Nat
  BY MessageSize, MessageAssumption
<1>2. Received(p) = (p.header \o p.meta) \o p.payload
  BY DEF Received
<1>3. p \in RpcParser /\ p.header = Cut(e, 0, Lesser(k, H))
  BY DEF Parsed
<1>4. CASE k < H
  <2>1. /\ ~p.header_ready /\ p.meta = <<>> /\ p.payload = <<>>
        /\ p.expected_meta_len = 0 /\ p.expected_payload_len = 0
    BY <1>4 DEF Parsed
  <2> HIDE DEF H, e, M, N
  <2>2. Lesser(k, H) = k /\ k + 0 <= Len(e) /\ 0 \in Nat
    BY <1>1, <1>4 DEF Lesser
  <2>3. Cut(e, 0, k) \in Seq(Int) /\ Len(Cut(e, 0, k)) = k
    BY <1>1, <2>2, Prefix
  <2>4. Received(p) = Cut(e, 0, k)
    BY <1>2, <1>3, <2>1, <2>2, <2>3, ConcatEmptySeq
  <2>5. ~Complete(p)
    BY <2>1 DEF Complete
  <2>6. p.expected_meta_len + p.expected_payload_len <= SizeLimit
    BY <1>1, <2>1
  <2>7. Len(p.header) <= H
    BY <1>1, <1>3, <1>4, <2>2, <2>3
  <2> QED
    BY <1>3, <2>4, <2>5, <2>6, <2>7 DEF H, e
<1>5. CASE k >= H
  <2>1. /\ p.expected_meta_len = M /\ p.expected_payload_len = N /\ M + N <= SizeLimit
        /\ p.meta = Cut(e, H, Lesser(k, B)) /\ p.payload = Cut(e, B, Greater(k, B))
    BY <1>5 DEF Parsed
  <2>0. k < (H + M) + N
    BY <1>1
  <2> HIDE DEF H, e, M, N
  <2>2. B \in Nat /\ H <= B /\ B <= Len(e) /\ k <= Len(e) /\ Lesser(k, H) = H /\ H + 0 <= Len(e)
    BY <1>1, <1>5, <2>0 DEF Lesser
  <2>3. p.header = Cut(e, 0, H) /\ Len(p.header) = H
    BY <1>1, <1>3, <2>2, Prefix
  <2>4. Len(p.header) <= H
    BY <1>1, <2>3
  <2>5. CASE k < B
    <3>1. Lesser(k, B) = k /\ Greater(k, B) = B
      BY <1>1, <2>2, <2>5 DEF Lesser, Greater
    <3>2. p.payload = <<>> /\ p.meta = Cut(e, H, k)
      BY <2>1, <2>2, <3>1, CutNone
    <3> DEFINE z == 0
    <3>3. z \in Nat /\ z <= H /\ H <= k
      BY <1>1, <1>5
    <3>4. Cut(e, 0, k) \in Seq(Int) /\ Len(Cut(e, H, k)) = k - H
      <4>1. k + 0 <= Len(e) /\ 0 \in Nat
        BY <1>1, <2>2
      <4>2. Cut(e, 0, k) \in Seq(Int)
        BY <1>1, <4>1, Prefix
      <4> QED
        BY <1>1, <2>2, <3>3, <4>2, CutType
    <3> HIDE DEF z
    <3>5. Cut(e, z, H) \o Cut(e, H, k) = Cut(e, z, k)
      <4>1. e \in Seq(Int) /\ z \in Nat /\ H \in Nat /\ k \in Nat /\ z <= H /\ H <= k /\ k <= Len(e)
        BY <1>1, <2>2, <3>3
      <4> QED
        BY ONLY <4>1, CutJoin
    <3>6. Received(p) = Cut(e, 0, k)
      BY <1>2, <2>3, <3>2, <3>4, <3>5, ConcatEmptySeq DEF z
    <3>7. Len(p.meta) # M
      BY <1>1, <2>5, <3>2, <3>4
    <3>8. ~Complete(p)
      BY <2>1, <3>7 DEF Complete
    <3> QED
      BY <1>3, <2>1, <2>4, <3>6, <3>8 DEF H, e
  <2>6. CASE ~(k < B)
    <3>1. Lesser(k, B) = B /\ Greater(k, B) = k /\ B <= k
      BY <1>1, <2>2, <2>6 DEF Lesser, Greater
    <3>2. p.payload = Cut(e, B, k) /\ p.meta = Cut(e, H, B)
      BY <2>1, <3>1
    <3> DEFINE z == 0
    <3>3. z \in Nat /\ z <= H /\ z <= B
      BY <1>1
    <3> HIDE DEF z, B
    <3>4. Len(Cut(e, B, k)) = k - B
      BY <1>1, <2>2, <3>1, CutType
    <3>5. Cut(e, z, H) \o Cut(e, H, B) = Cut(e, z, B)
      BY <1>1, <2>2, <3>3, CutJoin, SMTT(30)
    <3>6. Cut(e, z, B) \o Cut(e, B, k) = Cut(e, z, k)
      BY <1>1, <2>2, <3>1, <3>3, CutJoin, SMTT(30)
    <3>7. Received(p) = Cut(e, 0, k)
      BY <1>2, <2>3, <3>2, <3>5, <3>6 DEF z
    <3>8. Len(p.payload) # N
      BY <1>1, <2>0, <2>2, <3>2, <3>4 DEF B
    <3>9. ~Complete(p)
      BY <2>1, <3>8 DEF Complete
    <3> QED
      BY <1>3, <2>1, <2>4, <3>7, <3>9 DEF H, e
  <2> QED
    BY <2>5, <2>6
<1>6. k < H \/ k >= H
  BY <1>1
<1> QED
  BY <1>4, <1>5, <1>6

\* A parser at the end of a message has the message.
LEMMA AtTheEnd ==
  ASSUME NEW x, IsMessage(x), NEW p, Parsed(p, x, Total(x))
  PROVE  /\ p.sequence = x.sequence /\ p.status = x.status
         /\ p.meta = x.meta /\ p.payload = x.payload
<1> DEFINE H == RPC_HEADER_SIZE
           e == Encode(x)
           M == Len(x.meta)
           N == Len(x.payload)
           T == Total(x)
<1>1. M \in Nat /\ N \in Nat /\ T = (H + M) + N /\ H \in Nat
  BY MessageSize
<1>2. Cut(e, H, H + M) = x.meta /\ Cut(e, H + M, T) = x.payload
  BY Layout
<1>3. T >= H /\ Lesser(T, H + M) = H + M /\ Greater(T, H + M) = T
  <2> HIDE DEF H, M, N, T
  <2> QED
    BY <1>1 DEF Lesser, Greater
<1>4. /\ p.sequence = x.sequence /\ p.status = x.status
      /\ p.meta = Cut(e, H, Lesser(T, H + M)) /\ p.payload = Cut(e, H + M, Greater(T, H + M))
  BY <1>3 DEF Parsed
<1> QED
  BY <1>2, <1>3, <1>4

-----------------------------------------------------------------------------
(* A direction of the connection *)

\* The message x is half way: p has taken its beginning and w holds the rest.
HalfWay(p, w, x) ==
  \E k \in 0..(Total(x) - 1) : Parsed(p, x, k) /\ w = Cut(Encode(x), k, Total(x))

LEMMA HalfWayFacts ==
  ASSUME NEW x, IsMessage(x), NEW p, NEW w, HalfWay(p, w, x)
  PROVE  /\ w \in Seq(Int) /\ w # <<>> /\ p \in RpcParser
         /\ Received(p) \o w = Encode(x)
         /\ Len(p.header) <= RPC_HEADER_SIZE /\ ~Complete(p)
         /\ p.expected_meta_len + p.expected_payload_len <= SizeLimit
<1> DEFINE e == Encode(x)
           T == Total(x)
<1>1. e \in Seq(Int) /\ Len(e) = T /\ T \in Nat
  BY MessageSize
<1>2. PICK k \in 0..(T - 1) : Parsed(p, x, k) /\ w = Cut(e, k, T)
  BY DEF HalfWay
<1>3. k \in Nat /\ k < Total(x)
  BY <1>1
<1>4. /\ p \in RpcParser /\ Len(p.header) <= RPC_HEADER_SIZE /\ ~Complete(p)
      /\ p.expected_meta_len + p.expected_payload_len <= SizeLimit
      /\ Received(p) = Cut(e, 0, k)
  BY <1>2, <1>3, InTheMiddle
<1> DEFINE z == 0
<1>5. z \in Nat /\ z <= k /\ k <= T /\ k < T
  BY <1>1, <1>3
<1> HIDE DEF z, e, T
<1>6. w \in Seq(Int) /\ Len(w) = T - k
  <2>1. T <= Len(e)
    BY <1>1
  <2>2. Cut(e, k, T) \in Seq(Int) /\ Len(Cut(e, k, T)) = T - k
    BY ONLY <1>1, <1>3, <1>5, <2>1, CutType
  <2> QED
    BY <1>2, <2>2
<1>7. Cut(e, z, k) \o Cut(e, k, T) = Cut(e, z, T)
  BY <1>1, <1>3, <1>5, CutJoin
<1>8. Cut(e, z, T) = e
  BY <1>1, CutAll DEF z
<1>9. w # <<>>
  <2>1. Len(w) # 0
    BY <1>1, <1>3, <1>5, <1>6
  <2> QED
    BY <2>1, EmptySeq
<1> QED
  BY <1>2, <1>4, <1>6, <1>7, <1>8, <1>9 DEF e, z

\* A message that was just sent.
LEMMA JustSent ==
  ASSUME NEW x, IsMessage(x) PROVE HalfWay(Fresh, Encode(x), x)
<1>1. Total(x) \in Nat /\ Len(Encode(x)) = Total(x) /\ Encode(x) \in Seq(Int)
  BY MessageSize
<1>2. Total(x) > 0
  <2> DEFINE M == Len(x.meta)
             N == Len(x.payload)
  <2>1. M \in Nat /\ N \in Nat /\ Total(x) = (5 + M) + N
    BY MessageSize DEF RPC_HEADER_SIZE
  <2> HIDE DEF M, N
  <2> QED
    BY <2>1
<1>3. 0 \in 0..(Total(x) - 1)
  BY <1>1, <1>2
<1>4. Parsed(Fresh, x, 0)
  BY FreshParsed
<1>5. Encode(x) = Cut(Encode(x), 0, Total(x))
  BY <1>1, CutAll
<1> QED
  BY <1>3, <1>4, <1>5 DEF HalfWay

(***************************************************************************)
(* A piece of a message that is half way, of any length, is refused, or    *)
(* leaves it half way, or completes it: then the message received is the   *)
(* one that was sent and nothing of the stream is left (append).           *)
(***************************************************************************)
THEOREM PieceTaken ==
  ASSUME NEW x, IsMessage(x), NEW p, NEW w, HalfWay(p, w, x), NEW n \in 1..Len(w)
  PROVE  LET r == AppendPiece(p, SubSeq(w, 1, n))
             rest == SubSeq(w, r.used + 1, Len(w))
         IN  \/ r.ret = -1
             \/ r.ret = 0 /\ HalfWay(r.msg, rest, x)
             \/ /\ r.ret = 1 /\ rest = <<>>
                /\ r.msg.sequence = x.sequence /\ r.msg.status = x.status
                /\ r.msg.meta = x.meta /\ r.msg.payload = x.payload
<1> DEFINE e == Encode(x)
           T == Total(x)
           r == AppendPiece(p, SubSeq(w, 1, n))
           rest == SubSeq(w, r.used + 1, Len(w))
<1>1. e \in Seq(Int) /\ Len(e) = T /\ T \in Nat
  BY MessageSize
<1>2. PICK k \in 0..(T - 1) : Parsed(p, x, k) /\ w = Cut(e, k, T)
  BY DEF HalfWay
<1>3. k \in Nat /\ k <= T /\ k < T
  BY <1>1
<1>4. w \in Seq(Int) /\ Len(w) = T - k
  <2> HIDE DEF e, T
  <2>1. T <= Len(e)
    BY <1>1
  <2>2. Cut(e, k, T) \in Seq(Int) /\ Len(Cut(e, k, T)) = T - k
    BY ONLY <1>1, <1>3, <2>1, CutType
  <2> QED
    BY <1>2, <2>2
<1>5. n \in Nat /\ n > 0 /\ k + n <= T /\ T - k \in Nat /\ k + (T - k) = T /\ n <= T - k
  <2> HIDE DEF T
  <2> QED
    BY <1>1, <1>3, <1>4
<1>6. SubSeq(w, 1, n) = Cut(e, k, k + n)
  <2> DEFINE l == T - k
  <2>1. l \in Nat /\ k + l = T /\ n <= l /\ k + l <= Len(e)
    BY <1>1, <1>5
  <2> HIDE DEF e, T, l
  <2>2. SubSeq(Cut(e, k, k + l), 1, n) = Cut(e, k, k + n)
    <3>1. e \in Seq(Int) /\ k \in Nat /\ l \in Nat /\ n \in Nat /\ k + l <= Len(e) /\ n <= l
      BY ONLY <1>1, <1>3, <1>5, <2>1
    <3> QED
      BY ONLY <3>1, CutPrefix
  <2> QED
    BY <1>2, <2>1, <2>2
<1>7. Refuses(r, x) \/ Takes(r, x, n, k + n)
  BY <1>2, <1>3, <1>5, <1>6, AppendTakes
<1>8. SubSeq(w, n + 1, Len(w)) = Cut(e, k + n, T)
  <2> DEFINE l == T - k
  <2>1. l \in Nat /\ k + l = T /\ n <= l /\ k + l <= T /\ Len(w) = l
    BY <1>4, <1>5
  <2> HIDE DEF e, T, l
  <2>2. Cut(Cut(e, k, T), n, l) = Cut(e, k + n, k + l)
    BY <1>1, <1>3, <1>5, <2>1, CutCut
  <2>3. SubSeq(w, n + 1, l) = Cut(w, n, l)
    BY DEF Cut
  <2> QED
    BY <1>2, <2>1, <2>2, <2>3
<1>9. CASE Refuses(r, x)
  BY <1>9 DEF Refuses
<1>10. CASE Takes(r, x, n, k + n)
  <2>1. r.used = n /\ Parsed(r.msg, x, k + n) /\ r.ret = IF k + n = T THEN 1 ELSE 0
    BY <1>10 DEF Takes
  <2>2. rest = Cut(e, k + n, T)
    BY <1>8, <2>1
  <2>3. CASE k + n = T
    <3>1. rest = <<>>
      BY <1>1, <2>2, <2>3, CutNone
    <3>2. Parsed(r.msg, x, Total(x))
      BY <2>1, <2>3
    <3> HIDE DEF r, rest
    <3>3. /\ r.msg.sequence = x.sequence /\ r.msg.status = x.status
          /\ r.msg.meta = x.meta /\ r.msg.payload = x.payload
      BY <3>2, AtTheEnd
    <3> QED
      BY <2>1, <2>3, <3>1, <3>3 DEF r, rest
  <2>4. CASE k + n # T
    <3>1. k + n \in 0..(Total(x) - 1)
      BY <1>1, <1>3, <1>5, <2>4, SMTT(30)
    <3>2. HalfWay(r.msg, rest, x)
      BY <2>1, <2>2, <3>1 DEF HalfWay
    <3> QED
      BY <2>1, <2>4, <3>2
  <2> QED
    BY <2>3, <2>4
<1> QED
  BY <1>7, <1>9, <1>10

-----------------------------------------------------------------------------
(* Names and keys *)

LEMMA SmallModulo ==
  ASSUME NEW a \in Nat, NEW c \in Nat, a <= c PROVE a % (c + 1) = a
  OBVIOUS

\* get_service_method reads what set_service_method wrote.
LEMMA NamesRead ==
  ASSUME NEW s \in Seq(Int), NEW t \in Seq(Int), ValidNames(s, t)
  PROVE  LET meta == ServiceMethod(s, t)
         IN  /\ meta \in Seq(Int) /\ HasServiceMethod(meta)
             /\ ServiceOf(meta) = s /\ MethodOf(meta) = t
<1> DEFINE A == Len(s)
           B == Len(t)
           h == <<A, B>>
           meta == h \o s \o t
<1>1. A \in Nat /\ B \in Nat /\ A <= MaxName /\ B <= MaxName /\ MaxName \in Nat
  BY MessageAssumption, LenProperties DEF ValidNames
<1>2. A % (MaxName + 1) = A /\ B % (MaxName + 1) = B
  BY <1>1, SmallModulo
<1>3. ServiceMethod(s, t) = meta
  BY <1>2 DEF ServiceMethod
<1>4. h \in Seq(Int) /\ Len(h) = 2 /\ h[1] = A /\ h[2] = B
  BY <1>1
<1> HIDE DEF h
<1>5. /\ meta \in Seq(Int) /\ Len(meta) = (Len(h) + A) + B
      /\ \A i \in 1..Len(h) : meta[i] = h[i]
      /\ Cut(meta, Len(h), Len(h) + A) = s /\ Cut(meta, Len(h) + A, (Len(h) + A) + B) = t
  <2>1. HasParts(meta, h, s, t)
    BY <1>4, ThreeParts
  <2> QED
    BY <2>1 DEF HasParts
<1> HIDE DEF meta, A, B
<1>6. /\ Len(meta) = (2 + A) + B /\ meta[1] = A /\ meta[2] = B
      /\ Cut(meta, 2, 2 + A) = s /\ Cut(meta, 2 + A, (2 + A) + B) = t
  BY <1>4, <1>5
<1>7. Len(meta) >= 2 /\ Len(meta) = 2 + A + B /\ 2 + 1 = 3 /\ (2 + A) + 1 = 3 + A
  BY <1>1, <1>6
<1>8. ServiceOf(meta) = s
  BY <1>6, <1>7 DEF ServiceOf, Cut
<1>9. MethodOf(meta) = t
  BY <1>6, <1>7 DEF MethodOf, Cut
<1> QED
  BY <1>3, <1>5, <1>6, <1>7, <1>8, <1>9 DEF HasServiceMethod

\* Two keys without a '#' in their names are the same only if the names are.
LEMMA KeysDiffer ==
  ASSUME NEW s \in Seq(Int), NEW t \in Seq(Int), NEW u \in Seq(Int), NEW v \in Seq(Int),
         \A i \in 1..Len(s) : s[i] # HASH, \A i \in 1..Len(u) : u[i] # HASH,
         KeyOf(s, t) = KeyOf(u, v)
  PROVE  s = u /\ t = v
<1> DEFINE e == KeyOf(s, t)
           h == <<HASH>>
<1>1. h \in Seq(Int) /\ Len(h) = 1 /\ h[1] = HASH
  BY FrameworkAssumption
<1>2. e = s \o h \o t /\ e = u \o h \o v
  BY DEF KeyOf
<1> HIDE DEF e, h
<1>3. ASSUME NEW a \in Seq(Int), NEW b \in Seq(Int), e = a \o h \o b
      PROVE  /\ e \in Seq(Int) /\ Len(e) = (Len(a) + 1) + Len(b) /\ Len(a) \in Nat /\ Len(b) \in Nat
             /\ \A i \in 1..Len(a) : e[i] = a[i]
             /\ e[Len(a) + 1] = HASH
             /\ Cut(e, Len(a) + 1, (Len(a) + 1) + Len(b)) = b
  <2>1. /\ e \in Seq(Int) /\ Len(e) = (Len(a) + Len(h)) + Len(b) /\ Len(a) \in Nat /\ Len(b) \in Nat
        /\ \A i \in 1..Len(a) : e[i] = a[i]
        /\ \A i \in 1..Len(h) : e[Len(a) + i] = h[i]
        /\ Cut(e, Len(a) + Len(h), (Len(a) + Len(h)) + Len(b)) = b
    <3>1. HasParts(e, a, h, b)
      BY <1>1, <1>3, ThreeParts
    <3> QED
      BY <3>1 DEF HasParts
  <2>2. 1 \in 1..Len(h)
    BY <1>1
  <2> QED
    BY <1>1, <2>1, <2>2
<1>4. /\ e \in Seq(Int) /\ Len(e) = (Len(s) + 1) + Len(t) /\ Len(s) \in Nat /\ Len(t) \in Nat
      /\ \A i \in 1..Len(s) : e[i] = s[i]
      /\ e[Len(s) + 1] = HASH
      /\ Cut(e, Len(s) + 1, (Len(s) + 1) + Len(t)) = t
  BY <1>2, <1>3
<1>5. /\ Len(e) = (Len(u) + 1) + Len(v) /\ Len(u) \in Nat /\ Len(v) \in Nat
      /\ \A i \in 1..Len(u) : e[i] = u[i]
      /\ e[Len(u) + 1] = HASH
      /\ Cut(e, Len(u) + 1, (Len(u) + 1) + Len(v)) = v
  BY <1>2, <1>3
<1>0. /\ Len(s) \in Nat /\ Len(u) \in Nat /\ Len(t) \in Nat /\ Len(v) \in Nat
      /\ (Len(s) + 1) + Len(t) = (Len(u) + 1) + Len(v)
  BY <1>4, <1>5
<1>6. ~(Len(s) < Len(u))
  <2>0. SUFFICES ASSUME Len(s) < Len(u) PROVE FALSE
    OBVIOUS
  <2>1. Len(s) + 1 \in 1..Len(u)
    BY ONLY <1>0, <2>0
  <2> QED
    BY <1>4, <1>5, <2>1
<1>7. ~(Len(u) < Len(s))
  <2>0. SUFFICES ASSUME Len(u) < Len(s) PROVE FALSE
    OBVIOUS
  <2>1. Len(u) + 1 \in 1..Len(s)
    BY ONLY <1>0, <2>0
  <2> QED
    BY <1>4, <1>5, <2>1
<1>8. Len(s) = Len(u) /\ Len(t) = Len(v)
  BY ONLY <1>0, <1>6, <1>7
<1>9. s = u
  BY <1>4, <1>5, <1>8, SeqEqual
<1> QED
  BY <1>4, <1>5, <1>8, <1>9

-----------------------------------------------------------------------------
(***************************************************************************)
(* The inductive invariant.  A direction of the connection is empty, or    *)
(* one message is half way through it: the parser has taken its beginning  *)
(* and the wire holds the rest.  A waiting task is in exactly one phase of *)
(* its round trip, and what is under way belongs to it.                    *)
(***************************************************************************)
Empty(d) == wire[d] = <<>> /\ parser[d] = Fresh

Half(d, x) == HalfWay(parser[d], wire[d], x)

FrameworkTypeOK ==
  /\ seq \in Int /\ task \in {"idle", "waiting"} /\ known \in BOOLEAN /\ retries \in Int
  /\ request \in [id : Int, sequence : Int, status : Int, meta : Seq(Int), payload : Seq(Int)]
  /\ wire \in [Directions -> Seq(Int)] /\ parser \in [Directions -> RpcParser]

\* Every handler is that of a method.
HandlersSound ==
  \A h \in handlers : \E m \in Methods : h.key = KeyOf(m.service, m.method) /\ h.id = m.id

\* The request names its method, and that has a handler if it had one.
RequestSound ==
  \/ request.id = 0 /\ request.meta = <<>> /\ ~known
  \/ \E m \in Methods : /\ request.id = m.id /\ ValidNames(m.service, m.method)
                        /\ request.meta = ServiceMethod(m.service, m.method)
                        /\ known => Registered(KeyOf(m.service, m.method))

\* What may answer the request.
Statuses == {RPC_OK, RPC_NOT_FOUND, RPC_BAD_REQUEST} \cup HandlerErrors

RightStatus(s) == /\ s = RPC_BAD_REQUEST <=> request.id = 0
                  /\ s = RPC_NOT_FOUND => ~known

AnswerPayload(s) == IF s = RPC_OK THEN <<request.id>> \o request.payload \o request.payload
                    ELSE IF s \in HandlerErrors THEN <<>> ELSE ErrorText

Answer(s) == [sequence |-> request.sequence, status |-> s, meta |-> <<>>, payload |-> AnswerPayload(s)]

Job(h) == [sequence |-> request.sequence, meta |-> request.meta,
           payload |-> request.payload, handler |-> h]

\* The phases of a round trip.
Quiet      == Empty("req") /\ Empty("resp") /\ jobs = {}
Sending    == Half("req", request) /\ Empty("resp") /\ jobs = {}
Processing == Empty("req") /\ Empty("resp") /\ (jobs = {Job(0)} \/ (request.id # 0 /\ jobs = {Job(request.id)}))
Answering  == /\ Empty("req") /\ jobs = {}
              /\ \E s \in Statuses : RightStatus(s) /\ Half("resp", Answer(s))

OutcomeSound ==
  outcome.status # RPC_NETWORK_ERROR =>
    /\ outcome.status \in Statuses /\ RightStatus(outcome.status)
    /\ outcome.sequence = request.sequence /\ outcome.payload = AnswerPayload(outcome.status)

RoundTrip ==
  /\ task = "idle" => Quiet /\ OutcomeSound
  /\ task = "waiting" => Sending \/ Processing \/ Answering

FInv == FrameworkTypeOK /\ HandlersSound /\ RequestSound /\ RoundTrip

-----------------------------------------------------------------------------
(* What is sent is a message *)

LEMMA RequestIsMessage == FrameworkTypeOK => IsMessage(request)
  BY DEF FrameworkTypeOK, IsMessage

LEMMA AnswerIsMessage ==
  ASSUME FrameworkTypeOK, NEW s \in Statuses PROVE IsMessage(Answer(s))
<1>1. AnswerPayload(s) \in Seq(Int)
  <2>1. <<request.id>> \in Seq(Int) /\ request.payload \in Seq(Int)
    BY DEF FrameworkTypeOK
  <2>2. <<request.id>> \o request.payload \in Seq(Int)
    BY <2>1, ConcatProperties
  <2>3. <<request.id>> \o request.payload \o request.payload \in Seq(Int)
    BY <2>1, <2>2, ConcatProperties
  <2>4. ErrorText \in Seq(Int) /\ <<>> \in Seq(Int)
    BY FrameworkAssumption, EmptySeq DEF ErrorText
  <2> QED
    BY <2>3, <2>4 DEF AnswerPayload
<1>2. s \in Int /\ request.sequence \in Int
  BY DEF Statuses, HandlerErrors, RPC_OK, RPC_PROTO_PARSE_ERROR, RPC_PROTO_SERIALIZE_ERROR,
         RPC_INTERNAL_ERROR, RPC_NOT_FOUND, RPC_BAD_REQUEST, FrameworkTypeOK
<1> HIDE DEF AnswerPayload
<1> QED
  BY <1>1, <1>2, EmptySeq DEF IsMessage, Answer

LEMMA FreshType == Fresh \in RpcParser
  BY EmptySeq DEF Fresh, RpcParser

LEMMA StatusesDiffer ==
  /\ RPC_OK # RPC_NETWORK_ERROR /\ RPC_OK # RPC_BAD_REQUEST /\ RPC_OK # RPC_NOT_FOUND
  /\ RPC_NOT_FOUND # RPC_BAD_REQUEST /\ RPC_NOT_FOUND # RPC_NETWORK_ERROR
  /\ RPC_BAD_REQUEST # RPC_NETWORK_ERROR
  /\ {RPC_OK, RPC_NOT_FOUND, RPC_BAD_REQUEST, RPC_NETWORK_ERROR} \cap HandlerErrors = {}
  /\ RPC_PROTO_PARSE_ERROR \in HandlerErrors
  BY DEF HandlerErrors, RPC_OK, RPC_PROTO_PARSE_ERROR, RPC_PROTO_SERIALIZE_ERROR,
         RPC_INTERNAL_ERROR, RPC_NOT_FOUND, RPC_BAD_REQUEST, RPC_NETWORK_ERROR

-----------------------------------------------------------------------------
(* Each step keeps the invariant *)

LEMMA InitFInv == Init => FInv
<1> SUFFICES ASSUME Init PROVE FInv
  OBVIOUS
<1>1. FrameworkTypeOK
  <2>1. request \in [id : Int, sequence : Int, status : Int, meta : Seq(Int), payload : Seq(Int)]
    BY EmptySeq DEF Init, NoRequest
  <2>2. wire \in [Directions -> Seq(Int)] /\ parser \in [Directions -> RpcParser]
    BY EmptySeq, FreshType DEF Init
  <2>3. known \in BOOLEAN
    BY Zenon DEF Init
  <2>4. seq \in Int /\ retries \in Int /\ task \in {"idle", "waiting"}
    BY DEF Init
  <2> QED
    BY <2>1, <2>2, <2>3, <2>4 DEF FrameworkTypeOK
<1>2. HandlersSound
  BY DEF Init, HandlersSound
<1>3. RequestSound
  BY DEF Init, RequestSound, NoRequest
<1>4. RoundTrip
  BY DEF Init, RoundTrip, Quiet, Empty, OutcomeSound, NoOutcome, Directions
<1> QED
  BY <1>1, <1>2, <1>3, <1>4 DEF FInv

\* A step that leaves the task and the connection alone.
LEMMA RoundTripFrame ==
  ASSUME RoundTrip, UNCHANGED <<task, request, known, outcome, connVars, jobs>> PROVE RoundTrip'
<1>1. wire' = wire /\ parser' = parser /\ request' = request /\ known' = known
  BY DEF connVars
<1>2. Quiet' = Quiet /\ Sending' = Sending /\ Processing' = Processing
  BY <1>1 DEF Quiet, Sending, Processing, Empty, Half, Job
<1>3. Answering' = Answering
  BY <1>1 DEF Answering, Empty, Half, Answer, AnswerPayload, RightStatus
<1>4. OutcomeSound' = OutcomeSound
  BY <1>1 DEF OutcomeSound, AnswerPayload, RightStatus
<1> QED
  BY <1>2, <1>3, <1>4 DEF RoundTrip

LEMMA RegisterFInv ==
  ASSUME FInv, NEW m \in Methods, RegisterMethod(m) PROVE FInv'
<1> DEFINE key == KeyOf(m.service, m.method)
<1>1. /\ handlers' = {h \in handlers : h.key # key} \cup {[key |-> key, id |-> m.id]}
      /\ UNCHANGED <<clientVars, connVars, jobs>>
  BY DEF RegisterMethod
<1>2. FrameworkTypeOK'
  BY <1>1 DEF FInv, FrameworkTypeOK, clientVars, connVars
<1>3. HandlersSound'
  BY <1>1 DEF FInv, HandlersSound
<1>4. ASSUME NEW k, Registered(k) PROVE Registered(k)'
  <2>1. PICK h \in handlers : h.key = k
    BY <1>4 DEF Registered
  <2>2. CASE k = key
    <3> DEFINE g == [key |-> key, id |-> m.id]
    <3>1. g \in handlers' /\ g.key = k
      BY <1>1, <2>2
    <3> QED
      BY <3>1 DEF Registered
  <2>3. CASE k # key
    <3>1. h \in handlers'
      BY <1>1, <2>1, <2>3
    <3> QED
      BY <2>1, <3>1 DEF Registered
  <2> QED
    BY <2>2, <2>3
<1>5. RequestSound'
  BY <1>1, <1>4 DEF FInv, RequestSound, clientVars
<1>6. RoundTrip'
  BY <1>1, RoundTripFrame DEF FInv, clientVars
<1> QED
  BY <1>2, <1>3, <1>5, <1>6 DEF FInv

LEMMA DismissFInv ==
  ASSUME FInv, NEW m \in Methods, DismissTask(m) PROVE FInv'
<1>1. seq' = seq + 1 /\ UNCHANGED <<task, request, known, retries, outcome, connVars, handlers, jobs>>
  BY DEF DismissTask, NextSequence
<1>2. FrameworkTypeOK'
  BY <1>1 DEF FInv, FrameworkTypeOK, connVars
<1>3. HandlersSound' /\ RequestSound'
  BY <1>1 DEF FInv, HandlersSound, RequestSound, Registered
<1>4. RoundTrip'
  BY <1>1, RoundTripFrame DEF FInv
<1> QED
  BY <1>2, <1>3, <1>4 DEF FInv

\* A task that starts finds the connection empty.
LEMMA StartSends ==
  ASSUME FInv, NEW id \in Int, NEW q \in Int, NEW meta \in Seq(Int), NEW payload \in Seq(Int),
         StartTask(id, q, meta, payload)
  PROVE  /\ RoundTrip' /\ wire' \in [Directions -> Seq(Int)] /\ parser' \in [Directions -> RpcParser]
         /\ request' = [id |-> id, sequence |-> q, status |-> 0, meta |-> meta, payload |-> payload]
         /\ request' \in [id : Int, sequence : Int, status : Int, meta : Seq(Int), payload : Seq(Int)]
         /\ task' = "waiting" /\ retries' = 0 /\ handlers' = handlers
<1> DEFINE r == [id |-> id, sequence |-> q, status |-> 0, meta |-> meta, payload |-> payload]
<1>1. /\ task = "idle" /\ task' = "waiting" /\ request' = r /\ retries' = 0
      /\ wire' = [wire EXCEPT !["req"] = @ \o Encode(r)]
      /\ UNCHANGED <<outcome, parser, handlers, jobs>>
  BY DEF StartTask
<1>2. r \in [id : Int, sequence : Int, status : Int, meta : Seq(Int), payload : Seq(Int)]
  OBVIOUS
<1> HIDE DEF r
<1>3. IsMessage(r)
  BY <1>2 DEF IsMessage
<1>4. Encode(r) \in Seq(Int) /\ HalfWay(Fresh, Encode(r), r)
  BY <1>3, MessageSize, JustSent
<1>5. Empty("req") /\ Empty("resp") /\ jobs = {}
  BY <1>1 DEF FInv, RoundTrip, Quiet
<1>6. wire \in [Directions -> Seq(Int)] /\ parser \in [Directions -> RpcParser]
  BY DEF FInv, FrameworkTypeOK
<1>7. wire["req"] \o Encode(r) = Encode(r)
  BY <1>4, <1>5, ConcatEmptySeq DEF Empty
<1>8. /\ wire' \in [Directions -> Seq(Int)]
      /\ wire'["req"] = Encode(r) /\ wire'["resp"] = <<>>
  BY <1>1, <1>4, <1>5, <1>6, <1>7 DEF Empty, Directions
<1>9. HalfWay(parser'["req"], wire'["req"], request') /\ parser'["resp"] = Fresh
  BY <1>1, <1>4, <1>5, <1>8 DEF Empty
<1>10. Sending'
  BY <1>1, <1>5, <1>8, <1>9 DEF Sending, Half, Empty
<1> QED
  BY <1>1, <1>2, <1>6, <1>8, <1>10 DEF r, RoundTrip

LEMMA CallFInv ==
  ASSUME FInv, NEW m \in Methods, NEW x \in Payloads, CallMethod(m, x) PROVE FInv'
<1> DEFINE meta == ServiceMethod(m.service, m.method)
<1>1. /\ ValidNames(m.service, m.method) /\ seq' = seq + 1 /\ seq \in Int
      /\ known' = Registered(KeyOf(m.service, m.method))
      /\ StartTask(m.id, seq, meta, x)
  BY DEF CallMethod, NextSequence, FInv, FrameworkTypeOK
<1>2. m.id \in Int /\ m.service \in Seq(Int) /\ m.method \in Seq(Int) /\ x \in Seq(Int)
  BY FrameworkAssumption
<1>3. meta \in Seq(Int)
  BY <1>1, <1>2, NamesRead
<1> HIDE DEF meta
<1>4. /\ RoundTrip' /\ wire' \in [Directions -> Seq(Int)] /\ parser' \in [Directions -> RpcParser]
      /\ request' = [id |-> m.id, sequence |-> seq, status |-> 0, meta |-> meta, payload |-> x]
      /\ request' \in [id : Int, sequence : Int, status : Int, meta : Seq(Int), payload : Seq(Int)]
      /\ task' = "waiting" /\ retries' = 0 /\ handlers' = handlers
  BY <1>1, <1>2, <1>3, StartSends
<1>5. known' \in BOOLEAN
  BY <1>1, Zenon DEF Registered
<1>6. FrameworkTypeOK'
  BY <1>1, <1>4, <1>5 DEF FrameworkTypeOK
<1>7. HandlersSound'
  BY <1>4 DEF FInv, HandlersSound
<1>8. RequestSound'
  BY <1>1, <1>4 DEF RequestSound, Registered, meta
<1> QED
  BY <1>4, <1>6, <1>7, <1>8 DEF FInv

LEMMA CallWithoutFInv ==
  ASSUME FInv, NEW x \in Payloads, CallWithoutMethod(x) PROVE FInv'
<1> DEFINE z == 0
           meta == <<>>
<1>1. known' = FALSE /\ seq' = seq /\ seq \in Int /\ StartTask(z, z, meta, x)
  BY DEF CallWithoutMethod, FInv, FrameworkTypeOK
<1>2. z \in Int /\ meta \in Seq(Int) /\ x \in Seq(Int)
  BY FrameworkAssumption, EmptySeq
<1> HIDE DEF z, meta
<1>3. /\ RoundTrip' /\ wire' \in [Directions -> Seq(Int)] /\ parser' \in [Directions -> RpcParser]
      /\ request' = [id |-> z, sequence |-> z, status |-> 0, meta |-> meta, payload |-> x]
      /\ request' \in [id : Int, sequence : Int, status : Int, meta : Seq(Int), payload : Seq(Int)]
      /\ task' = "waiting" /\ retries' = 0 /\ handlers' = handlers
  BY <1>1, <1>2, StartSends
<1>4. FrameworkTypeOK'
  BY <1>1, <1>3 DEF FrameworkTypeOK
<1>5. HandlersSound'
  BY <1>3 DEF FInv, HandlersSound
<1>6. RequestSound'
  BY <1>1, <1>3 DEF RequestSound, z, meta
<1> QED
  BY <1>3, <1>4, <1>5, <1>6 DEF FInv

\* A new connection has the whole request on its wire, or there is none.
LEMMA ReconnectFInv ==
  ASSUME FInv, task = "waiting", Reconnect PROVE FInv'
<1>1. /\ jobs' = {} /\ parser' = [d \in Directions |-> Fresh]
      /\ UNCHANGED <<seq, request, known, handlers>>
  BY DEF Reconnect
<1>2. IsMessage(request) /\ retries \in Int
  BY RequestIsMessage DEF FInv, FrameworkTypeOK
<1>3. Encode(request) \in Seq(Int) /\ HalfWay(Fresh, Encode(request), request)
  BY <1>2, MessageSize, JustSent
<1>4. parser' \in [Directions -> RpcParser] /\ parser'["req"] = Fresh /\ parser'["resp"] = Fresh
  BY <1>1, FreshType DEF Directions
<1>5. HandlersSound' /\ RequestSound'
  BY <1>1 DEF FInv, HandlersSound, RequestSound, Registered
<1>6. CASE /\ retries' = retries + 1 /\ UNCHANGED <<task, outcome>>
           /\ wire' = [d \in Directions |-> IF d = "req" THEN Encode(request) ELSE <<>>]
  <2>1. wire' \in [Directions -> Seq(Int)] /\ wire'["req"] = Encode(request) /\ wire'["resp"] = <<>>
    BY <1>3, <1>6, EmptySeq DEF Directions
  <2>2. FrameworkTypeOK'
    BY <1>1, <1>2, <1>4, <1>6, <2>1 DEF FInv, FrameworkTypeOK
  <2>3. Sending'
    BY <1>1, <1>3, <1>4, <2>1 DEF Sending, Half, Empty
  <2>4. RoundTrip'
    BY <1>6, <2>3 DEF RoundTrip
  <2> QED
    BY <1>5, <2>2, <2>4 DEF FInv
<1>7. CASE /\ task' = "idle" /\ outcome' = NoOutcome /\ UNCHANGED retries
           /\ wire' = [d \in Directions |-> <<>>]
  <2>1. wire' \in [Directions -> Seq(Int)] /\ wire'["req"] = <<>> /\ wire'["resp"] = <<>>
    BY <1>7, EmptySeq DEF Directions
  <2>2. FrameworkTypeOK'
    BY <1>1, <1>2, <1>4, <1>7, <2>1 DEF FInv, FrameworkTypeOK
  <2>3. Quiet' /\ OutcomeSound'
    BY <1>1, <1>4, <1>7, <2>1 DEF Quiet, Empty, OutcomeSound, NoOutcome
  <2>4. RoundTrip'
    BY <1>7, <2>3 DEF RoundTrip
  <2> QED
    BY <1>5, <2>2, <2>4 DEF FInv
<1> QED
  BY <1>6, <1>7 DEF Reconnect

\* Who has something to receive or to do is in the phase for it.
LEMMA PhaseOf ==
  ASSUME FInv
  PROVE  /\ wire["req"] # <<>> => task = "waiting" /\ Sending
         /\ wire["resp"] # <<>> => task = "waiting" /\ Answering
         /\ jobs # {} => task = "waiting" /\ Processing
<1>1. task \in {"idle", "waiting"} /\ RoundTrip
  BY DEF FInv, FrameworkTypeOK
<1> QED
  BY <1>1 DEF RoundTrip, Quiet, Sending, Processing, Answering, Empty

\* What Advance does to its direction, and not to the other.
LEMMA AdvanceMoves ==
  ASSUME FrameworkTypeOK, NEW d \in Directions, NEW p \in RpcParser, NEW u, Advance(d, p, u),
         SubSeq(wire[d], u + 1, Len(wire[d])) \in Seq(Int)
  PROVE  /\ wire' \in [Directions -> Seq(Int)] /\ parser' \in [Directions -> RpcParser]
         /\ wire'[d] = SubSeq(wire[d], u + 1, Len(wire[d])) /\ parser'[d] = p
         /\ \A c \in Directions : c # d => wire'[c] = wire[c] /\ parser'[c] = parser[c]
<1> DEFINE w == SubSeq(wire[d], u + 1, Len(wire[d]))
<1>1. parser' = [parser EXCEPT ![d] = p] /\ wire' = [wire EXCEPT ![d] = w]
  BY DEF Advance
<1>2. w \in Seq(Int)
  OBVIOUS
<1> HIDE DEF w
<1>3. wire \in [Directions -> Seq(Int)] /\ parser \in [Directions -> RpcParser]
  BY DEF FrameworkTypeOK
<1>4. /\ wire' \in [Directions -> Seq(Int)] /\ parser' \in [Directions -> RpcParser]
      /\ wire'[d] = w /\ parser'[d] = p
      /\ \A c \in Directions : c # d => wire'[c] = wire[c] /\ parser'[c] = parser[c]
  BY <1>1, <1>2, <1>3
<1> QED
  BY <1>4 DEF w

LEMMA ReceiveRequestFInv ==
  ASSUME FInv, NEW n \in 1..Len(wire["req"]), ReceiveRequest(n) PROVE FInv'
<1> DEFINE w == wire["req"]
           r == AppendPiece(parser["req"], SubSeq(w, 1, n))
           rest == SubSeq(w, r.used + 1, Len(w))
<1>1. FrameworkTypeOK /\ IsMessage(request) /\ "req" \in Directions /\ "resp" \in Directions
  BY RequestIsMessage DEF FInv, Directions
<1>2. task = "waiting" /\ Sending
  <2>1. wire["req"] # <<>>
    <3>1. Len(<<>>) = 0
      BY EmptySeq
    <3>2. 1..0 = {}
      OBVIOUS
    <3> QED
      BY <3>1, <3>2
  <2> QED
    BY <2>1, PhaseOf
<1>3. HalfWay(parser["req"], w, request) /\ Empty("resp") /\ jobs = {}
  BY <1>2 DEF Sending, Half
<1>4. \/ r.ret = -1
      \/ r.ret = 0 /\ HalfWay(r.msg, rest, request)
      \/ /\ r.ret = 1 /\ rest = <<>>
         /\ r.msg.sequence = request.sequence /\ r.msg.status = request.status
         /\ r.msg.meta = request.meta /\ r.msg.payload = request.payload
  BY <1>1, <1>3, PieceTaken
<1>5. \/ /\ r.ret = 0 /\ Advance("req", r.msg, r.used) /\ UNCHANGED <<clientVars, handlers, jobs>>
      \/ /\ r.ret = 1 /\ Advance("req", Fresh, r.used)
         /\ jobs' = jobs \cup {[sequence |-> r.msg.sequence, meta |-> r.msg.meta,
                                payload |-> r.msg.payload, handler |-> 0]}
         /\ UNCHANGED <<clientVars, handlers>>
      \/ r.ret = -1 /\ Reconnect
  BY DEF ReceiveRequest
<1> HIDE DEF r
<1>6. CASE r.ret = -1
  BY <1>2, <1>5, <1>6, ReconnectFInv
<1>7. CASE r.ret = 0
  <2>1. HalfWay(r.msg, rest, request) /\ Advance("req", r.msg, r.used) /\ UNCHANGED <<clientVars, handlers, jobs>>
    BY <1>4, <1>5, <1>7
  <2>2. r.msg \in RpcParser /\ rest \in Seq(Int)
    BY <1>1, <2>1, HalfWayFacts
  <2>3. /\ wire' \in [Directions -> Seq(Int)] /\ parser' \in [Directions -> RpcParser]
        /\ wire'["req"] = rest /\ parser'["req"] = r.msg
        /\ wire'["resp"] = wire["resp"] /\ parser'["resp"] = parser["resp"]
    BY <1>1, <2>1, <2>2, AdvanceMoves
  <2>4. Sending'
    BY <1>3, <2>1, <2>3 DEF Sending, Half, Empty, clientVars
  <2>5. RoundTrip'
    BY <1>2, <2>1, <2>4 DEF RoundTrip, clientVars
  <2>6. FrameworkTypeOK'
    BY <1>1, <2>1, <2>3 DEF FrameworkTypeOK, clientVars
  <2>7. HandlersSound' /\ RequestSound'
    BY <2>1 DEF FInv, HandlersSound, RequestSound, Registered, clientVars
  <2> QED
    BY <2>5, <2>6, <2>7 DEF FInv
<1>8. CASE r.ret = 1
  <2>1. /\ rest = <<>> /\ Advance("req", Fresh, r.used)
        /\ jobs' = {Job(0)} /\ UNCHANGED <<clientVars, handlers>>
    BY <1>3, <1>4, <1>5, <1>8 DEF Job
  <2>2. rest \in Seq(Int)
    BY <2>1, EmptySeq
  <2>3. /\ wire' \in [Directions -> Seq(Int)] /\ parser' \in [Directions -> RpcParser]
        /\ wire'["req"] = rest /\ parser'["req"] = Fresh
        /\ wire'["resp"] = wire["resp"] /\ parser'["resp"] = parser["resp"]
    BY <1>1, <2>1, <2>2, AdvanceMoves, FreshType
  <2>4. Processing'
    BY <1>3, <2>1, <2>3 DEF Processing, Empty, Job, clientVars
  <2>5. RoundTrip'
    BY <1>2, <2>1, <2>4 DEF RoundTrip, clientVars
  <2>6. FrameworkTypeOK'
    BY <1>1, <2>1, <2>3 DEF FrameworkTypeOK, clientVars
  <2>7. HandlersSound' /\ RequestSound'
    BY <2>1 DEF FInv, HandlersSound, RequestSound, Registered, clientVars
  <2> QED
    BY <2>5, <2>6, <2>7 DEF FInv
<1> QED
  BY <1>5, <1>6, <1>7, <1>8

\* The right answer to the request goes onto the empty wire.
LEMMA ReplyFInv ==
  ASSUME FInv, task = "waiting", Empty("req"), Empty("resp"), NEW j, jobs = {j},
         j.sequence = request.sequence, NEW s \in Statuses, RightStatus(s),
         Reply(j, s, AnswerPayload(s))
  PROVE  FInv'
<1> DEFINE a == Answer(s)
<1>1. /\ jobs' = jobs \ {j} /\ wire' = [wire EXCEPT !["resp"] = @ \o Encode(a)]
      /\ UNCHANGED <<clientVars, parser, handlers>>
  BY DEF Reply, Answer
<1>2. IsMessage(a) /\ FrameworkTypeOK
  BY AnswerIsMessage DEF FInv
<1> HIDE DEF a
<1>3. Encode(a) \in Seq(Int) /\ HalfWay(Fresh, Encode(a), a)
  BY <1>2, MessageSize, JustSent
<1>4. wire["resp"] \o Encode(a) = Encode(a)
  BY <1>3, ConcatEmptySeq DEF Empty
<1>5. wire' \in [Directions -> Seq(Int)] /\ wire'["req"] = <<>> /\ wire'["resp"] = Encode(a)
  <2>1. wire \in [Directions -> Seq(Int)] /\ wire["req"] = <<>>
    BY <1>2 DEF FrameworkTypeOK, Empty
  <2> QED
    BY <1>1, <1>3, <1>4, <2>1 DEF Directions
<1>6. FrameworkTypeOK'
  BY <1>1, <1>2, <1>5 DEF FrameworkTypeOK, clientVars
<1>7. HandlersSound' /\ RequestSound'
  BY <1>1 DEF FInv, HandlersSound, RequestSound, Registered, clientVars
<1>8. Answering'
  <2>1. HalfWay(parser'["resp"], wire'["resp"], a) /\ parser'["req"] = Fresh /\ jobs' = {}
    BY <1>1, <1>3, <1>5 DEF Empty
  <2>2. a = Answer(s)'
    BY <1>1 DEF a, Answer, AnswerPayload, clientVars
  <2>3. RightStatus(s)'
    BY <1>1 DEF RightStatus, clientVars
  <2>4. Half("resp", Answer(s))'
    BY <2>1, <2>2 DEF Half
  <2>5. Empty("req")'
    BY <1>5, <2>1 DEF Empty
  <2> QED
    BY <2>1, <2>3, <2>4, <2>5 DEF Answering
<1>9. RoundTrip'
  BY <1>1, <1>8 DEF RoundTrip, clientVars
<1> QED
  BY <1>6, <1>7, <1>9 DEF FInv

\* The request in on_process is that of the waiting task.
LEMMA JobOf ==
  ASSUME FInv, NEW j \in jobs
  PROVE  /\ task = "waiting" /\ Empty("req") /\ Empty("resp") /\ jobs = {j}
         /\ j = Job(j.handler) /\ j.sequence = request.sequence
         /\ j.meta = request.meta /\ j.payload = request.payload
         /\ j.handler # 0 => j.handler = request.id /\ request.id # 0
<1>1. task = "waiting" /\ Processing
  BY PhaseOf
<1>2. jobs = {Job(0)} \/ (request.id # 0 /\ jobs = {Job(request.id)})
  BY <1>1 DEF Processing
<1> QED
  BY <1>1, <1>2 DEF Processing, Job

\* A request that names a method names its own, and the handler found is that method's.
LEMMA HandlerFound ==
  ASSUME FInv, HasServiceMethod(request.meta)
  PROVE  LET key == KeyOf(ServiceOf(request.meta), MethodOf(request.meta))
         IN  /\ request.id # 0
             /\ ~Registered(key) => ~known
             /\ \A h \in handlers : h.key = key => h.id = request.id
<1> DEFINE key == KeyOf(ServiceOf(request.meta), MethodOf(request.meta))
<1>1. request.meta # <<>>
  BY EmptySeq DEF HasServiceMethod
<1>2. PICK m \in Methods : /\ request.id = m.id /\ ValidNames(m.service, m.method)
                           /\ request.meta = ServiceMethod(m.service, m.method)
                           /\ known => Registered(KeyOf(m.service, m.method))
  BY <1>1 DEF FInv, RequestSound
<1>3. m.id # 0 /\ m.service \in Seq(Int) /\ m.method \in Seq(Int)
  BY FrameworkAssumption
<1>4. key = KeyOf(m.service, m.method)
  BY <1>2, <1>3, NamesRead
<1> HIDE DEF key
<1>5. ASSUME NEW h \in handlers, h.key = key PROVE h.id = m.id
  <2>1. PICK o \in Methods : h.key = KeyOf(o.service, o.method) /\ h.id = o.id
    BY DEF FInv, HandlersSound
  <2>2. o.service \in Seq(Int) /\ o.method \in Seq(Int)
    BY FrameworkAssumption
  <2>3. /\ \A i \in 1..Len(m.service) : m.service[i] # HASH
        /\ \A i \in 1..Len(o.service) : o.service[i] # HASH
    BY FrameworkAssumption
  <2>4. KeyOf(m.service, m.method) = KeyOf(o.service, o.method)
    BY <1>4, <1>5, <2>1
  <2>5. m.service = o.service /\ m.method = o.method
    <3> DEFINE a == m.service
               b == m.method
               c == o.service
               d == o.method
    <3>1. /\ a \in Seq(Int) /\ b \in Seq(Int) /\ c \in Seq(Int) /\ d \in Seq(Int)
          /\ \A i \in 1..Len(a) : a[i] # HASH
          /\ \A i \in 1..Len(c) : c[i] # HASH
          /\ KeyOf(a, b) = KeyOf(c, d)
      BY <1>3, <2>2, <2>3, <2>4
    <3> HIDE DEF a, b, c, d
    <3>2. a = c /\ b = d
      BY ONLY <3>1, KeysDiffer, ZenonT(40)
    <3> QED
      BY <3>2 DEF a, b, c, d
  <2> QED
    BY <2>1, <2>5, FrameworkAssumption
<1> QED
  BY <1>2, <1>3, <1>4, <1>5 DEF key

LEMMA FindHandlerFInv ==
  ASSUME FInv, NEW j \in jobs, FindHandler(j) PROVE FInv'
<1> DEFINE key == KeyOf(ServiceOf(j.meta), MethodOf(j.meta))
<1>1. /\ task = "waiting" /\ Empty("req") /\ Empty("resp") /\ jobs = {j}
      /\ j = Job(j.handler) /\ j.sequence = request.sequence
      /\ j.meta = request.meta /\ j.payload = request.payload
  BY JobOf
<1>2. CASE ~HasServiceMethod(j.meta) /\ Reply(j, RPC_BAD_REQUEST, ErrorText)
  <2>1. request.id = 0
    <3> SUFFICES ASSUME request.id # 0 PROVE FALSE
      OBVIOUS
    <3>1. PICK m \in Methods : /\ ValidNames(m.service, m.method)
                               /\ request.meta = ServiceMethod(m.service, m.method)
      BY DEF FInv, RequestSound
    <3>2. m.service \in Seq(Int) /\ m.method \in Seq(Int)
      BY FrameworkAssumption
    <3> QED
      BY <1>1, <1>2, <3>1, <3>2, NamesRead
  <2>2. RightStatus(RPC_BAD_REQUEST) /\ RPC_BAD_REQUEST \in Statuses
    BY <2>1, StatusesDiffer DEF RightStatus, Statuses
  <2>3. AnswerPayload(RPC_BAD_REQUEST) = ErrorText
    BY StatusesDiffer DEF AnswerPayload
  <2> QED
    BY <1>1, <1>2, <2>2, <2>3, ReplyFInv
<1>3. CASE HasServiceMethod(j.meta) /\ ~Registered(key) /\ Reply(j, RPC_NOT_FOUND, ErrorText)
  <2>1. request.id # 0 /\ ~known
    BY <1>1, <1>3, HandlerFound
  <2>2. RightStatus(RPC_NOT_FOUND) /\ RPC_NOT_FOUND \in Statuses
    BY <2>1, StatusesDiffer DEF RightStatus, Statuses
  <2>3. AnswerPayload(RPC_NOT_FOUND) = ErrorText
    BY StatusesDiffer DEF AnswerPayload
  <2> QED
    BY <1>1, <1>3, <2>2, <2>3, ReplyFInv
<1>4. ASSUME HasServiceMethod(j.meta), NEW h \in handlers, h.key = key,
             jobs' = (jobs \ {j}) \cup {[j EXCEPT !.handler = h.id]},
             UNCHANGED <<clientVars, connVars, handlers>>
      PROVE  FInv'
  <2>1. request.id # 0 /\ h.id = request.id
    BY <1>1, <1>4, HandlerFound
  <2>2. jobs' = {Job(request.id)}
    <3>1. j = [sequence |-> request.sequence, meta |-> request.meta,
               payload |-> request.payload, handler |-> j.handler]
      BY <1>1 DEF Job
    <3>2. [j EXCEPT !.handler = h.id] = Job(h.id)
      BY <3>1 DEF Job
    <3> QED
      BY <1>1, <1>4, <2>1, <3>2
  <2>3. Processing'
    BY <1>1, <1>4, <2>1, <2>2 DEF Processing, Empty, Job, clientVars, connVars
  <2>4. RoundTrip'
    BY <1>1, <1>4, <2>3 DEF RoundTrip, clientVars
  <2>5. FrameworkTypeOK'
    BY <1>4 DEF FInv, FrameworkTypeOK, clientVars, connVars
  <2>6. HandlersSound' /\ RequestSound'
    BY <1>4 DEF FInv, HandlersSound, RequestSound, Registered, clientVars
  <2> QED
    BY <2>4, <2>5, <2>6 DEF FInv
<1> QED
  BY <1>2, <1>3, <1>4 DEF FindHandler

LEMMA RunHandlerFInv ==
  ASSUME FInv, NEW j \in jobs, RunHandler(j) PROVE FInv'
<1>1. /\ task = "waiting" /\ Empty("req") /\ Empty("resp") /\ jobs = {j}
      /\ j.sequence = request.sequence /\ j.payload = request.payload
      /\ j.handler # 0 => j.handler = request.id /\ request.id # 0
  BY JobOf
<1>2. j.handler = request.id /\ request.id # 0
  BY <1>1 DEF RunHandler
<1>3. CASE Reply(j, RPC_OK, <<j.handler>> \o j.payload \o j.payload)
  <2>1. RightStatus(RPC_OK) /\ RPC_OK \in Statuses
    BY <1>2, StatusesDiffer DEF RightStatus, Statuses
  <2>2. AnswerPayload(RPC_OK) = <<j.handler>> \o j.payload \o j.payload
    BY <1>1, <1>2 DEF AnswerPayload
  <2> QED
    BY <1>1, <1>3, <2>1, <2>2, ReplyFInv
<1>4. ASSUME NEW s \in HandlerErrors, Reply(j, s, <<>>) PROVE FInv'
  <2>1. s # RPC_OK /\ s # RPC_NOT_FOUND /\ s # RPC_BAD_REQUEST
    BY StatusesDiffer
  <2>2. RightStatus(s) /\ s \in Statuses
    BY <1>2, <2>1 DEF RightStatus, Statuses
  <2>3. AnswerPayload(s) = <<>>
    BY <2>1 DEF AnswerPayload
  <2> QED
    BY <1>1, <1>4, <2>2, <2>3, ReplyFInv
<1> QED
  BY <1>3, <1>4 DEF RunHandler

LEMMA ReceiveResponseFInv ==
  ASSUME FInv, NEW n \in 1..Len(wire["resp"]), ReceiveResponse(n) PROVE FInv'
<1> DEFINE w == wire["resp"]
           r == AppendPiece(parser["resp"], SubSeq(w, 1, n))
           rest == SubSeq(w, r.used + 1, Len(w))
<1>1. FrameworkTypeOK /\ "req" \in Directions /\ "resp" \in Directions
  BY DEF FInv, Directions
<1>2. task = "waiting" /\ Answering
  <2>1. wire["resp"] # <<>>
    <3>1. Len(<<>>) = 0
      BY EmptySeq
    <3>2. 1..0 = {}
      OBVIOUS
    <3> QED
      BY <3>1, <3>2
  <2> QED
    BY <2>1, PhaseOf
<1>3. PICK s \in Statuses : RightStatus(s) /\ HalfWay(parser["resp"], w, Answer(s))
  BY <1>2 DEF Answering, Half
<1>4. Empty("req") /\ jobs = {}
  BY <1>2 DEF Answering
<1> DEFINE x == Answer(s)
<1>5. IsMessage(x)
  BY <1>1, AnswerIsMessage
<1>6. x.sequence = request.sequence /\ x.status = s /\ x.payload = AnswerPayload(s)
  BY DEF Answer
<1> HIDE DEF x
<1>7. \/ r.ret = -1
      \/ r.ret = 0 /\ HalfWay(r.msg, rest, x)
      \/ /\ r.ret = 1 /\ rest = <<>>
         /\ r.msg.sequence = x.sequence /\ r.msg.status = x.status
         /\ r.msg.payload = x.payload
  <2>1. HalfWay(parser["resp"], w, x)
    BY <1>3 DEF x
  <2> QED
    BY <1>5, <2>1, PieceTaken
<1>8. \/ /\ r.ret = 0 /\ Advance("resp", r.msg, r.used) /\ UNCHANGED <<clientVars, handlers, jobs>>
      \/ /\ r.ret = 1 /\ Advance("resp", Fresh, r.used)
         /\ \/ Callback(r.msg.status, r.msg.sequence, r.msg.payload)
            \/ r.msg.status = RPC_OK /\ Callback(RPC_PROTO_PARSE_ERROR, r.msg.sequence, <<>>)
         /\ UNCHANGED <<handlers, jobs>>
      \/ r.ret = -1 /\ Reconnect
  BY DEF ReceiveResponse
<1> HIDE DEF r
<1>9. CASE r.ret = -1
  BY <1>2, <1>8, <1>9, ReconnectFInv
<1>10. CASE r.ret = 0
  <2>1. HalfWay(r.msg, rest, x) /\ Advance("resp", r.msg, r.used) /\ UNCHANGED <<clientVars, handlers, jobs>>
    BY <1>7, <1>8, <1>10
  <2>2. r.msg \in RpcParser /\ rest \in Seq(Int)
    BY <1>5, <2>1, HalfWayFacts
  <2>3. /\ wire' \in [Directions -> Seq(Int)] /\ parser' \in [Directions -> RpcParser]
        /\ wire'["resp"] = rest /\ parser'["resp"] = r.msg
        /\ wire'["req"] = wire["req"] /\ parser'["req"] = parser["req"]
    BY <1>1, <2>1, <2>2, AdvanceMoves
  <2>4. Answering'
    <3>1. x = Answer(s)' /\ RightStatus(s)'
      BY <1>3, <2>1 DEF x, Answer, AnswerPayload, RightStatus, clientVars
    <3>2. Half("resp", Answer(s))'
      BY <2>1, <2>3, <3>1 DEF Half
    <3>3. Empty("req")' /\ jobs' = {}
      BY <1>4, <2>1, <2>3 DEF Empty
    <3> QED
      BY <1>3, <3>1, <3>2, <3>3 DEF Answering
  <2>5. RoundTrip'
    BY <1>2, <2>1, <2>4 DEF RoundTrip, clientVars
  <2>6. FrameworkTypeOK'
    BY <1>1, <2>1, <2>3 DEF FrameworkTypeOK, clientVars
  <2>7. HandlersSound' /\ RequestSound'
    BY <2>1 DEF FInv, HandlersSound, RequestSound, Registered, clientVars
  <2> QED
    BY <2>5, <2>6, <2>7 DEF FInv
<1>11. CASE r.ret = 1
  <2>1. /\ rest = <<>> /\ Advance("resp", Fresh, r.used) /\ UNCHANGED <<handlers, jobs>>
        /\ \/ Callback(s, request.sequence, AnswerPayload(s))
           \/ s = RPC_OK /\ Callback(RPC_PROTO_PARSE_ERROR, request.sequence, <<>>)
    BY <1>6, <1>7, <1>8, <1>11
  <2>2. rest \in Seq(Int)
    BY <2>1, EmptySeq
  <2>3. /\ wire' \in [Directions -> Seq(Int)] /\ parser' \in [Directions -> RpcParser]
        /\ wire'["resp"] = rest /\ parser'["resp"] = Fresh
        /\ wire'["req"] = wire["req"] /\ parser'["req"] = parser["req"]
    BY <1>1, <2>1, <2>2, AdvanceMoves, FreshType
  <2>4. task' = "idle" /\ UNCHANGED <<seq, request, known, retries>>
    BY <2>1 DEF Callback
  <2>5. Quiet'
    BY <1>4, <2>1, <2>3 DEF Quiet, Empty
  <2>6. OutcomeSound'
    <3>1. CASE Callback(s, request.sequence, AnswerPayload(s))
      <4>1. outcome' = [status |-> s, sequence |-> request.sequence, payload |-> AnswerPayload(s)]
        BY <3>1 DEF Callback
      <4>2. RightStatus(s)' /\ AnswerPayload(s)' = AnswerPayload(s) /\ request' = request
        BY <1>3, <2>4 DEF RightStatus, AnswerPayload
      <4>3. outcome'.status = s /\ outcome'.sequence = request'.sequence /\ outcome'.payload = AnswerPayload(s)'
        BY <4>1, <4>2
      <4> QED
        BY <4>2, <4>3 DEF OutcomeSound, RightStatus, AnswerPayload
    <3>2. CASE s = RPC_OK /\ Callback(RPC_PROTO_PARSE_ERROR, request.sequence, <<>>)
      <4>1. outcome' = [status |-> RPC_PROTO_PARSE_ERROR, sequence |-> request.sequence, payload |-> <<>>]
        BY <3>2 DEF Callback
      <4>2. request'.id # 0
        BY <1>3, <2>4, <3>2, StatusesDiffer DEF RightStatus
      <4> QED
        BY <2>4, <4>1, <4>2, StatusesDiffer DEF OutcomeSound, RightStatus, AnswerPayload, Statuses
    <3> QED
      BY <2>1, <3>1, <3>2
  <2>7. RoundTrip'
    BY <2>4, <2>5, <2>6 DEF RoundTrip
  <2>8. FrameworkTypeOK'
    BY <1>1, <2>3, <2>4 DEF FrameworkTypeOK
  <2>9. HandlersSound' /\ RequestSound'
    BY <2>1, <2>4 DEF FInv, HandlersSound, RequestSound, Registered
  <2> QED
    BY <2>7, <2>8, <2>9 DEF FInv
<1> QED
  BY <1>8, <1>9, <1>10, <1>11

LEMMA NextFInv == FInv /\ [Next]_vars => FInv'
<1> SUFFICES ASSUME FInv, [Next]_vars PROVE FInv'
  OBVIOUS
<1>1. ASSUME NEW m \in Methods, RegisterMethod(m) PROVE FInv'
  BY <1>1, RegisterFInv
<1>2. ASSUME NEW m \in Methods, DismissTask(m) PROVE FInv'
  BY <1>2, DismissFInv
<1>3. ASSUME NEW m \in Methods, NEW x \in Payloads, CallMethod(m, x) PROVE FInv'
  BY <1>3, CallFInv
<1>4. ASSUME NEW x \in Payloads, CallWithoutMethod(x) PROVE FInv'
  BY <1>4, CallWithoutFInv
<1>5. CASE LoseConnection
  BY <1>5, ReconnectFInv DEF LoseConnection
<1>6. CASE Receive
  BY <1>6, ReceiveRequestFInv, ReceiveResponseFInv DEF Receive
<1>7. CASE Process
  BY <1>7, FindHandlerFInv, RunHandlerFInv DEF Process
<1>8. CASE UNCHANGED vars
  <2>1. UNCHANGED <<seq, retries, handlers>> /\ UNCHANGED <<task, request, known, outcome, connVars, jobs>>
    BY <1>8 DEF vars, clientVars
  <2>2. RoundTrip'
    BY <2>1, RoundTripFrame DEF FInv
  <2>3. FrameworkTypeOK'
    BY <2>1 DEF FInv, FrameworkTypeOK, connVars
  <2>4. HandlersSound' /\ RequestSound'
    BY <2>1 DEF FInv, HandlersSound, RequestSound, Registered
  <2> QED
    BY <2>2, <2>3, <2>4 DEF FInv
<1> QED
  BY <1>1, <1>2, <1>3, <1>4, <1>5, <1>6, <1>7, <1>8 DEF Next

-----------------------------------------------------------------------------
(* What the invariant gives *)

LEMMA FInvFraming == FInv => Framing
<1> SUFFICES ASSUME FInv PROVE Framing
  OBVIOUS
<1> DEFINE Good(d) == /\ Len(parser[d].header) <= RPC_HEADER_SIZE
                      /\ ~Complete(parser[d])
                      /\ parser[d].expected_meta_len + parser[d].expected_payload_len <= SizeLimit
<1>1. FrameworkTypeOK /\ IsMessage(request) /\ task \in {"idle", "waiting"} /\ RoundTrip
  BY RequestIsMessage DEF FInv, FrameworkTypeOK
<1>2. ASSUME NEW d \in Directions, Empty(d) PROVE Good(d) /\ Received(parser[d]) \o wire[d] = <<>>
  <2>1. /\ Fresh.header = <<>> /\ Fresh.meta = <<>> /\ Fresh.payload = <<>> /\ ~Fresh.header_ready
        /\ Fresh.expected_meta_len = 0 /\ Fresh.expected_payload_len = 0
    BY DEF Fresh
  <2>2. Received(Fresh) = <<>>
    BY <2>1, EmptySeq, ConcatEmptySeq DEF Received
  <2>3. Received(Fresh) \o <<>> = <<>>
    BY <2>2, EmptySeq, ConcatEmptySeq
  <2>4. Len(Fresh.header) <= RPC_HEADER_SIZE
    BY <2>1, EmptySeq DEF RPC_HEADER_SIZE
  <2>5. ~Complete(Fresh)
    BY <2>1 DEF Complete
  <2>6. Fresh.expected_meta_len + Fresh.expected_payload_len <= SizeLimit
    BY <2>1, MessageAssumption
  <2> QED
    BY <1>2, <2>3, <2>4, <2>5, <2>6 DEF Empty
<1>3. ASSUME NEW d \in Directions, NEW x, IsMessage(x), Half(d, x)
      PROVE  Good(d) /\ Received(parser[d]) \o wire[d] = Encode(x)
  BY <1>3, HalfWayFacts DEF Half
<1>4. "req" \in Directions /\ "resp" \in Directions /\ Directions = {"req", "resp"}
  BY DEF Directions
<1>5. /\ Empty("req") \/ Half("req", request)
      /\ Empty("resp") \/ \E s \in Statuses : Half("resp", Answer(s))
  BY <1>1 DEF RoundTrip, Quiet, Sending, Processing, Answering
<1>6. Good("req") /\ (Received(parser["req"]) \o wire["req"] = <<>> \/ Received(parser["req"]) \o wire["req"] = Encode(request))
  BY <1>1, <1>2, <1>3, <1>4, <1>5
<1> DEFINE bytes == Received(parser["resp"]) \o wire["resp"]
<1>7. Good("resp") /\ (bytes # <<>> => bytes[1] = RPC_MAGIC /\ bytes[2] = request.sequence)
  <2>1. CASE Empty("resp")
    BY <1>2, <1>4, <2>1
  <2>2. ASSUME NEW s \in Statuses, Half("resp", Answer(s))
        PROVE  Good("resp") /\ bytes[1] = RPC_MAGIC /\ bytes[2] = request.sequence
    <3> DEFINE x == Answer(s)
    <3>1. IsMessage(x) /\ x.sequence = request.sequence
      BY <1>1, AnswerIsMessage DEF Answer
    <3> HIDE DEF x
    <3>2. Good("resp") /\ bytes = Encode(x)
      BY <1>3, <1>4, <2>2, <3>1 DEF x
    <3>3. Encode(x)[1] = RPC_MAGIC /\ Encode(x)[2] = x.sequence
      BY <3>1, Layout
    <3> QED
      BY <3>1, <3>2, <3>3
  <2> QED
    BY <1>5, <2>1, <2>2
<1>8. \A d \in Directions : Good(d)
  BY <1>4, <1>6, <1>7
<1> QED
  BY <1>6, <1>7, <1>8 DEF Framing

LEMMA FInvInOnePlace == FInv => InOnePlace
<1> SUFFICES ASSUME FInv PROVE InOnePlace
  OBVIOUS
<1> DEFINE busy == {d \in Directions : wire[d] # <<>>}
<1>1. FrameworkTypeOK /\ IsMessage(request) /\ task \in {"idle", "waiting"} /\ RoundTrip
  BY RequestIsMessage DEF FInv, FrameworkTypeOK
<1>2. ASSUME NEW d, NEW x, IsMessage(x), Half(d, x) PROVE wire[d] # <<>>
  BY <1>2, HalfWayFacts DEF Half
<1>3. \A c : Cardinality({c}) = 1
  BY FS_Singleton
<1>0. Cardinality(busy) + Cardinality(jobs) = (IF task = "waiting" THEN 1 ELSE 0) => InOnePlace
  BY DEF InOnePlace
<1> HIDE DEF busy
<1>4. Cardinality({}) = 0
  BY FS_EmptySet
<1>5. CASE task = "idle"
  <2>1. busy = {} /\ jobs = {}
    BY <1>1, <1>5 DEF RoundTrip, Quiet, Empty, Directions, busy
  <2> QED
    BY <1>0, <1>4, <1>5, <2>1
<1>6. CASE task = "waiting"
  <2>1. CASE Sending
    <3>1. busy = {"req"} /\ jobs = {}
      BY <1>1, <1>2, <2>1 DEF Sending, Empty, Directions, busy
    <3>2. Cardinality(busy) = 1 /\ Cardinality(jobs) = 0
      BY <1>4, <3>1, FS_Singleton
    <3> QED
      BY <1>0, <1>6, <3>2
  <2>2. CASE Processing
    <3>1. busy = {} /\ \E j : jobs = {j}
      BY <2>2 DEF Processing, Empty, Directions, busy
    <3> QED
      BY <1>0, <1>3, <1>4, <1>6, <3>1
  <2>3. CASE Answering
    <3>1. wire["resp"] # <<>>
      BY <1>1, <1>2, <2>3, AnswerIsMessage DEF Answering
    <3>2. busy = {"resp"} /\ jobs = {}
      BY <2>3, <3>1 DEF Answering, Empty, Directions, busy
    <3>3. Cardinality(busy) = 1 /\ Cardinality(jobs) = 0
      BY <1>4, <3>2, FS_Singleton
    <3> QED
      BY <1>0, <1>6, <3>3
  <2> QED
    BY <1>1, <1>6, <2>1, <2>2, <2>3 DEF RoundTrip
<1> QED
  BY <1>1, <1>5, <1>6

LEMMA FInvAnswers == FInv => AnswersOwnRequest
<1> SUFFICES ASSUME FInv, task = "idle", outcome.status # RPC_NETWORK_ERROR
             PROVE  /\ outcome.sequence = request.sequence
                    /\ outcome.status = RPC_OK => outcome.payload = <<request.id>> \o request.payload \o request.payload
                    /\ outcome.status = RPC_NOT_FOUND => ~known
                    /\ outcome.status = RPC_BAD_REQUEST <=> request.id = 0
  BY DEF AnswersOwnRequest
<1>1. OutcomeSound
  BY DEF FInv, RoundTrip
<1> QED
  BY <1>1 DEF OutcomeSound, RightStatus, AnswerPayload

-----------------------------------------------------------------------------
(***************************************************************************)
(* The invariant holds of the framework, for any methods, names, payloads, *)
(* limits and retries.                                                     *)
(***************************************************************************)
THEOREM FrameworkInvariant == Spec => []FInv
  BY InitFInv, NextFInv, PTL DEF Spec

(***************************************************************************)
(* Whatever pieces the network delivers, append neither loses, repeats nor *)
(* misplaces a byte of a message (rpc_message.cc:204-273).                 *)
(***************************************************************************)
THEOREM NothingLostInPieces == Spec => []Framing
  BY FrameworkInvariant, FInvFraming, PTL

(***************************************************************************)
(* A waiting task has its request or its response in exactly one place,    *)
(* and an idle connection is clean (rpc_framework.cc:61-95).               *)
(***************************************************************************)
THEOREM RoundTripInOnePlace == Spec => []InOnePlace
  BY FrameworkInvariant, FInvInOnePlace, PTL

(***************************************************************************)
(* A callback is given the answer to its own request by the handler of the *)
(* method it named (rpc_framework.cc:61-95).                               *)
(***************************************************************************)
THEOREM OwnRequestAnswered == Spec => []AnswersOwnRequest
  BY FrameworkInvariant, FInvAnswers, PTL
=============================================================================
