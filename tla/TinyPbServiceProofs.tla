------------------------ MODULE TinyPbServiceProofs ------------------------
(***************************************************************************)
(* Proofs about MetricsHistogram, for any number of threads and any        *)
(* latencies, and about TinyPbCodec and TinyPbService, for any requests,   *)
(* services and number of handler threads.                                 *)
(***************************************************************************)
EXTENDS TinyPbService, FiniteSetTheorems, SequenceTheorems, TLAPS

-----------------------------------------------------------------------------
(* The histogram.  What makes Extremes inductive is what each thread knows *)
(* inside record: once past its minimum loop min_ is no greater than its   *)
(* value, and before a CAS its value is beyond what it has seen.           *)

Inside ==
  \A t \in Threads :
    /\ pc[t] # "Idle" => value[t] \in begun
    /\ pc[t] = "CasMin" => value[t] < seen[t]
    /\ pc[t] = "CasMax" => value[t] > seen[t]
    /\ pc[t] \in {"LoadMax", "CasMax"} => min <= value[t]

HInv == TypeOK /\ Extremes /\ Inside /\ before \subseteq done /\ ScrapeCovers

LEMMA HInvInit == Init => HInv
  BY HistogramAssumption DEF Init, HInv, TypeOK, Extremes, Inside, ScrapeCovers, Locations

\* A step of record leaves a scrape as it was and only adds to done.
LEMMA ScrapeUntouched ==
  HInv /\ UNCHANGED scrape /\ done \subseteq done' => (before \subseteq done)' /\ ScrapeCovers'
  BY DEF HInv, ScrapeCovers, scrape

LEMMA HInvStep == HInv /\ [Next]_vars => HInv'
<1> SUFFICES ASSUME HInv, [Next]_vars PROVE HInv'
  OBVIOUS
<1> USE HistogramAssumption
<1> USE DEF HInv
<1>0. min \in Int /\ max \in Int
  BY DEF TypeOK
<1>1. ASSUME NEW t \in Threads, NEW v \in Values, Record(t, v) PROVE HInv'
  <2>1. TypeOK' BY <1>1 DEF Record, TypeOK, Goto, Locations, scrape
  <2>2. Extremes' BY <1>1 DEF Record, TypeOK, Extremes
  <2>3. Inside' BY <1>1 DEF Record, TypeOK, Inside, Goto
  <2> QED BY <1>1, <2>1, <2>2, <2>3, ScrapeUntouched DEF Record
<1>2. ASSUME NEW t \in Threads, AddCount(t) PROVE HInv'
  <2>1. TypeOK' BY <1>2 DEF AddCount, TypeOK, Goto, Locations, scrape, locals, history
  <2>2. Extremes' BY <1>2 DEF AddCount, Extremes, history
  <2>3. Inside' BY <1>2 DEF AddCount, TypeOK, Inside, Goto, history, locals
  <2> QED BY <1>2, <2>1, <2>2, <2>3, ScrapeUntouched DEF AddCount, history
<1>3. ASSUME NEW t \in Threads, LoadMin(t) PROVE HInv'
  <2>1. TypeOK' BY <1>3 DEF LoadMin, TypeOK, Goto, Locations, scrape, fields, history
  <2>2. Extremes' BY <1>3 DEF LoadMin, Extremes, fields, history
  <2>3. Inside' BY <1>3 DEF LoadMin, TypeOK, Inside, Goto, fields, history
  <2> QED BY <1>3, <2>1, <2>2, <2>3, ScrapeUntouched DEF LoadMin, history
<1>4. ASSUME NEW t \in Threads, CasMin(t) PROVE HInv'
  <2>1. value[t] \in begun /\ value[t] \in Values /\ pc[t] = "CasMin"
    BY <1>4 DEF CasMin, Goto, Inside, TypeOK
  <2>2. UNCHANGED <<sum, count, max, value, spc, scraped, before, begun, done, records>>
    BY <1>4 DEF CasMin, fields, locals, scrape, history
  <2>3. min' \in Values \cup {INT64_MAX} /\ (min' = min \/ min' = value[t]) /\ min' <= min
    BY <1>0, <1>4, <2>1 DEF CasMin, Inside, TypeOK, fields
  <2>4. seen' \in [Threads -> Int] /\ pc' \in [Threads -> Locations]
    BY <1>0, <1>4, <2>1 DEF CasMin, TypeOK, Goto, Locations, locals
  <2>5. TypeOK' BY <2>2, <2>3, <2>4 DEF TypeOK
  <2>6. Extremes' BY <1>0, <2>1, <2>2, <2>3 DEF Extremes, TypeOK
  <2>7. Inside' BY <1>4, <2>1, <2>3 DEF CasMin, TypeOK, Inside, Goto, fields, history, locals
  <2> QED BY <2>2, <2>5, <2>6, <2>7, ScrapeUntouched DEF scrape
<1>5. ASSUME NEW t \in Threads, LoadMax(t) PROVE HInv'
  <2>1. value[t] \in begun /\ value[t] \in Values /\ min <= value[t] /\ pc[t] = "LoadMax"
    BY <1>5 DEF LoadMax, Goto, Inside, TypeOK
  <2>2. UNCHANGED <<sum, count, min, max, value, spc, scraped, before, begun, records>>
    BY <1>5 DEF LoadMax, fields, scrape
  <2>3. done' = done \/ (done' = done \cup {value[t]} /\ value[t] <= max)
    BY <1>5 DEF LoadMax
  <2>4. seen' \in [Threads -> Int] /\ pc' \in [Threads -> Locations]
    BY <1>0, <1>5 DEF LoadMax, TypeOK, Goto, Locations
  <2>5. TypeOK' BY <2>1, <2>2, <2>3, <2>4 DEF TypeOK
  <2>6. Extremes' BY <2>1, <2>2, <2>3 DEF Extremes
  <2>7. Inside' BY <1>5, <2>1 DEF LoadMax, TypeOK, Inside, Goto, fields
  <2> QED BY <2>2, <2>3, <2>5, <2>6, <2>7, ScrapeUntouched DEF scrape
<1>6. ASSUME NEW t \in Threads, CasMax(t) PROVE HInv'
  <2>1. value[t] \in begun /\ value[t] \in Values /\ min <= value[t] /\ pc[t] = "CasMax"
    BY <1>6 DEF CasMax, Goto, Inside, TypeOK
  <2>2. UNCHANGED <<sum, count, min, value, spc, scraped, before, begun, records>>
    BY <1>6 DEF CasMax, fields, locals, scrape
  <2>3. max' \in Values \cup {INT64_MIN} /\ (max' = max \/ max' = value[t]) /\ max <= max'
    BY <1>0, <1>6, <2>1 DEF CasMax, Inside, TypeOK, fields
  <2>4. done' = done \/ (done' = done \cup {value[t]} /\ value[t] <= max')
    <3>1. value[t] \in Int BY DEF TypeOK
    <3>2. value[t] <= value[t] BY <3>1, SMT
    <3> QED BY <1>6, <2>1, <3>2 DEF CasMax, fields
  <2>5. seen' \in [Threads -> Int] /\ pc' \in [Threads -> Locations]
    BY <1>0, <1>6, <2>1 DEF CasMax, TypeOK, Goto, Locations, locals
  <2>6. TypeOK' BY <2>1, <2>2, <2>3, <2>4, <2>5 DEF TypeOK
  <2>7. Extremes'
    <3>1. ASSUME NEW v \in done' PROVE min' <= v /\ v <= max'
      <4>1. CASE v = value[t] /\ value[t] <= max' BY <2>1, <2>2, <4>1
      <4>2. CASE v \in done
        <5>1. v \in Int /\ max' \in Int /\ min <= v /\ v <= max
          BY <2>3, <4>2 DEF Extremes, TypeOK
        <5> QED BY <1>0, <2>2, <2>3, <5>1
      <4> QED BY <2>4, <4>1, <4>2
    <3>2. max' # INT64_MIN => max' \in begun'
      BY <2>1, <2>2, <2>3 DEF Extremes
    <3> QED BY <2>2, <3>1, <3>2 DEF Extremes
  <2>8. Inside' BY <1>6, <2>1 DEF CasMax, TypeOK, Inside, Goto, fields, locals
  <2> QED BY <2>2, <2>4, <2>6, <2>7, <2>8, ScrapeUntouched DEF scrape
<1>7. CASE Scrape
  <2>1. UNCHANGED <<fields, pc, locals, history>>
    BY <1>7 DEF Scrape, ScrapeSum, ScrapeCount, ScrapeMin, ScrapeMax
  <2>2. Extremes' /\ Inside'
    BY <2>1 DEF Extremes, Inside, fields, locals, history
  <2>3. GetMin \in Values \cup {0} /\ \A v \in before : GetMin <= v
    BY DEF GetMin, TypeOK, Extremes
  <2>4. GetMax \in Values \cup {0} /\ \A v \in before : v <= GetMax
    BY DEF GetMax, TypeOK, Extremes
  <2>5. CASE ScrapeSum
    BY <2>1, <2>2, <2>5 DEF ScrapeSum, TypeOK, ScrapeCovers, fields, locals, history
  <2>6. CASE ScrapeCount
    BY <2>1, <2>2, <2>6 DEF ScrapeCount, TypeOK, ScrapeCovers, fields, locals, history
  <2>7. CASE ScrapeMin
    BY <2>1, <2>2, <2>3, <2>7 DEF ScrapeMin, TypeOK, ScrapeCovers, fields, locals, history
  <2>8. CASE ScrapeMax
    BY <2>1, <2>2, <2>4, <2>8 DEF ScrapeMax, TypeOK, ScrapeCovers, fields, locals, history
  <2> QED BY <1>7, <2>5, <2>6, <2>7, <2>8 DEF Scrape
<1>8. CASE UNCHANGED vars
  BY <1>8 DEF vars, fields, locals, scrape, history, TypeOK, Extremes, Inside, ScrapeCovers
<1> QED BY <1>1, <1>2, <1>3, <1>4, <1>5, <1>6, <1>7, <1>8 DEF Next, Step

\* The conjunction of all parts is invariant.
THEOREM Invariant == Spec => []HInv
  BY HInvInit, HInvStep, PTL DEF Spec

(***************************************************************************)
(* The histogram is well typed, and no limit of int64_t is ever exported   *)
(* (get_min and get_max, rpc_metrics.cc:20-30).                            *)
(***************************************************************************)
THEOREM TypeCorrect == Spec => []TypeOK
<1>1. HInv => TypeOK BY DEF HInv
<1> QED BY <1>1, Invariant, PTL

(***************************************************************************)
(* However many threads record at once, min_ and max_ are recorded values  *)
(* that cover every record that has returned (rpc_metrics.cc:13-17).       *)
(***************************************************************************)
THEOREM NoExtremeIsLost == Spec => []Extremes
<1>1. HInv => Extremes BY DEF HInv
<1> QED BY <1>1, Invariant, PTL

(***************************************************************************)
(* A scrape shows at least what had been recorded when it began            *)
(* (to_prometheus_format, rpc_metrics.cc:108-111).                         *)
(***************************************************************************)
THEOREM ScrapesCover == Spec => []ScrapeCovers
<1>1. HInv => ScrapeCovers BY DEF HInv
<1> QED BY <1>1, Invariant, PTL

(***************************************************************************)
(* min_ never rises and max_ never falls (rpc_metrics.cc:14, 17).          *)
(***************************************************************************)
THEOREM ExtremesOnlyWiden == Spec => ExtremesWiden
<1>1. HInv /\ [Next]_vars => [min' <= min /\ max' >= max]_vars
  <2> SUFFICES ASSUME HInv, Next PROVE min' <= min /\ max' >= max
    BY DEF vars
  <2> USE HistogramAssumption DEF HInv, TypeOK
  <2>0. min \in Int /\ max \in Int OBVIOUS
  <2>1. ASSUME NEW t \in Threads, CasMin(t) PROVE min' <= min /\ max' >= max
    BY <2>0, <2>1 DEF CasMin, Inside, Goto, fields
  <2>2. ASSUME NEW t \in Threads, CasMax(t) PROVE min' <= min /\ max' >= max
    BY <2>0, <2>2 DEF CasMax, Inside, Goto, fields
  <2>3. ASSUME UNCHANGED <<min, max>> PROVE min' <= min /\ max' >= max
    BY <2>0, <2>3
  <2> QED BY <2>1, <2>2, <2>3 DEF Next, Step, Scrape, ScrapeSum, ScrapeCount, ScrapeMin,
                                 ScrapeMax, Record, AddCount, LoadMin, LoadMax, fields
<1> QED BY <1>1, Invariant, PTL DEF Spec, ExtremesWiden

-----------------------------------------------------------------------------
(* The codec *)

\* What a part of a message equals, unit by unit, is that part.
LEMMA Slice ==
  ASSUME NEW S, NEW m \in Seq(S), NEW s \in Seq(S), NEW i \in Nat, i + Len(s) <= Len(m),
         \A j \in 1..Len(s) : m[i + j] = s[j]
  PROVE  SubSeq(m, i + 1, i + Len(s)) = s
<1>1. Len(s) \in Nat /\ \A j \in (i + 1)..(i + Len(s)) : m[j] \in S
  BY LenProperties, ElementOfSeq
<1> DEFINE u == SubSeq(m, i + 1, i + Len(s))
<1>2. /\ u \in Seq(S) /\ Len(u) = Len(s)
      /\ \A j \in 1..Len(s) : u[j] = m[i + 1 + j - 1]
  BY <1>1, SubSeqProperties
<1> HIDE DEF u
<1>3. \A j \in 1..Len(s) : u[j] = s[j]
  <2> SUFFICES ASSUME NEW j \in 1..Len(s) PROVE u[j] = s[j]
    OBVIOUS
  <2>1. i + 1 + j - 1 = i + j
    BY <1>1
  <2> QED
    BY <1>2, <2>1
<1>4. u = s
  BY <1>2, <1>3, SeqEqual
<1> QED
  BY <1>4 DEF u

\* A concatenation, unit by unit.
LEMMA Concat ==
  ASSUME NEW S, NEW s \in Seq(S), NEW t \in Seq(S)
  PROVE  /\ s \o t \in Seq(S) /\ Len(s) \in Nat /\ Len(t) \in Nat /\ Len(s \o t) = Len(s) + Len(t)
         /\ \A j \in 1..Len(s) : (s \o t)[j] = s[j]
         /\ \A j \in (Len(s) + 1)..(Len(s) + Len(t)) : (s \o t)[j] = t[j - Len(s)]
<1>1. Len(s) \in Nat /\ Len(t) \in Nat
  BY LenProperties
<1> QED
  BY <1>1, ConcatProperties

\* What crc32 does with one unit.
CrcUnit(c, x, entries) ==
  (Crc32Table(entries)[(c + x) % TableSize] + c \div TableSize) % (TableSize * TableSize)

CrcInitial == TableSize * TableSize - 1

\* f is the checksum after each unit, up to the k-th.
SumsUpTo(f, data, entries, k) ==
  /\ f[0] = CrcInitial
  /\ \A n \in 1..k : f[n] = CrcUnit(f[n - 1], data[n], entries)

\* Two sequences begin alike.
Alike(data, data2, k) == \A n \in 1..k : data[n] = data2[n]

\* f is the function of the checksums.
Sums(f, data, entries, k) == f \in [0..k -> Int] /\ SumsUpTo(f, data, entries, k)

\* It gives an integer.
LEMMA CrcUnitType ==
  ASSUME NEW c \in Int, NEW x \in Int, NEW entries \in Int
  PROVE  CrcUnit(c, x, entries) \in Int
  BY DEF CrcUnit, Crc32Table, TableSize

\* Two units that follow the same ones give different sums if they differ by one.
LEMMA CrcUnitTells ==
  ASSUME NEW c \in Int, NEW x \in Int
  PROVE  CrcUnit(c, x, TableSize) # CrcUnit(c, x + 1, TableSize)
<1> DEFINE i == (c + x) % TableSize
           j == (c + (x + 1)) % TableSize
           h == c \div TableSize
           T == Crc32Table(TableSize)
<1>1. i \in 0..31 /\ j \in 0..31 /\ i # j /\ h \in Int
  BY DEF TableSize
<1>2. \A y \in 0..31 : T[y] = ((7 * y + 3) % 32) * 32 + y
  BY DEF TableSize, Crc32Table
<1> HIDE DEF i, j, h, T
<1>3. \A y \in 0..31 : (7 * y + 3) % 32 \in 0..31
  OBVIOUS
<1>4. PICK p \in 0..31 : T[i] = p * 32 + i
  BY <1>1, <1>2, <1>3
<1>5. PICK q \in 0..31 : T[j] = q * 32 + j
  BY <1>1, <1>2, <1>3
<1>6. (T[i] + h) % 1024 # (T[j] + h) % 1024
  BY <1>1, <1>4, <1>5, SMTT(30)
<1> QED
  BY <1>6 DEF CrcUnit, i, j, h, T, TableSize

(***************************************************************************)
(* The sums exist: the smallest k up to which they did not would have a    *)
(* predecessor whose sums can be continued.                                *)
(***************************************************************************)
LEMMA SumsExist ==
  ASSUME NEW data \in Seq(Int), NEW entries \in Int, NEW k \in 0..Len(data)
  PROVE  \E f : Sums(f, data, entries, k)
<1> DEFINE Bad == {n \in 0..Len(data) : ~\E f : Sums(f, data, entries, n)}
<1> SUFFICES Bad = {}
  OBVIOUS
<1>0. Len(data) \in Nat
  BY LenProperties
<1> SUFFICES ASSUME Bad # {} PROVE FALSE
  OBVIOUS
<1>1. PICK n \in Bad : \A y \in Bad : ~(<<y, n>> \in OpToRel(<, Nat))
  <2>1. Bad \subseteq Nat
    BY <1>0
  <2> HIDE DEF Bad
  <2> QED
    BY <2>1, NatLessThanWellFounded, WFMin
<1>2. n \in 0..Len(data) /\ ~\E f : Sums(f, data, entries, n)
  OBVIOUS
<1>3. n # 0
  <2>1. Sums([y \in 0..0 |-> CrcInitial], data, entries, 0)
    BY DEF Sums, SumsUpTo, CrcInitial, TableSize
  <2> QED
    BY <1>2, <2>1
<1>4. n - 1 \in 0..Len(data) /\ n - 1 < n /\ n - 1 \in Nat /\ n \in Nat
  BY <1>0, <1>2, <1>3
<1>5. n - 1 \notin Bad
  <2> HIDE DEF Bad
  <2> QED
    BY <1>1, <1>4 DEF OpToRel
<1>6. PICK f : Sums(f, data, entries, n - 1)
  BY <1>4, <1>5
<1> DEFINE g == [y \in 0..n |-> IF y = n THEN CrcUnit(f[n - 1], data[n], entries) ELSE f[y]]
<1>7. data[n] \in Int /\ f[n - 1] \in Int
  BY <1>0, <1>2, <1>3, <1>4, <1>6, ElementOfSeq DEF Sums, SumsUpTo
<1>8. CrcUnit(f[n - 1], data[n], entries) \in Int
  BY <1>7, CrcUnitType
<1>9. \A y \in 0..n : y = n \/ y \in 0..(n - 1)
  BY <1>4
<1>10. f \in [0..(n - 1) -> Int] /\ f[0] = CrcInitial
  BY <1>6 DEF Sums, SumsUpTo
<1>11. g \in [0..n -> Int]
  BY <1>8, <1>9, <1>10
<1>12. g[0] = CrcInitial /\ g[n] = CrcUnit(f[n - 1], data[n], entries)
  BY <1>3, <1>4, <1>10
<1>13. ASSUME NEW y \in 1..n PROVE g[y] = CrcUnit(g[y - 1], data[y], entries)
  <2>1. y \in 0..n /\ y - 1 \in 0..n /\ y - 1 # n
    BY <1>4
  <2>2. g[y - 1] = f[y - 1]
    BY <2>1
  <2>3. CASE y = n
    BY <1>12, <2>2, <2>3
  <2>4. CASE y # n
    <3>1. y \in 1..(n - 1) /\ g[y] = f[y]
      BY <1>4, <2>1, <2>4
    <3> QED
      BY <1>6, <2>2, <3>1 DEF Sums, SumsUpTo
  <2> QED
    BY <2>3, <2>4
<1> HIDE DEF g
<1>14. Sums(g, data, entries, n)
  BY <1>11, <1>12, <1>13 DEF Sums, SumsUpTo
<1> QED
  BY <1>2, <1>14

\* Two sequences that begin alike have the same sums so far.
LEMMA SumsAgree ==
  ASSUME NEW data, NEW data2, NEW entries, NEW k \in Nat, NEW f, NEW g,
         SumsUpTo(f, data, entries, k), SumsUpTo(g, data2, entries, k),
         Alike(data, data2, k)
  PROVE  \A n \in 0..k : f[n] = g[n]
<1> DEFINE Bad == {n \in 0..k : f[n] # g[n]}
<1> SUFFICES ASSUME Bad # {} PROVE FALSE
  OBVIOUS
<1>1. PICK n \in Bad : \A y \in Bad : ~(<<y, n>> \in OpToRel(<, Nat))
  <2>1. Bad \subseteq Nat
    OBVIOUS
  <2> HIDE DEF Bad
  <2> QED
    BY <2>1, NatLessThanWellFounded, WFMin
<1>2. n \in 1..k /\ n - 1 \in 0..k /\ n - 1 \in Nat /\ n \in Nat /\ n - 1 < n
  BY DEF SumsUpTo
<1>3. n - 1 \notin Bad
  <2> HIDE DEF Bad
  <2> QED
    BY <1>1, <1>2 DEF OpToRel
<1>4. f[n - 1] = g[n - 1]
  BY <1>2, <1>3
<1>5. f[n] = g[n]
  BY <1>2, <1>4 DEF SumsUpTo, Alike
<1> QED
  BY <1>5

\* crc32 is what the recursion says: its function is the only one with these sums.
LEMMA CrcValue ==
  ASSUME NEW data \in Seq(Int), NEW entries \in Int
  PROVE  \E f : Sums(f, data, entries, Len(data)) /\ Crc32(data, entries) = CrcInitial - f[Len(data)]
<1>0. Len(data) \in Nat
  BY LenProperties
<1> DEFINE F(g) == [n \in 0..Len(data) |->
        IF n = 0 THEN CrcInitial ELSE CrcUnit(g[n - 1], data[n], entries)]
           G == CHOOSE g : g = F(g)
<1>1. PICK f : Sums(f, data, entries, Len(data))
  BY <1>0, SumsExist
<1>2. f = F(f)
  BY <1>0, <1>1 DEF Sums, SumsUpTo
<1>3. G = F(G)
  BY <1>2
<1>4. Crc32(data, entries) = CrcInitial - G[Len(data)]
  BY DEF Crc32, CrcInitial, CrcUnit
<1> HIDE DEF G
<1>5. /\ G = [n \in 0..Len(data) |-> G[n]] /\ G[0] = CrcInitial
      /\ \A n \in 1..Len(data) : G[n] = CrcUnit(G[n - 1], data[n], entries)
  <2>1. G = [n \in 0..Len(data) |->
               IF n = 0 THEN CrcInitial ELSE CrcUnit(G[n - 1], data[n], entries)]
    BY <1>3
  <2> QED
    BY <1>0, <2>1
<1>6. SumsUpTo(G, data, entries, Len(data)) /\ SumsUpTo(f, data, entries, Len(data))
  BY <1>1, <1>5 DEF Sums, SumsUpTo
<1>7. \A n \in 0..Len(data) : f[n] = G[n]
  BY <1>0, <1>6, SumsAgree DEF Alike
<1>8. G = f
  BY <1>1, <1>5, <1>7 DEF Sums
<1> QED
  BY <1>1, <1>4, <1>8

\* The checksum tells the data from what differs from it by one in the last unit.
LEMMA CrcTells ==
  ASSUME NEW data \in Seq(Int), NEW data2 \in Seq(Int), Len(data) = Len(data2), Len(data) > 0,
         \A n \in 1..(Len(data) - 1) : data2[n] = data[n],
         data2[Len(data)] = data[Len(data)] + 1
  PROVE  Crc32(data2, TableSize) # Crc32(data, TableSize)
<1> DEFINE L == Len(data)
<1>0. L \in Nat /\ L - 1 \in Nat /\ L \in 1..L /\ L - 1 \in 0..L /\ data[L] \in Int
  BY LenProperties, ElementOfSeq
<1>1. TableSize \in Int
  BY DEF TableSize
<1>2. PICK f : Sums(f, data, TableSize, L) /\ Crc32(data, TableSize) = CrcInitial - f[L]
  BY <1>1, CrcValue
<1>3. PICK g : Sums(g, data2, TableSize, L) /\ Crc32(data2, TableSize) = CrcInitial - g[L]
  BY <1>1, CrcValue
<1> HIDE DEF L
<1>4. \A n \in 1..(L - 1) : n \in 1..L
  BY <1>0
<1>5. /\ SumsUpTo(f, data, TableSize, L - 1) /\ SumsUpTo(g, data2, TableSize, L - 1)
      /\ Alike(data, data2, L - 1)
  BY <1>2, <1>3, <1>4 DEF Sums, SumsUpTo, Alike, L
<1>6. \A n \in 0..(L - 1) : f[n] = g[n]
  <2> DEFINE k == L - 1
  <2>1. k \in Nat /\ SumsUpTo(f, data, TableSize, k) /\ SumsUpTo(g, data2, TableSize, k) /\ Alike(data, data2, k)
    BY <1>0, <1>5
  <2> HIDE DEF k
  <2>2. \A n \in 0..k : f[n] = g[n]
    BY ONLY <2>1, SumsAgree
  <2> QED
    BY <2>2 DEF k
<1>7. f[L - 1] = g[L - 1]
  <2>1. L - 1 \in 0..(L - 1)
    BY <1>0
  <2> QED
    BY <1>6, <2>1
<1>8. /\ f[L] = CrcUnit(f[L - 1], data[L], TableSize)
      /\ g[L] = CrcUnit(g[L - 1], data2[L], TableSize)
      /\ f[L - 1] \in Int /\ f[L] \in Int /\ g[L] \in Int
  BY <1>0, <1>2, <1>3 DEF Sums, SumsUpTo
<1>9. f[L] # g[L]
  BY <1>0, <1>7, <1>8, CrcUnitTells DEF L
<1>10. CrcInitial \in Int
  BY DEF CrcInitial, TableSize
<1> QED
  BY <1>2, <1>3, <1>8, <1>9, <1>10

\* A checksum is an integer.
LEMMA CrcType == ASSUME NEW data \in Seq(Int), NEW entries \in Int PROVE Crc32(data, entries) \in Int
<1>1. PICK f : Sums(f, data, entries, Len(data)) /\ Crc32(data, entries) = CrcInitial - f[Len(data)]
  BY CrcValue
<1>2. Len(data) \in 0..Len(data) /\ CrcInitial \in Int
  BY LenProperties DEF CrcInitial, TableSize
<1> QED
  BY <1>1, <1>2 DEF Sums

\* Where encode puts the lengths and the fields.
LEMMA Layout ==
  ASSUME NEW d \in TinyPbStruct, NEW n \in Int
  PROVE  LET a == d.msg_req
             b == d.service_full_name
             e == d.err_info
             p == d.pb_data
             m == Encode(d, n)
             k == 4 + Len(a) + Len(b)
         IN  /\ m \in Seq(Int) /\ Len(m) = 8 + Len(a) + Len(b) + Len(e) + Len(p)
             /\ m[1] = TINYPB_START /\ m[2] = Len(m) - 2
             /\ m[3] = Len(a) /\ \A j \in 1..Len(a) : m[3 + j] = a[j]
             /\ m[4 + Len(a)] = Len(b) /\ \A j \in 1..Len(b) : m[4 + Len(a) + j] = b[j]
             /\ m[k + 1] = d.err_code /\ m[k + 2] = Len(e)
             /\ \A j \in 1..Len(e) : m[k + 2 + j] = e[j]
             /\ \A j \in 1..Len(p) : m[k + 2 + Len(e) + j] = p[j]
             /\ m[Len(m)] = TINYPB_END
             /\ m[Len(m) - 1] = Crc32(SubSeq(m, 2, Len(m) - 2), n)
<1> DEFINE a == d.msg_req
           b == d.service_full_name
           c == d.err_code
           e == d.err_info
           p == d.pb_data
           b1 == <<Len(a)>> \o a
           b2 == b1 \o <<Len(b)>>
           b3 == b2 \o b
           b4 == b3 \o <<c, Len(e)>>
           b5 == b4 \o e
           b6 == b5 \o p
           w == <<(Len(b6) + 4) - 2>>
           summed == w \o b6
           z == <<Crc32(summed, n), TINYPB_END>>
           m0 == <<TINYPB_START>> \o summed
           m == m0 \o z
<1>1. a \in Seq(Int) /\ b \in Seq(Int) /\ c \in Int /\ e \in Seq(Int) /\ p \in Seq(Int)
  BY DEF TinyPbStruct
<1>2. Len(a) \in Nat /\ Len(b) \in Nat /\ Len(e) \in Nat /\ Len(p) \in Nat
  BY <1>1, LenProperties
<1>3. Encode(d, n) = m
  BY DEF Encode
<1> HIDE DEF a, b, c, e, p
<1> DEFINE la == <<Len(a)>>
           lb == <<Len(b)>>
           ce == <<c, Len(e)>>
           start == <<TINYPB_START>>
<1>4. /\ la \in Seq(Int) /\ Len(la) = 1 /\ la[1] = Len(a)
      /\ lb \in Seq(Int) /\ Len(lb) = 1 /\ lb[1] = Len(b)
      /\ ce \in Seq(Int) /\ Len(ce) = 2 /\ ce[1] = c /\ ce[2] = Len(e)
  BY <1>1, <1>2
<1>5. m = (start \o summed) \o z /\ summed = w \o b6
      /\ b6 = ((((((la \o a) \o lb) \o b) \o ce) \o e) \o p)
  OBVIOUS
<1> HIDE DEF la, lb, ce
<1> HIDE DEF b1
<1>7. /\ b1 \in Seq(Int) /\ Len(b1) = Len(la) + Len(a)
      /\ \A j \in 1..Len(la) : b1[j] = la[j]
      /\ \A j \in (Len(la) + 1)..(Len(la) + Len(a)) : b1[j] = a[j - Len(la)]
  <2>1. la \in Seq(Int) /\ a \in Seq(Int)
    BY <1>4, <1>1
  <2>2. b1 = la \o a
    BY DEF b1, la
  <2> QED
    BY <2>1, <2>2, Concat
<1> HIDE DEF b2
<1>8. /\ b2 \in Seq(Int) /\ Len(b2) = Len(b1) + Len(lb)
      /\ \A j \in 1..Len(b1) : b2[j] = b1[j]
      /\ \A j \in (Len(b1) + 1)..(Len(b1) + Len(lb)) : b2[j] = lb[j - Len(b1)]
  <2>1. b1 \in Seq(Int) /\ lb \in Seq(Int)
    BY <1>7, <1>4
  <2>2. b2 = b1 \o lb
    BY DEF b2, lb
  <2> QED
    BY <2>1, <2>2, Concat
<1>9. /\ b3 \in Seq(Int) /\ Len(b3) = Len(b2) + Len(b)
      /\ \A j \in 1..Len(b2) : b3[j] = b2[j]
      /\ \A j \in (Len(b2) + 1)..(Len(b2) + Len(b)) : b3[j] = b[j - Len(b2)]
  <2>1. b2 \in Seq(Int) /\ b \in Seq(Int)
    BY <1>8, <1>1
  <2> QED
    BY <2>1, Concat
<1> HIDE DEF b3, b4
<1>10. /\ b4 \in Seq(Int) /\ Len(b4) = Len(b3) + Len(ce)
       /\ \A j \in 1..Len(b3) : b4[j] = b3[j]
       /\ \A j \in (Len(b3) + 1)..(Len(b3) + Len(ce)) : b4[j] = ce[j - Len(b3)]
  <2>1. b3 \in Seq(Int) /\ ce \in Seq(Int)
    BY <1>9, <1>4
  <2>2. b4 = b3 \o ce
    BY DEF b4, ce
  <2> QED
    BY <2>1, <2>2, Concat
<1>11. /\ b5 \in Seq(Int) /\ Len(b5) = Len(b4) + Len(e)
       /\ \A j \in 1..Len(b4) : b5[j] = b4[j]
       /\ \A j \in (Len(b4) + 1)..(Len(b4) + Len(e)) : b5[j] = e[j - Len(b4)]
  <2>1. b4 \in Seq(Int) /\ e \in Seq(Int)
    BY <1>10, <1>1
  <2> QED
    BY <2>1, Concat
<1> HIDE DEF b5
<1>12. /\ b6 \in Seq(Int) /\ Len(b6) = Len(b5) + Len(p)
       /\ \A j \in 1..Len(b5) : b6[j] = b5[j]
       /\ \A j \in (Len(b5) + 1)..(Len(b5) + Len(p)) : b6[j] = p[j - Len(b5)]
  <2>1. b5 \in Seq(Int) /\ p \in Seq(Int)
    BY <1>11, <1>1
  <2> QED
    BY <2>1, Concat
<1> HIDE DEF b6
<1>13. /\ Len(b1) = 1 + Len(a) /\ Len(b2) = 2 + Len(a) /\ Len(b3) = 2 + Len(a) + Len(b)
       /\ Len(b4) = 4 + Len(a) + Len(b) /\ Len(b5) = 4 + Len(a) + Len(b) + Len(e)
       /\ Len(b6) = 4 + Len(a) + Len(b) + Len(e) + Len(p)
  BY <1>2, <1>4, <1>7, <1>8, <1>9, <1>10, <1>11, <1>12
<1>14. w \in Seq(Int) /\ Len(w) = 1 /\ w[1] = Len(b6) + 2
  BY <1>2, <1>13
<1> HIDE DEF w
<1>15. /\ summed \in Seq(Int) /\ Len(summed) = Len(w) + Len(b6)
       /\ \A j \in 1..Len(w) : summed[j] = w[j]
       /\ \A j \in (Len(w) + 1)..(Len(w) + Len(b6)) : summed[j] = b6[j - Len(w)]
  <2>1. w \in Seq(Int) /\ b6 \in Seq(Int)
    BY <1>14, <1>12
  <2> QED
    BY <2>1, Concat
<1>16. /\ start \in Seq(Int) /\ Len(start) = 1 /\ start[1] = TINYPB_START
       /\ z \in Seq(Int) /\ Len(z) = 2 /\ z[1] = Crc32(summed, n) /\ z[2] = TINYPB_END
  <2> HIDE DEF summed
  <2> QED
    BY <1>15, CrcType DEF TINYPB_START, TINYPB_END
<1>17. summed \in Seq(Int)
  BY <1>15
<1>18. m0 = start \o summed
  OBVIOUS
<1> HIDE DEF summed, start, z, m0
<1>19. /\ m0 \in Seq(Int) /\ Len(m0) = Len(start) + Len(summed)
       /\ \A j \in 1..Len(start) : m0[j] = start[j]
       /\ \A j \in (Len(start) + 1)..(Len(start) + Len(summed)) : m0[j] = summed[j - Len(start)]
  <2>1. start \in Seq(Int) /\ summed \in Seq(Int)
    BY <1>16, <1>17
  <2> QED
    BY <1>18, <2>1, Concat
<1>20. /\ m \in Seq(Int) /\ Len(m) = Len(m0) + Len(z)
       /\ \A j \in 1..Len(m0) : m[j] = m0[j]
       /\ \A j \in (Len(m0) + 1)..(Len(m0) + Len(z)) : m[j] = z[j - Len(m0)]
  <2>1. m0 \in Seq(Int) /\ z \in Seq(Int)
    BY <1>19, <1>16
  <2> QED
    BY <2>1, Concat
<1> HIDE DEF m
<1>21. /\ Len(summed) = 5 + Len(a) + Len(b) + Len(e) + Len(p) /\ Len(m0) = 1 + Len(summed)
       /\ Len(m) = 8 + Len(a) + Len(b) + Len(e) + Len(p) /\ Len(m) = Len(b6) + 4
  BY <1>2, <1>13, <1>14, <1>15, <1>16, <1>19, <1>20
<1>22. \A j \in 2..(Len(m) - 2) : m[j] = summed[j - 1]
  BY <1>2, <1>16, <1>19, <1>20, <1>21
<1>23. \A j \in 3..(Len(m) - 2) : m[j] = b6[j - 2]
  <2>1. \A j \in 2..(Len(m) - 3) : summed[j] = b6[j - 1]
    BY <1>2, <1>13, <1>14, <1>15, <1>21
  <2>2. TAKE j \in 3..(Len(m) - 2)
  <2>3. j - 1 \in 2..(Len(m) - 3) /\ (j - 1) - 1 = j - 2
    BY <1>2, <1>21
  <2>4. m[j] = summed[j - 1]
    BY <1>2, <1>21, <1>22
  <2> QED
    BY <2>1, <2>3, <2>4
<1>24. m[1] = TINYPB_START /\ m[2] = Len(m) - 2 /\ m[Len(m)] = TINYPB_END
       /\ m[Len(m) - 1] = Crc32(summed, n)
  <2>1. m[1] = m0[1] /\ m0[1] = start[1]
    BY <1>2, <1>16, <1>19, <1>20, <1>21
  <2>2. /\ 2 \in 2..(Len(m) - 2) /\ 2 - 1 = 1 /\ 1 \in 1..Len(w) /\ Len(b6) + 2 = Len(m) - 2
        /\ Len(m) - 1 \in (Len(m0) + 1)..(Len(m0) + Len(z)) /\ (Len(m) - 1) - Len(m0) = 1
        /\ Len(m) \in (Len(m0) + 1)..(Len(m0) + Len(z)) /\ Len(m) - Len(m0) = 2
    BY <1>2, <1>13, <1>14, <1>16, <1>21, SMTT(30)
  <2>3. m[2] = summed[2 - 1] /\ summed[1] = w[1]
    BY <1>15, <1>22, <2>2
  <2>4. m[Len(m) - 1] = z[(Len(m) - 1) - Len(m0)] /\ m[Len(m)] = z[Len(m) - Len(m0)]
    BY <1>20, <2>2
  <2> QED
    BY <1>14, <1>16, <2>1, <2>2, <2>3, <2>4
<1>25. \A j \in 1..(4 + Len(a) + Len(b)) : b6[j] = b4[j]
  <2>1. TAKE j \in 1..(4 + Len(a) + Len(b))
  <2>2. j \in 1..Len(b4) /\ j \in 1..Len(b5)
    BY <1>2, <1>13
  <2> QED
    BY <1>11, <1>12, <2>2
<1>26. \A j \in 1..(2 + Len(a)) : b4[j] = b2[j]
  <2>1. TAKE j \in 1..(2 + Len(a))
  <2>2. j \in 1..Len(b2) /\ j \in 1..Len(b3)
    BY <1>2, <1>13
  <2> QED
    BY <1>9, <1>10, <2>2
<1>27. m[3] = Len(a) /\ \A j \in 1..Len(a) : m[3 + j] = a[j]
  <2>1. ASSUME NEW i \in 1..(1 + Len(a)) PROVE m[2 + i] = b1[i]
    <3>1. /\ 2 + i \in 3..(Len(m) - 2) /\ (2 + i) - 2 = i /\ i \in 1..(4 + Len(a) + Len(b))
          /\ i \in 1..(2 + Len(a)) /\ i \in 1..Len(b1)
      BY <1>2, <1>13, <1>21
    <3> QED
      BY <1>8, <1>23, <1>25, <1>26, <3>1
  <2>2. m[3] = la[1]
    <3>1. m[2 + 1] = b1[1] /\ b1[1] = la[1] /\ 2 + 1 = 3
      BY <1>2, <1>4, <1>7, <2>1
    <3> QED
      BY <3>1
  <2>3. ASSUME NEW j \in 1..Len(a) PROVE m[3 + j] = a[j]
    <3>1. /\ 1 + j \in 1..(1 + Len(a)) /\ 1 + j \in (Len(la) + 1)..(Len(la) + Len(a))
          /\ (1 + j) - Len(la) = j /\ 2 + (1 + j) = 3 + j
      BY <1>2, <1>4
    <3>2. m[2 + (1 + j)] = b1[1 + j] /\ b1[1 + j] = a[(1 + j) - Len(la)]
      BY <1>7, <2>1, <3>1
    <3> QED
      BY <3>1, <3>2
  <2> QED
    BY <1>4, <2>2, <2>3
<1>28. m[4 + Len(a)] = Len(b) /\ \A j \in 1..Len(b) : m[4 + Len(a) + j] = b[j]
  <2>1. m[4 + Len(a)] = lb[1]
    <3>1. /\ 4 + Len(a) \in 3..(Len(m) - 2) /\ (4 + Len(a)) - 2 = 2 + Len(a)
          /\ 2 + Len(a) \in 1..(4 + Len(a) + Len(b)) /\ 2 + Len(a) \in 1..(2 + Len(a))
          /\ 2 + Len(a) \in (Len(b1) + 1)..(Len(b1) + Len(lb)) /\ (2 + Len(a)) - Len(b1) = 1
      BY <1>2, <1>4, <1>13, <1>21, SMTT(30)
    <3> QED
      BY <1>8, <1>23, <1>25, <1>26, <3>1
  <2>2. ASSUME NEW j \in 1..Len(b) PROVE m[4 + Len(a) + j] = b[j]
    <3> DEFINE i == 2 + Len(a) + j
               k == 4 + Len(a) + j
    <3>1. /\ k \in 3..(Len(m) - 2) /\ k - 2 = i
          /\ i \in 1..(4 + Len(a) + Len(b)) /\ i \in 1..Len(b3)
          /\ i \in (Len(b2) + 1)..(Len(b2) + Len(b)) /\ i - Len(b2) = j
      BY <1>2, <1>13, <1>21
    <3> HIDE DEF i, k
    <3>2. m[k] = b3[i] /\ b3[i] = b[j]
      BY <1>9, <1>10, <1>23, <1>25, <3>1
    <3> QED
      BY <3>2 DEF k
  <2> QED
    BY <1>4, <2>1, <2>2
<1>29. m[4 + Len(a) + Len(b) + 1] = c /\ m[4 + Len(a) + Len(b) + 2] = Len(e)
  <2>1. ASSUME NEW j \in 1..2 PROVE m[4 + Len(a) + Len(b) + j] = ce[j]
    <3> DEFINE i == 2 + Len(a) + Len(b) + j
    <3>1. /\ 4 + Len(a) + Len(b) + j \in 3..(Len(m) - 2) /\ (4 + Len(a) + Len(b) + j) - 2 = i
          /\ i \in 1..(4 + Len(a) + Len(b))
          /\ i \in (Len(b3) + 1)..(Len(b3) + Len(ce)) /\ i - Len(b3) = j
      BY <1>2, <1>4, <1>13, <1>21, SMTT(30)
    <3> HIDE DEF i
    <3> QED
      BY <1>10, <1>23, <1>25, <3>1, ZenonT(40)
  <2> QED
    BY <1>4, <2>1
<1>30. \A j \in 1..Len(e) : m[4 + Len(a) + Len(b) + 2 + j] = e[j]
  <2>1. TAKE j \in 1..Len(e)
  <2> DEFINE i == 4 + Len(a) + Len(b) + j
             k == 4 + Len(a) + Len(b) + 2 + j
  <2>2. /\ k \in 3..(Len(m) - 2) /\ k - 2 = i
        /\ i \in 1..Len(b5) /\ i \in (Len(b4) + 1)..(Len(b4) + Len(e)) /\ i - Len(b4) = j
    BY <1>2, <1>13, <1>21
  <2> HIDE DEF i, k
  <2>3. m[k] = e[j]
    BY <1>11, <1>12, <1>23, <2>2
  <2> QED
    BY <2>3 DEF k
<1>31. \A j \in 1..Len(p) : m[4 + Len(a) + Len(b) + 2 + Len(e) + j] = p[j]
  <2>1. TAKE j \in 1..Len(p)
  <2> DEFINE i == 4 + Len(a) + Len(b) + Len(e) + j
             k == 4 + Len(a) + Len(b) + 2 + Len(e) + j
  <2>2. /\ k \in 3..(Len(m) - 2) /\ k - 2 = i
        /\ i \in (Len(b5) + 1)..(Len(b5) + Len(p)) /\ i - Len(b5) = j
    BY <1>2, <1>13, <1>21
  <2> HIDE DEF i, k
  <2>3. m[k] = p[j]
    BY <1>12, <1>23, <2>2
  <2> QED
    BY <2>3 DEF k
<1>32. SubSeq(m, 2, Len(m) - 2) = summed
  <2>1. ASSUME NEW j \in 1..Len(summed) PROVE m[1 + j] = summed[j]
    <3>1. 1 + j \in 2..(Len(m) - 2) /\ (1 + j) - 1 = j
      BY <1>2, <1>21
    <3> QED
      BY <1>22, <3>1
  <2>2. 1 + Len(summed) = Len(m) - 2 /\ 1 + Len(summed) <= Len(m) /\ Len(m) \in Nat
    BY <1>2, <1>21
  <2>3. SubSeq(m, 1 + 1, 1 + Len(summed)) = summed
    BY <1>17, <1>20, <2>1, <2>2, Slice
  <2> QED
    BY <2>2, <2>3
<1> QED
  BY <1>3, <1>20, <1>21, <1>24, <1>27, <1>28, <1>29, <1>30, <1>31, <1>32 DEF a, b, c, e, p

(***************************************************************************)
(* decode gives back what encode was given, for every struct and every     *)
(* state of the table, as long as both sides sum with the same one         *)
(* (tinypb_codec.cc:45-220).                                               *)
(***************************************************************************)
THEOREM CodecRoundTrip ==
  ASSUME NEW d \in TinyPbStruct, NEW n \in Int
  PROVE  Decodes(Encode(d, n), n) /\ Fields(Encode(d, n)) = d
<1> DEFINE a == d.msg_req
           b == d.service_full_name
           e == d.err_info
           p == d.pb_data
           m == Encode(d, n)
           k == 4 + Len(a) + Len(b)
<1>1. a \in Seq(Int) /\ b \in Seq(Int) /\ d.err_code \in Int /\ e \in Seq(Int) /\ p \in Seq(Int)
  BY DEF TinyPbStruct
<1>2. Len(a) \in Nat /\ Len(b) \in Nat /\ Len(e) \in Nat /\ Len(p) \in Nat
  BY <1>1, LenProperties
<1>4. /\ m \in Seq(Int) /\ Len(m) = 8 + Len(a) + Len(b) + Len(e) + Len(p)
      /\ m[1] = TINYPB_START /\ m[2] = Len(m) - 2
      /\ m[3] = Len(a) /\ \A j \in 1..Len(a) : m[3 + j] = a[j]
      /\ m[4 + Len(a)] = Len(b) /\ \A j \in 1..Len(b) : m[4 + Len(a) + j] = b[j]
      /\ m[k + 1] = d.err_code /\ m[k + 2] = Len(e)
      /\ \A j \in 1..Len(e) : m[k + 2 + j] = e[j]
      /\ \A j \in 1..Len(p) : m[k + 2 + Len(e) + j] = p[j]
      /\ m[Len(m)] = TINYPB_END
      /\ m[Len(m) - 1] = Crc32(SubSeq(m, 2, Len(m) - 2), n)
  BY Layout
<1> HIDE DEF a, b, e, p, m
<1>5. Decodes(m, n)
  BY <1>2, <1>4 DEF Decodes, Framed, Intact, TINYPB_FIXED_HEADER_SIZE
<1>6. SubSeq(m, 3 + 1, 3 + Len(a)) = a
  BY <1>2, <1>1, <1>4, Slice
<1> DEFINE i7 == 4 + Len(a)
           i8 == k + 2
           i9 == k + 2 + Len(e)
<1>7. SubSeq(m, i7 + 1, i7 + Len(b)) = b
  <2>1. \A j \in 1..Len(b) : m[i7 + j] = b[j]
    BY <1>4
  <2>2. i7 \in Nat /\ i7 + Len(b) <= Len(m)
    <3>1. Len(m) = 8 + Len(a) + Len(b) + Len(e) + Len(p)
      BY <1>4
    <3> QED
      BY <1>2, <3>1
  <2> HIDE DEF i7
  <2> QED
    BY <1>1, <1>4, <2>1, <2>2, Slice
<1>8. SubSeq(m, i8 + 1, i8 + Len(e)) = e
  <2>1. \A j \in 1..Len(e) : m[i8 + j] = e[j]
    BY <1>4
  <2>2. i8 \in Nat /\ i8 + Len(e) <= Len(m)
    <3>1. Len(m) = 8 + Len(a) + Len(b) + Len(e) + Len(p)
      BY <1>4
    <3> QED
      BY <1>2, <3>1
  <2> HIDE DEF i8
  <2> QED
    BY <1>1, <1>4, <2>1, <2>2, Slice
<1>9. SubSeq(m, i9 + 1, i9 + Len(p)) = p
  <2>1. \A j \in 1..Len(p) : m[i9 + j] = p[j]
    BY <1>4
  <2>2. i9 \in Nat /\ i9 + Len(p) <= Len(m)
    <3>1. Len(m) = 8 + Len(a) + Len(b) + Len(e) + Len(p)
      BY <1>4
    <3> QED
      BY <1>2, <3>1
  <2> HIDE DEF i9
  <2> QED
    BY <1>1, <1>4, <2>1, <2>2, Slice
<1>10. Fields(m) = [msg_req |-> a, service_full_name |-> b, err_code |-> d.err_code,
                    err_info |-> e, pb_data |-> p]
  <2> DEFINE name == 3 + 1 + m[3]
             code == name + 1 + m[name]
             info == code + 1
             pb   == info + 1 + m[info]
  <2>1. Fields(m) = [msg_req |-> SubSeq(m, 3 + 1, name - 1),
                     service_full_name |-> SubSeq(m, name + 1, code - 1), err_code |-> m[code],
                     err_info |-> SubSeq(m, info + 1, pb - 1), pb_data |-> SubSeq(m, pb, Len(m) - 2)]
    BY DEF Fields
  <2>2. name = i7 /\ name - 1 = 3 + Len(a)
    BY <1>2, <1>4
  <2> HIDE DEF name
  <2>3. code = k + 1 /\ code - 1 = i7 + Len(b)
    <3>1. m[name] = Len(b)
      BY <1>4, <2>2
    <3> QED
      BY <1>2, <2>2, <3>1
  <2> HIDE DEF code
  <2>4. info = i8
    BY <1>2, <2>3
  <2> HIDE DEF info
  <2>5. pb = i9 + 1 /\ pb - 1 = i8 + Len(e) /\ Len(m) - 2 = i9 + Len(p)
    <3>1. m[info] = Len(e)
      BY <1>4, <2>4
    <3>2. Len(m) = 8 + Len(a) + Len(b) + Len(e) + Len(p)
      BY <1>4
    <3> QED
      BY <1>2, <2>4, <3>1, <3>2
  <2> HIDE DEF pb, i7, i8, i9, k
  <2> QED
    BY <1>4, <1>6, <1>7, <1>8, <1>9, <2>1, <2>2, <2>3, <2>4, <2>5
<1>11. [msg_req |-> a, service_full_name |-> b, err_code |-> d.err_code,
        err_info |-> e, pb_data |-> p] = d
  BY DEF TinyPbStruct, a, b, e, p
<1> QED
  BY <1>5, <1>10, <1>11 DEF m

(***************************************************************************)
(* decode refuses a message that was damaged in its data or its end mark   *)
(* or has lost its end (tinypb_codec.cc:97-220).                           *)
(***************************************************************************)
LEMMA DamageDetected ==
  ASSUME NEW d \in TinyPbStruct, NEW x \in Damaged(Encode(d, TableSize))
  PROVE  ~Decodes(x, TableSize)
<1> DEFINE m == Encode(d, TableSize)
           L == Len(m)
<1>0. TableSize \in Int
  BY DEF TableSize
<1>1. m \in Seq(Int) /\ L \in Nat /\ L >= 8 /\ m[2] = L - 2 /\ m[L] = TINYPB_END
      /\ m[L - 1] = Crc32(SubSeq(m, 2, L - 2), TableSize)
  <2>1. /\ Len(d.msg_req) \in Nat /\ Len(d.service_full_name) \in Nat
        /\ Len(d.err_info) \in Nat /\ Len(d.pb_data) \in Nat
    BY LenProperties DEF TinyPbStruct
  <2>2. /\ m \in Seq(Int) /\ m[2] = L - 2 /\ m[L] = TINYPB_END
        /\ L = 8 + Len(d.msg_req) + Len(d.service_full_name) + Len(d.err_info) + Len(d.pb_data)
        /\ m[L - 1] = Crc32(SubSeq(m, 2, L - 2), TableSize)
    BY <1>0, Layout
  <2> HIDE DEF m, L
  <2>3. L \in Nat /\ L >= 8
    <3> DEFINE a == Len(d.msg_req)
               b == Len(d.service_full_name)
               e == Len(d.err_info)
               p == Len(d.pb_data)
    <3>1. L = 8 + a + b + e + p /\ a \in Nat /\ b \in Nat /\ e \in Nat /\ p \in Nat
      BY <2>1, <2>2
    <3> HIDE DEF a, b, e, p
    <3> QED
      BY <3>1
  <2> QED
    BY <2>2, <2>3
<1>2. x \in {[m EXCEPT ![i] = @ + 1] : i \in {L - 2, L}} \cup {Front(m)}
  BY DEF Damaged
<1> HIDE DEF m
<1>3. CASE x = Front(m)
  <2>1. Len(x) = L - 1 /\ x[2] = L - 2
    BY <1>1, <1>3, SubSeqProperties, ElementOfSeq DEF Front
  <2> QED
    BY <1>1, <2>1 DEF Decodes, Framed
<1>4. CASE x = [m EXCEPT ![L] = @ + 1]
  <2>1. Len(x) = L /\ x[L] = TINYPB_END + 1
    BY <1>1, <1>4, ExceptSeq DEF TINYPB_END
  <2> QED
    BY <1>1, <2>1 DEF Decodes, Intact, TINYPB_END
<1>5. CASE x = [m EXCEPT ![L - 2] = @ + 1]
  <2> DEFINE k == L - 2
             u == SubSeq(m, 2, k)
             v == SubSeq(x, 2, k)
  <2>1. k \in 1..L /\ m[k] + 1 \in Int
    BY <1>1, ElementOfSeq
  <2>2. x = [m EXCEPT ![k] = m[k] + 1]
    BY <1>5
  <2>3. k \in Int /\ k >= 6 /\ k < L - 1 /\ L - 1 \in 1..L /\ k + 2 = L
    BY <1>1
  <2> HIDE DEF k
  <2>4. /\ x \in Seq(Int) /\ Len(x) = L
        /\ \A i \in 1..L : x[i] = IF i = k THEN m[k] + 1 ELSE m[i]
    BY <1>1, <2>1, <2>2, ExceptSeq, SMTT(30)
  <2>5. \A i \in 2..k : i \in 1..L
    BY <1>1, <2>3
  <2>6. \A i \in 2..k : m[i] \in Int /\ x[i] \in Int
    BY <1>1, <2>4, <2>5, ElementOfSeq
  <2>7. u \in Seq(Int) /\ Len(u) = k - 1 /\ \A i \in 1..(k - 1) : u[i] = m[1 + i]
    BY <2>3, <2>6, SubSeqProperties
  <2>8. v \in Seq(Int) /\ Len(v) = k - 1 /\ \A i \in 1..(k - 1) : v[i] = x[1 + i]
    BY <2>3, <2>6, SubSeqProperties
  <2> HIDE DEF u, v
  <2>9. \A i \in 1..((k - 1) - 1) : v[i] = u[i]
    <3>1. TAKE i \in 1..((k - 1) - 1)
    <3>2. i \in 1..(k - 1) /\ 1 + i \in 1..L /\ 1 + i # k
      BY <1>1, <2>3
    <3> QED
      BY <2>4, <2>7, <2>8, <3>2
  <2>10. v[k - 1] = u[k - 1] + 1
    <3>1. k - 1 \in 1..(k - 1) /\ 1 + (k - 1) = k
      BY <2>3
    <3> QED
      BY <2>1, <2>4, <2>7, <2>8, <3>1
  <2>11. Crc32(v, TableSize) # Crc32(u, TableSize)
    <3>1. /\ u \in Seq(Int) /\ v \in Seq(Int) /\ Len(u) = Len(v) /\ Len(u) > 0
          /\ \A i \in 1..(Len(u) - 1) : v[i] = u[i]
          /\ v[Len(u)] = u[Len(u)] + 1
      BY <2>3, <2>7, <2>8, <2>9, <2>10
    <3> QED
      BY ONLY <3>1, CrcTells
  <2>12. x[L - 1] = m[L - 1]
    BY <2>3, <2>4
  <2> QED
    BY <1>1, <2>4, <2>11, <2>12 DEF Decodes, Intact, u, v, k
<1> QED
  BY <1>2, <1>3, <1>4, <1>5

-----------------------------------------------------------------------------
(* The dispatcher's names *)

\* A name with dots has a last one.
LEMMA LastDotExists ==
  ASSUME NEW name \in Seq(Int), Dots(name) # {}
  PROVE  Max(Dots(name)) \in Dots(name) /\ \A i \in Dots(name) : i <= Max(Dots(name))
<1> DEFINE D == Dots(name)
           L == Len(name)
           R == {j \in 0..L : L - j \in D}
<1>1. L \in Nat /\ D \subseteq 1..L
  BY LenProperties DEF Dots
<1>2. R \subseteq Nat /\ R # {}
  <2>1. PICK i \in D : TRUE
    OBVIOUS
  <2>2. L - i \in 0..L /\ L - (L - i) = i
    BY <1>1, <2>1
  <2> QED
    BY <1>1, <2>1, <2>2
<1> HIDE DEF D, L
<1>3. PICK j \in R : \A k \in R : ~(<<k, j>> \in OpToRel(<, Nat))
  <2> HIDE DEF R
  <2> QED
    BY <1>2, NatLessThanWellFounded, WFMin
<1>4. \A k \in R : ~(k < j)
  BY <1>2, <1>3 DEF OpToRel
<1>5. L - j \in D
  OBVIOUS
<1>6. ASSUME NEW i \in D PROVE i <= L - j
  <2>1. L - i \in 0..L /\ L - (L - i) = i
    BY <1>1
  <2>2. L - i \in R
    BY <2>1
  <2>3. i \in 1..L /\ j \in 0..L /\ ~(L - i < j)
    BY <1>1, <1>4, <2>2
  <2> QED
    BY <1>1, <2>3
<1>7. \E i \in D : \A k \in D : i >= k
  BY <1>1, <1>5, <1>6
<1> HIDE DEF R
<1> QED
  BY <1>1, <1>7 DEF Max, D

\* A name is the part before one of its dots, the dot, and the part after it.
LEMMA SplitAtDot ==
  ASSUME NEW name \in Seq(Int), NEW i \in Dots(name)
  PROVE  name = Before(name, i) \o <<Dot>> \o After(name, i)
<1>1. Len(name) \in Nat /\ i \in 1..Len(name) /\ name[i] = Dot
  BY LenProperties DEF Dots
<1>2. SubSeq(name, 1, i) = SubSeq(name, 1, i - 1) \o <<name[i]>>
  BY <1>1, SubSeqRecursiveSecond
<1>3. SubSeq(name, 1, i) \o SubSeq(name, i + 1, Len(name)) = SubSeq(name, 1, Len(name))
  BY <1>1, ConcatAdjacentSubSeq
<1>4. SubSeq(name, 1, Len(name)) = name
  BY SubSeqFull
<1> QED
  BY <1>1, <1>2, <1>3, <1>4 DEF Before, After

\* A service and a method without a dot are what the name splits into at its last dot.
LEMMA SplitUnique ==
  ASSUME NEW s \in Seq(Int), NEW m \in Seq(Int), Dot \notin Range(m),
         NEW name, name = s \o <<Dot>> \o m
  PROVE  /\ name \in Seq(Int) /\ Dots(name) # {}
         /\ Before(name, Max(Dots(name))) = s /\ After(name, Max(Dots(name))) = m
<1> DEFINE dot == <<Dot>>
           sd == s \o dot
           k == Len(s) + 1
<1>1. dot \in Seq(Int) /\ Len(dot) = 1 /\ dot[1] = Dot /\ Dot \in Int
  BY ServiceAssumption
<1>2. name = sd \o m
  OBVIOUS
<1> HIDE DEF dot
<1>3. /\ sd \in Seq(Int) /\ Len(s) \in Nat /\ Len(sd) = Len(s) + Len(dot)
      /\ \A j \in 1..Len(s) : sd[j] = s[j]
      /\ \A j \in (Len(s) + 1)..(Len(s) + Len(dot)) : sd[j] = dot[j - Len(s)]
  BY <1>1, Concat, ZenonT(40)
<1> HIDE DEF sd
<1>4. /\ name \in Seq(Int) /\ Len(m) \in Nat /\ Len(name) = Len(sd) + Len(m)
      /\ \A j \in 1..Len(sd) : name[j] = sd[j]
      /\ \A j \in (Len(sd) + 1)..(Len(sd) + Len(m)) : name[j] = m[j - Len(sd)]
  <2>1. sd \in Seq(Int) /\ m \in Seq(Int)
    BY <1>3
  <2> QED
    BY ONLY <1>2, <2>1, Concat
<1>5. Len(sd) = k /\ Len(name) = k + Len(m) /\ k \in Nat /\ DOMAIN name = 1..Len(name)
      /\ DOMAIN m = 1..Len(m)
  BY <1>1, <1>3, <1>4, LenProperties
<1>6. name[k] = Dot
  <2>1. k \in 1..Len(sd) /\ k \in (Len(s) + 1)..(Len(s) + Len(dot)) /\ k - Len(s) = 1
    BY <1>1, <1>3, <1>5
  <2> QED
    BY <1>1, <1>3, <1>4, <2>1
<1>7. k \in Dots(name)
  BY <1>4, <1>5, <1>6 DEF Dots
<1>8. ASSUME NEW j \in Dots(name) PROVE j <= k
  <2>1. j \in 1..(k + Len(m)) /\ name[j] = Dot
    BY <1>5 DEF Dots
  <2>2. CASE j > k
    <3>1. j - k \in 1..Len(m) /\ j \in (Len(sd) + 1)..(Len(sd) + Len(m)) /\ j - Len(sd) = j - k
      BY <1>4, <1>5, <2>1, <2>2
    <3>2. m[j - k] = Dot
      BY <1>4, <2>1, <3>1
    <3>3. Dot \in Range(m)
      BY <1>5, <3>1, <3>2 DEF Range
    <3> QED
      BY <3>3
  <2> QED
    BY <1>5, <2>1, <2>2
<1>9. Max(Dots(name)) = k
  <2>1. Max(Dots(name)) \in Dots(name) /\ k <= Max(Dots(name))
    BY <1>4, <1>7, LastDotExists
  <2>2. Max(Dots(name)) <= k
    BY <1>8, <2>1
  <2>3. Max(Dots(name)) \in 1..Len(name)
    <3>1. Dots(name) \subseteq 1..Len(name)
      BY <1>5 DEF Dots
    <3> QED
      BY <2>1, <3>1
  <2> DEFINE x == Max(Dots(name))
  <2>4. k \in Nat /\ x \in 1..Len(name) /\ x <= k /\ k <= x
    BY <1>5, <2>1, <2>2, <2>3
  <2> HIDE DEF k, x
  <2>5. x = k
    BY <2>4
  <2> QED
    BY <2>5 DEF x
<1>10. SubSeq(name, 0 + 1, 0 + Len(s)) = s
  <2>1. \A j \in 1..Len(s) : name[0 + j] = s[j]
    <3>1. TAKE j \in 1..Len(s)
    <3>2. 0 + j = j /\ j \in 1..Len(sd)
      BY <1>3, <1>5
    <3> QED
      BY <1>3, <1>4, <3>2
  <2>2. 0 + Len(s) <= Len(name)
    BY <1>3, <1>4, <1>5
  <2> QED
    BY <1>4, <2>1, <2>2, Slice
<1>11. SubSeq(name, k + 1, k + Len(m)) = m
  <2>1. \A j \in 1..Len(m) : name[k + j] = m[j]
    <3>1. TAKE j \in 1..Len(m)
    <3>2. k + j \in (Len(sd) + 1)..(Len(sd) + Len(m)) /\ (k + j) - Len(sd) = j
      BY <1>4, <1>5
    <3> QED
      BY <1>4, <3>2
  <2>2. k + Len(m) <= Len(name)
    BY <1>4, <1>5
  <2> HIDE DEF k
  <2> QED
    BY <1>4, <1>5, <2>1, <2>2, Slice
<1>12. 0 + 1 = 1 /\ 0 + Len(s) = k - 1
  BY <1>3
<1> HIDE DEF k
<1> QED
  BY <1>4, <1>5, <1>7, <1>9, <1>10, <1>11, <1>12 DEF Before, After

\* The services and methods a name stands for are those of the split at its last dot.
LEMMA NameSplits ==
  ASSUME NEW r \in TinyPbStruct, NEW services \in SUBSET DOMAIN Methods
  PROVE  LET name == r.service_full_name
             i == Max(Dots(name))
         IN  (\E s \in services : \E m \in Methods[s] : Names(r, s, m))
               <=> /\ Dots(name) # {} /\ Before(name, i) \in services
                   /\ After(name, i) \in Methods[Before(name, i)]
<1> DEFINE name == r.service_full_name
           i == Max(Dots(name))
<1>1. name \in Seq(Int)
  BY DEF TinyPbStruct
<1>2. ASSUME NEW s \in services, NEW m \in Methods[s], Names(r, s, m)
      PROVE  Dots(name) # {} /\ Before(name, i) = s /\ After(name, i) = m
  <2>1. s \in Seq(Int) /\ m \in Seq(Int) /\ Dot \notin Range(m)
    BY ServiceAssumption
  <2>2. name = s \o <<Dot>> \o m
    BY <1>2 DEF Names
  <2> HIDE DEF name
  <2> QED
    BY <2>1, <2>2, SplitUnique
<1>3. ASSUME Dots(name) # {} PROVE Names(r, Before(name, i), After(name, i))
  <2>1. i \in Dots(name)
    BY <1>1, <1>3, LastDotExists
  <2> QED
    BY <1>1, <2>1, SplitAtDot DEF Names
<1> QED
  BY <1>2, <1>3

-----------------------------------------------------------------------------
(* The handler threads *)

\* The steps of the service are steps of its histogram, or leave it alone.
LEMMA ServiceHistogram == ServiceNext => [Next]_vars
<1> SUFFICES ASSUME ServiceNext PROVE [Next]_vars
  OBVIOUS
<1> USE DEF Next
<1>1. ASSUME NEW t \in Threads, Process(t) PROVE [Next]_vars
  BY <1>1 DEF Process, CrcCheck, CrcLock, FillTable, SetInitialized, DecodeRequest, RefuseRequest,
     RecordRequest, Dispatch, CallMethod, RecordOutcome, RecordLatency, EncodeReply, Return
<1>2. ASSUME NEW t \in Threads, NEW r \in Requests, Receive(t, r) PROVE [Next]_vars
  BY <1>2 DEF Receive
<1>3. ASSUME NEW s, RegisterService(s) PROVE [Next]_vars
  BY <1>3 DEF RegisterService
<1> QED
  BY <1>1, <1>2, <1>3 DEF ServiceNext

(***************************************************************************)
(* Why no thread sums with a half-filled table: the thread that fills it   *)
(* is alone, initialized is only set when it has finished, and no thread   *)
(* is ready before.                                                        *)
(***************************************************************************)
TableInv ==
  /\ initialized \in BOOLEAN /\ filled \in {0, TableSize \div 2, TableSize}
  /\ crc \in [Threads -> {"None", "Check", "Lock", "Fill", "Flag", "Ready"}]
  /\ at \in [Threads -> {"Idle", "Decode", "Request", "Dispatch", "Call", "Outcome",
                         "Latency", "Encode", "Replied"}]
  /\ initialized => filled = TableSize
  /\ \A t \in Threads :
       /\ crc[t] = "Ready" => initialized
       /\ crc[t] = "Fill" => ~initialized /\ filled # TableSize
       /\ crc[t] = "Flag" => filled = TableSize
       /\ at[t] \notin {"Decode", "Encode"} => crc[t] = "None"
  /\ \A t, u \in Filling : t = u
  /\ Filling = {} => initialized \/ filled = 0

LEMMA TableInit == ServiceInit => TableInv
<1> SUFFICES ASSUME ServiceInit PROVE TableInv
  OBVIOUS
<1>1. initialized \in BOOLEAN
  BY Zenon DEF ServiceInit
<1> QED
  BY <1>1 DEF ServiceInit, TableInv, Filling

LEMMA TableNext == TableInv /\ [ServiceNext]_svars => TableInv'
<1> SUFFICES ASSUME TableInv, [ServiceNext]_svars PROVE TableInv'
  OBVIOUS
<1> USE DEF TableInv, Filling
<1>1. ASSUME NEW t \in Threads, Process(t) PROVE TableInv'
  <2>1. CASE CrcCheck(t)
    BY <2>1 DEF CrcCheck, table
  <2>2. CASE CrcLock(t)
    <3>1. crc[t] = "Lock" /\ Filling = {} /\ UNCHANGED <<initialized, filled, at>>
          /\ crc' = [crc EXCEPT ![t] = IF initialized THEN "Ready" ELSE "Fill"]
      BY <2>2 DEF CrcLock, table
    <3>2. CASE initialized
      BY <3>1, <3>2
    <3>3. CASE ~initialized
      <4>1. crc' = [crc EXCEPT ![t] = "Fill"] /\ filled = 0
        BY <3>1, <3>3
      <4>2. Filling' = {t}
        BY <3>1, <4>1
      <4> QED
        BY <3>1, <3>3, <4>1, <4>2 DEF TableSize
    <3> QED
      BY <3>2, <3>3
  <2>3. CASE FillTable(t)
    BY <2>3 DEF FillTable, TableSize
  <2>4. CASE SetInitialized(t)
    BY <2>4 DEF SetInitialized
  <2>5. CASE DecodeRequest(t) \/ RefuseRequest(t)
    BY <2>5 DEF DecodeRequest, RefuseRequest, Move, table
  <2>6. CASE RecordLatency(t) \/ EncodeReply(t)
    BY <2>6 DEF RecordLatency, EncodeReply, Move, table
  <2>7. CASE RecordRequest(t) \/ Dispatch(t) \/ CallMethod(t) \/ RecordOutcome(t) \/ Return(t)
    BY <2>7 DEF RecordRequest, Dispatch, CallMethod, RecordOutcome, Return, Move, table
  <2> QED
    BY <1>1, <2>1, <2>2, <2>3, <2>4, <2>5, <2>6, <2>7 DEF Process
<1>2. ASSUME NEW t \in Threads, NEW r \in Requests, Receive(t, r) PROVE TableInv'
  BY <1>2 DEF Receive, Move, table
<1>3. CASE UNCHANGED <<table, handling>>
  BY <1>3 DEF table, handling
<1> QED
  BY <1>1, <1>2, <1>3 DEF ServiceNext, RegisterService, svars

-----------------------------------------------------------------------------
(* The replies *)

\* Some service that is registered has the method the client asked for.
Has(t, services) == \E s \in services : \E m \in Methods[s] : Names(asked[t].struct, s, m)

\* The response of a request that was decoded is the verdict on it.
Verdict(t) ==
  LET r == asked[t].struct
      a == response[t]
  IN  /\ a.msg_req = r.msg_req /\ a.service_full_name = r.service_full_name
      /\ a.err_code = 0 => a.pb_data = r.pb_data
      /\ \/ a.err_code \in Verdicts(r, Has(t, asked[t].known))
         \/ Has(t, service_map) /\ a.err_code \in Verdicts(r, TRUE)

\* What the thread works on is what its client sent.
Genuine(t) ==
  /\ request[t] \in Requests /\ asked[t].intact /\ asked[t].struct = request[t]
  /\ asked[t].known \subseteq service_map

\* It answers one who sent nothing that can be decoded.
Refused(t) ==
  /\ ~asked[t].intact /\ request[t] = NoStruct
  /\ response[t] = [NoStruct EXCEPT !.msg_req = Unknown, !.err_code = 400]

\* What a thread holds at each place of on_process.
Stage(t) ==
  /\ at[t] = "Idle" => request[t] = NoStruct
  /\ at[t] = "Decode" =>
       /\ request[t] = NoStruct
       /\ crc[t] = "None" => ~Framed(message[t])
       /\ IF asked[t].intact
          THEN /\ asked[t].struct \in Requests /\ asked[t].known \subseteq service_map
               /\ message[t] = Encode(asked[t].struct, TableSize)
          ELSE ~Decodes(message[t], TableSize)
  /\ at[t] \in {"Request", "Dispatch", "Call", "Outcome", "Latency"} => Genuine(t)
  /\ at[t] = "Call" => Dots(request[t].service_full_name) # {} /\ ServiceName(t) \in service_map
  /\ at[t] \in {"Outcome", "Latency"} => Verdict(t)
  /\ at[t] \in {"Encode", "Replied"} => Refused(t) \/ (Genuine(t) /\ Verdict(t))
  /\ at[t] = "Replied" => answer[t] = response[t]

\* Every thread, with the types of what they hold.
StageInv ==
  /\ service_map \subseteq DOMAIN Methods
  /\ request \in [Threads -> TinyPbStruct] /\ response \in [Threads -> TinyPbStruct]
  /\ DOMAIN message = Threads /\ DOMAIN asked = Threads /\ DOMAIN answer = Threads
  /\ \A t \in Threads : Stage(t)

LEMMA NoStructType == NoStruct \in TinyPbStruct
  BY EmptySeq DEF NoStruct, TinyPbStruct

LEMMA StructExcept ==
  ASSUME NEW n \in TinyPbStruct, NEW u \in Seq(Int), NEW c \in Int
  PROVE  [n EXCEPT !.msg_req = u, !.err_code = c] \in TinyPbStruct
  BY DEF TinyPbStruct

LEMMA StageInit == ServiceInit => StageInv
  BY ServiceAssumption, NoStructType DEF ServiceInit, StageInv, Stage

\* What others do, and the registration of services, leaves a thread's stage as it is.
LEMMA StageFrame ==
  ASSUME NEW u \in Threads, Stage(u), service_map \subseteq service_map',
         at'[u] = at[u], crc'[u] = "None" => crc[u] = "None", message'[u] = message[u],
         request'[u] = request[u], response'[u] = response[u], asked'[u] = asked[u],
         answer'[u] = answer[u]
  PROVE  Stage(u)'
<1>1. Has(u, asked[u].known)' <=> Has(u, asked[u].known)
  BY DEF Has, Names
<1>2. Has(u, service_map) => Has(u, service_map)'
  BY DEF Has, Names
<1>3. Verdict(u) => Verdict(u)'
  BY <1>1, <1>2 DEF Verdict, Verdicts
<1>4. Genuine(u) => Genuine(u)'
  BY DEF Genuine
<1>5. Refused(u) => Refused(u)'
  BY DEF Refused
<1>6. ServiceName(u)' = ServiceName(u)
  BY DEF ServiceName, LastDot
<1> QED
  BY <1>3, <1>4, <1>5, <1>6 DEF Stage

\* A thread changes only what is its own.
OwnOnly(t) ==
  /\ service_map' = service_map
  /\ \A u \in Threads \ {t} :
       /\ at'[u] = at[u] /\ crc'[u] = crc[u] /\ message'[u] = message[u]
       /\ request'[u] = request[u] /\ response'[u] = response[u]
       /\ asked'[u] = asked[u] /\ answer'[u] = answer[u]

LEMMA ProcessOwn ==
  ASSUME StageInv, TableInv, NEW t \in Threads,
         Process(t) \/ \E r \in Requests : Receive(t, r)
  PROVE  /\ OwnOnly(t)
         /\ DOMAIN message' = Threads /\ DOMAIN asked' = Threads /\ DOMAIN answer' = Threads
<1> USE DEF StageInv, TableInv, OwnOnly, clients, Move
<1>1. CASE CrcCheck(t) \/ CrcLock(t) \/ FillTable(t) \/ SetInitialized(t)
  BY <1>1 DEF CrcCheck, CrcLock, FillTable, SetInitialized
<1>2. CASE DecodeRequest(t) \/ RefuseRequest(t) \/ RecordRequest(t)
  BY <1>2 DEF DecodeRequest, RefuseRequest, RecordRequest
<1>3. CASE Dispatch(t) \/ CallMethod(t)
  BY <1>3 DEF Dispatch, CallMethod, Respond
<1>4. CASE RecordOutcome(t) \/ RecordLatency(t)
  BY <1>4 DEF RecordOutcome, RecordLatency
<1>5. CASE EncodeReply(t) \/ Return(t)
  BY <1>5 DEF EncodeReply, Return
<1>6. ASSUME NEW r \in Requests, Receive(t, r)
      PROVE  /\ OwnOnly(t)
             /\ DOMAIN message' = Threads /\ DOMAIN asked' = Threads /\ DOMAIN answer' = Threads
  BY <1>6 DEF Receive
<1> QED
  BY <1>1, <1>2, <1>3, <1>4, <1>5, <1>6 DEF Process

\* When the thread itself is at the right stage, all are.
LEMMA StageOwn ==
  ASSUME StageInv, TableInv, NEW t \in Threads, Process(t) \/ \E r \in Requests : Receive(t, r),
         Stage(t)', request' \in [Threads -> TinyPbStruct], response' \in [Threads -> TinyPbStruct]
  PROVE  StageInv'
<1>1. ASSUME NEW u \in Threads, u # t PROVE Stage(u)'
  BY <1>1, ProcessOwn, StageFrame DEF StageInv, OwnOnly
<1> QED
  BY <1>1, ProcessOwn DEF StageInv, OwnOnly

\* A request that came as it was sent is decoded into what was sent, another is refused.
LEMMA StageDecode ==
  ASSUME StageInv, TableInv, NEW t \in Threads, DecodeRequest(t) \/ RefuseRequest(t)
  PROVE  Stage(t)' /\ request' \in [Threads -> TinyPbStruct] /\ response' \in [Threads -> TinyPbStruct]
<1>0. TableSize \in Int /\ (crc[t] = "Ready" => filled = TableSize)
  BY DEF TableInv, TableSize
<1>1. /\ at[t] = "Decode" /\ Stage(t) /\ at \in [Threads -> {"Idle", "Decode", "Request", "Dispatch",
             "Call", "Outcome", "Latency", "Encode", "Replied"}]
      /\ request \in [Threads -> TinyPbStruct] /\ response \in [Threads -> TinyPbStruct]
  BY DEF DecodeRequest, RefuseRequest, Move, StageInv, TableInv
<1>2. asked[t].intact =>
        /\ asked[t].struct \in Requests /\ asked[t].struct \in TinyPbStruct
        /\ asked[t].known \subseteq service_map
        /\ Decodes(message[t], TableSize) /\ Fields(message[t]) = asked[t].struct
  BY <1>0, <1>1, CodecRoundTrip, ServiceAssumption DEF Stage
<1>3. ~asked[t].intact => ~Decodes(message[t], TableSize)
  BY <1>1 DEF Stage
<1>4. CASE DecodeRequest(t)
  <2>1. /\ asked[t].intact /\ request' = [request EXCEPT ![t] = asked[t].struct]
        /\ at' = [at EXCEPT ![t] = "Request"] /\ UNCHANGED <<response, service_map, asked>>
    BY <1>0, <1>2, <1>3, <1>4 DEF DecodeRequest, Move, clients
  <2> QED
    BY <1>1, <1>2, <2>1 DEF Stage, Genuine
<1>5. CASE RefuseRequest(t)
  <2> DEFINE no == [NoStruct EXCEPT !.msg_req = Unknown, !.err_code = 400]
  <2>1. ~asked[t].intact
    BY <1>0, <1>1, <1>2, <1>5 DEF RefuseRequest, Stage, Decodes
  <2>2. /\ response' = [response EXCEPT ![t] = no] /\ UNCHANGED <<request, asked>>
        /\ at' = [at EXCEPT ![t] = "Encode"]
    BY <1>5 DEF RefuseRequest, Move, clients
  <2>3. no \in TinyPbStruct
    <3>1. 400 \in Int
      OBVIOUS
    <3> QED
      BY <3>1, NoStructType, ServiceAssumption, StructExcept, ZenonT(40)
  <2> HIDE DEF no
  <2>4. request'[t] = NoStruct /\ at'[t] = "Encode" /\ response'[t] = no /\ asked'[t] = asked[t]
    BY <1>1, <2>2 DEF Stage
  <2>5. Refused(t)'
    BY <2>1, <2>4 DEF Refused, no
  <2> QED
    BY <1>1, <2>2, <2>3, <2>4, <2>5 DEF Stage
<1> QED
  BY <1>4, <1>5

\* The dispatcher finds what there is when it looks.
LEMMA StageDispatch ==
  ASSUME StageInv, TableInv, NEW t \in Threads, Dispatch(t)
  PROVE  Stage(t)' /\ request' \in [Threads -> TinyPbStruct] /\ response' \in [Threads -> TinyPbStruct]
<1> DEFINE name == request[t].service_full_name
           r == request[t]
<1>1. /\ at[t] = "Dispatch" /\ Genuine(t) /\ DOMAIN at = Threads
      /\ request \in [Threads -> TinyPbStruct] /\ response \in [Threads -> TinyPbStruct]
      /\ r \in TinyPbStruct /\ service_map \subseteq DOMAIN Methods
      /\ UNCHANGED <<service_map, request, asked>>
  BY DEF Dispatch, Move, StageInv, TableInv, Stage, clients
<1>2. Genuine(t)'
  BY <1>1 DEF Genuine
<1>3. CASE Move(t, "Dispatch", "Call")
  <2>1. Dots(name) # {} /\ ServiceName(t) \in service_map /\ response' = response /\ at'[t] = "Call"
    BY <1>1, <1>3 DEF Dispatch, Move
  <2>2. ServiceName(t)' = ServiceName(t)
    BY <1>1 DEF ServiceName, LastDot
  <2> QED
    BY <1>1, <1>2, <2>1, <2>2 DEF Stage
<1>4. CASE Move(t, "Dispatch", "Outcome")
  <2>1. PICK code \in {400, 404} :
          /\ at'[t] = "Outcome" /\ Respond(t, code, <<>>)
          /\ code = 400 => Dots(name) = {}
          /\ code = 404 => Dots(name) # {} /\ ServiceName(t) \notin service_map
    BY <1>1, <1>4 DEF Dispatch, Move
  <2> DEFINE a == [r EXCEPT !.err_code = code, !.err_info = <<>>, !.pb_data = <<>>]
  <2>2. response' = [response EXCEPT ![t] = a]
    BY <2>1 DEF Respond
  <2>3. /\ a \in TinyPbStruct /\ a.err_code = code /\ a.msg_req = r.msg_req
        /\ a.service_full_name = r.service_full_name
    <3>1. <<>> \in Seq(Int) /\ code \in Int
      BY <2>1, EmptySeq
    <3> QED
      BY <1>1, <3>1 DEF TinyPbStruct
  <2> HIDE DEF a
  <2>4. ~Has(t, asked[t].known)
    <3>1. Has(t, asked[t].known) => Dots(name) # {} /\ ServiceName(t) \in asked[t].known
      <4>1. asked[t].struct = r /\ asked[t].known \in SUBSET DOMAIN Methods
        BY <1>1 DEF Genuine
      <4>2. ServiceName(t) = Before(name, Max(Dots(name)))
        BY DEF ServiceName, LastDot
      <4>3. r \in TinyPbStruct
        BY <1>1
      <4> DEFINE K == asked[t].known
      <4> HIDE DEF K, r
      <4>4. (\E s \in K : \E m \in Methods[s] : Names(r, s, m))
              => Dots(r.service_full_name) # {} /\ Before(r.service_full_name, Max(Dots(r.service_full_name))) \in K
        BY <4>1, <4>3, NameSplits DEF K
      <4> QED
        BY <4>1, <4>2, <4>4 DEF Has, K, r
    <3> QED
      BY <1>1, <2>1, <3>1 DEF Genuine
  <2>5. code \in Verdicts(r, FALSE)
    <3>1. Dot \in Range(name) <=> Dots(name) # {}
      BY DEF Range, Dots
    <3> QED
      BY <2>1, <3>1 DEF Verdicts
  <2>6. Has(t, asked[t].known)' <=> Has(t, asked[t].known)
    BY <1>1 DEF Has, Names
  <2>7. asked'[t].struct = r /\ response'[t] = a /\ code # 0
    BY <1>1, <2>1, <2>2 DEF Genuine
  <2>8. Verdict(t)'
    BY <2>3, <2>4, <2>5, <2>6, <2>7 DEF Verdict, Verdicts
  <2> QED
    BY <1>1, <1>2, <2>1, <2>2, <2>3, <2>8 DEF Stage
<1> QED
  BY <1>3, <1>4 DEF Dispatch

\* The method answers, or there is none: the verdict is the one on the name.
LEMMA StageCall ==
  ASSUME StageInv, TableInv, NEW t \in Threads, CallMethod(t)
  PROVE  Stage(t)' /\ request' \in [Threads -> TinyPbStruct] /\ response' \in [Threads -> TinyPbStruct]
<1> DEFINE r == request[t]
           K == asked[t].known
           known == MethodName(t) \in Methods[ServiceName(t)]
<1>1. /\ at[t] = "Call" /\ Genuine(t) /\ DOMAIN at = Threads /\ at' = [at EXCEPT ![t] = "Outcome"]
      /\ request \in [Threads -> TinyPbStruct] /\ response \in [Threads -> TinyPbStruct]
      /\ r \in TinyPbStruct /\ service_map \subseteq DOMAIN Methods
      /\ Dots(r.service_full_name) # {} /\ ServiceName(t) \in service_map
      /\ UNCHANGED <<service_map, request, asked>>
  BY DEF CallMethod, Move, StageInv, TableInv, Stage, clients
<1>2. /\ r \in Requests /\ asked[t].struct = r /\ Parses(r.pb_data) \in BOOLEAN
      /\ K \in SUBSET DOMAIN Methods /\ service_map \in SUBSET DOMAIN Methods
  BY <1>1, ServiceAssumption DEF Genuine
<1>3. Genuine(t)' /\ at'[t] = "Outcome"
  BY <1>1 DEF Genuine
<1>4. PICK code \in {0, 404, 422, 500} :
        /\ code = 0 => Respond(t, code, r.pb_data)
        /\ code # 0 => Respond(t, code, <<>>)
        /\ ~known => code = 404
        /\ known /\ Parses(r.pb_data) => code \in {0, 500}
        /\ known /\ ~Parses(r.pb_data) => code = 422
  BY <1>2 DEF CallMethod
<1> DEFINE pb == IF code = 0 THEN r.pb_data ELSE <<>>
           a == [r EXCEPT !.err_code = code, !.err_info = <<>>, !.pb_data = pb]
<1>5. response' = [response EXCEPT ![t] = a]
  BY <1>4, ZenonT(40) DEF Respond
<1>6. /\ a \in TinyPbStruct /\ a.err_code = code /\ a.msg_req = r.msg_req
      /\ a.service_full_name = r.service_full_name /\ a.pb_data = pb
  <2>1. <<>> \in Seq(Int) /\ code \in Int /\ pb \in Seq(Int)
    <3>1. <<>> \in Seq(Int) /\ code \in Int
      BY <1>4, EmptySeq
    <3>2. r.pb_data \in Seq(Int)
      BY <1>1 DEF TinyPbStruct
    <3> QED
      BY <1>4, <3>1, <3>2
  <2> QED
    BY <1>1, <2>1 DEF TinyPbStruct
<1> HIDE DEF a, pb
<1>7. /\ Has(t, K) => known
      /\ Has(t, service_map) <=> known
  <2>1. /\ ServiceName(t) = Before(r.service_full_name, Max(Dots(r.service_full_name)))
        /\ MethodName(t) = After(r.service_full_name, Max(Dots(r.service_full_name)))
    BY DEF ServiceName, MethodName, LastDot
  <2>2. ASSUME NEW S \in SUBSET DOMAIN Methods PROVE Has(t, S) <=> ServiceName(t) \in S /\ known
    <3>1. (\E s \in S : \E m \in Methods[s] : Names(r, s, m))
            <=> /\ Dots(r.service_full_name) # {}
                /\ Before(r.service_full_name, Max(Dots(r.service_full_name))) \in S
                /\ After(r.service_full_name, Max(Dots(r.service_full_name)))
                     \in Methods[Before(r.service_full_name, Max(Dots(r.service_full_name)))]
      <4>1. r \in TinyPbStruct /\ S \in SUBSET DOMAIN Methods
        BY <1>1, <2>2
      <4> HIDE DEF r
      <4> QED
        BY ONLY <4>1, NameSplits
    <3> QED
      BY <1>1, <1>2, <2>1, <3>1 DEF Has
  <2> HIDE DEF known, K
  <2> QED
    BY <1>1, <1>2, <2>2
<1>8. known => code \in Verdicts(r, TRUE)
  <2>0. Dot \in Range(r.service_full_name)
    BY <1>1 DEF Range, Dots
  <2> HIDE DEF known, r
  <2>1. CASE known /\ Parses(r.pb_data)
    BY <1>4, <2>0, <2>1 DEF Verdicts
  <2>2. CASE known /\ ~Parses(r.pb_data)
    BY <1>4, <2>0, <2>2 DEF Verdicts
  <2> QED
    BY <2>1, <2>2
<1>9. ~known => code \in Verdicts(r, FALSE)
  <2>1. Dot \in Range(r.service_full_name)
    BY <1>1 DEF Range, Dots
  <2> QED
    BY <1>4, <2>1 DEF Verdicts
<1>10. asked'[t] = asked[t] /\ asked'[t].struct = r /\ response'[t] = a /\ asked'[t].known = K
  BY <1>1, <1>2, <1>5
<1>11. Has(t, asked[t].known)' <=> Has(t, K)
  BY <1>1 DEF Has, Names
<1>12. Has(t, service_map)' <=> Has(t, service_map)
  BY <1>1 DEF Has, Names
<1> HIDE DEF K, known
<1>13. \/ code \in Verdicts(r, Has(t, K))
       \/ Has(t, service_map) /\ code \in Verdicts(r, TRUE)
  <2>1. CASE known
    BY <1>7, <1>8, <2>1
  <2>2. CASE ~known
    <3>1. Has(t, K) = FALSE
      BY <1>7, <2>2 DEF Has
    <3> QED
      BY <1>9, <2>2, <3>1
  <2> QED
    BY <2>1, <2>2
<1>14. Verdict(t)'
  <2>1. Has(t, asked[t].known)' = Has(t, K)
    BY <1>11 DEF Has
  <2> QED
    BY <1>4, <1>6, <1>10, <1>12, <1>13, <2>1 DEF Verdict, Verdicts, pb
<1> HIDE DEF r
<1> QED
  BY <1>1, <1>3, <1>5, <1>6, <1>14 DEF Stage

\* The steps that only count leave what the thread holds.
LEMMA StageCount ==
  ASSUME StageInv, TableInv, NEW t \in Threads, RecordRequest(t) \/ RecordOutcome(t) \/ RecordLatency(t)
  PROVE  Stage(t)' /\ request' = request /\ response' = response
<1>1. /\ Stage(t) /\ DOMAIN at = Threads
      /\ UNCHANGED <<service_map, message, request, response, asked, answer>>
      /\ \/ at[t] = "Request" /\ at'[t] = "Dispatch"
         \/ at[t] = "Outcome" /\ at'[t] = "Latency"
         \/ at[t] = "Latency" /\ at'[t] = "Encode"
  BY DEF RecordRequest, RecordOutcome, RecordLatency, Move, StageInv, TableInv, clients
<1>2. Genuine(t) => Genuine(t)'
  BY <1>1 DEF Genuine
<1>3. /\ Has(t, asked[t].known)' <=> Has(t, asked[t].known)
      /\ Has(t, service_map)' <=> Has(t, service_map)
  BY <1>1 DEF Has, Names
<1>4. Verdict(t) => Verdict(t)'
  BY <1>1, <1>3 DEF Verdict, Verdicts
<1> QED
  BY <1>1, <1>2, <1>4 DEF Stage

\* The reply the client decodes is the response; then the thread is free.
LEMMA StageReply ==
  ASSUME StageInv, TableInv, NEW t \in Threads, EncodeReply(t) \/ Return(t)
  PROVE  Stage(t)' /\ request' \in [Threads -> TinyPbStruct] /\ response' \in [Threads -> TinyPbStruct]
<1>1. CASE EncodeReply(t)
  <2>1. /\ Stage(t) /\ DOMAIN at = Threads /\ DOMAIN answer = Threads
        /\ UNCHANGED <<service_map, message, request, response, asked>>
        /\ at[t] = "Encode" /\ at'[t] = "Replied" /\ crc[t] = "Ready"
        /\ request \in [Threads -> TinyPbStruct] /\ response \in [Threads -> TinyPbStruct]
    BY <1>1 DEF EncodeReply, Move, StageInv, TableInv
  <2>2. filled = TableSize /\ filled \in Int
    BY <2>1 DEF TableInv, TableSize
  <2>3. Decodes(Encode(response[t], filled), TableSize) /\ Fields(Encode(response[t], filled)) = response[t]
    <3>1. response[t] \in TinyPbStruct
      BY <2>1
    <3>2. Decodes(Encode(response[t], filled), filled) /\ Fields(Encode(response[t], filled)) = response[t]
      BY <2>2, <3>1, CodecRoundTrip
    <3> QED
      BY <2>2, <3>2
  <2>4. answer'[t] = response[t]
    BY <1>1, <2>1, <2>3 DEF EncodeReply
  <2>5. Genuine(t) => Genuine(t)'
    BY <2>1 DEF Genuine
  <2>6. /\ Has(t, asked[t].known)' <=> Has(t, asked[t].known)
        /\ Has(t, service_map)' <=> Has(t, service_map)
    BY <2>1 DEF Has, Names
  <2>7. Verdict(t) => Verdict(t)'
    BY <2>1, <2>6 DEF Verdict, Verdicts
  <2>8. Refused(t) => Refused(t)'
    BY <2>1 DEF Refused
  <2> QED
    BY <2>1, <2>4, <2>5, <2>7, <2>8 DEF Stage
<1>2. CASE Return(t)
  <2>1. /\ at'[t] = "Idle" /\ request'[t] = NoStruct
        /\ request' = [request EXCEPT ![t] = NoStruct] /\ response' = [response EXCEPT ![t] = NoStruct]
        /\ request \in [Threads -> TinyPbStruct] /\ response \in [Threads -> TinyPbStruct]
    BY <1>2 DEF Return, Move, StageInv, TableInv
  <2> QED
    BY <2>1, NoStructType DEF Stage
<1> QED
  BY <1>1, <1>2

\* A request comes as it was sent or damaged, and only the one can be decoded.
LEMMA StageReceive ==
  ASSUME StageInv, TableInv, NEW t \in Threads, NEW r \in Requests, Receive(t, r)
  PROVE  Stage(t)' /\ request' = request /\ response' = response
<1> DEFINE m == Encode(r, TableSize)
<1>1. /\ at[t] = "Idle" /\ at'[t] = "Decode" /\ Stage(t) /\ UNCHANGED <<request, response, service_map>>
      /\ DOMAIN message = Threads /\ DOMAIN asked = Threads /\ DOMAIN crc = Threads
  BY DEF Receive, Move, StageInv, TableInv
<1>2. r \in TinyPbStruct
  BY ServiceAssumption
<1>3. PICK x \in {m} \cup Damaged(m) :
        /\ message' = [message EXCEPT ![t] = x]
        /\ crc' = [crc EXCEPT ![t] = IF Framed(x) THEN "Check" ELSE "None"]
        /\ asked' = [asked EXCEPT ![t] = IF x = m
             THEN [struct |-> r, intact |-> TRUE, known |-> service_map]
             ELSE Nobody]
  BY DEF Receive
<1> HIDE DEF m
<1>4. message'[t] = x /\ (crc'[t] = "None" => ~Framed(x))
  BY <1>1, <1>3
<1>5. x # m => ~Decodes(x, TableSize)
  BY <1>2, <1>3, DamageDetected DEF m
<1>6. CASE x = m
  <2>1. asked'[t].intact /\ asked'[t].struct = r /\ asked'[t].known = service_map
    BY <1>1, <1>3, <1>6
  <2> QED
    BY <1>1, <1>4, <1>6, <2>1 DEF Stage, m
<1>7. CASE x # m
  <2>1. ~asked'[t].intact
    BY <1>1, <1>3, <1>7 DEF Nobody
  <2> QED
    BY <1>1, <1>4, <1>5, <1>7, <2>1 DEF Stage
<1> QED
  BY <1>6, <1>7

LEMMA StageNext == StageInv /\ TableInv /\ [ServiceNext]_svars => StageInv'
<1> SUFFICES ASSUME StageInv, TableInv, [ServiceNext]_svars PROVE StageInv'
  OBVIOUS
<1>0. request \in [Threads -> TinyPbStruct] /\ response \in [Threads -> TinyPbStruct]
  BY DEF StageInv
<1>1. ASSUME NEW t \in Threads, Process(t) PROVE StageInv'
  <2> SUFFICES /\ Stage(t)' /\ request' \in [Threads -> TinyPbStruct]
               /\ response' \in [Threads -> TinyPbStruct]
    BY <1>1, StageOwn
  <2>1. CASE CrcCheck(t) \/ CrcLock(t) \/ FillTable(t) \/ SetInitialized(t)
    <3>1. /\ UNCHANGED <<service_map, at, message, request, response, asked, answer>>
          /\ crc'[t] # "None"
      BY <2>1 DEF CrcCheck, CrcLock, FillTable, SetInitialized, TableInv, clients
    <3>2. Stage(t) /\ service_map \subseteq service_map'
      BY <3>1 DEF StageInv
    <3>3. Stage(t)'
      BY <3>1, <3>2, StageFrame
    <3> QED
      BY <1>0, <3>1, <3>3
  <2>2. CASE DecodeRequest(t) \/ RefuseRequest(t)
    BY <2>2, StageDecode
  <2>3. CASE Dispatch(t)
    BY <2>3, StageDispatch
  <2>4. CASE CallMethod(t)
    BY <2>4, StageCall
  <2>5. CASE RecordRequest(t) \/ RecordOutcome(t) \/ RecordLatency(t)
    BY <1>0, <2>5, StageCount
  <2>6. CASE EncodeReply(t) \/ Return(t)
    BY <2>6, StageReply
  <2> QED
    BY <1>1, <2>1, <2>2, <2>3, <2>4, <2>5, <2>6 DEF Process
<1>2. ASSUME NEW t \in Threads, NEW r \in Requests, Receive(t, r) PROVE StageInv'
  BY <1>0, <1>2, StageReceive, StageOwn
<1>3. ASSUME UNCHANGED handling, UNCHANGED clients, service_map \subseteq service_map',
             service_map' \subseteq DOMAIN Methods
      PROVE  StageInv'
  <2>1. ASSUME NEW u \in Threads PROVE Stage(u)'
    <3>1. Stage(u)
      BY DEF StageInv
    <3> QED
      BY <1>3, <3>1, StageFrame DEF handling, clients
  <2> QED
    BY <1>3, <2>1 DEF StageInv, handling, clients
<1>4. ASSUME NEW s \in DOMAIN Methods, RegisterService(s) PROVE StageInv'
  BY <1>3, <1>4 DEF RegisterService, StageInv
<1>5. CASE UNCHANGED <<service_map, handling, clients>>
  BY <1>3, <1>5 DEF StageInv
<1> QED
  BY <1>1, <1>2, <1>4, <1>5 DEF ServiceNext, svars

-----------------------------------------------------------------------------
(* The theorems of the service *)

\* All that is needed: the histogram, the table and the threads, and the counters.
SInv ==
  /\ HInv /\ TableInv /\ StageInv
  /\ total \in Nat /\ success \in Nat /\ failure \in Nat

LEMMA SInvInit == ServiceInit => SInv
<1>1. ServiceInit => total \in Nat /\ success \in Nat /\ failure \in Nat /\ Init
  BY DEF ServiceInit
<1> QED
  BY <1>1, HInvInit, TableInit, StageInit DEF SInv

LEMMA SInvNext == SInv /\ [ServiceNext]_svars => SInv'
<1> SUFFICES ASSUME SInv, [ServiceNext]_svars PROVE SInv'
  OBVIOUS
<1>1. [Next]_vars
  BY ServiceHistogram DEF svars, vars
<1>2. HInv' /\ TableInv' /\ StageInv'
  BY <1>1, HInvStep, TableNext, StageNext DEF SInv
<1>3. ASSUME NEW t \in Threads, Process(t) PROVE (total \in Nat /\ success \in Nat /\ failure \in Nat)'
  BY <1>3 DEF SInv, Process, counters, CrcCheck, CrcLock, FillTable, SetInitialized, DecodeRequest,
     RefuseRequest, RecordRequest, Dispatch, CallMethod, RecordOutcome, RecordLatency, EncodeReply, Return
<1>4. (total \in Nat /\ success \in Nat /\ failure \in Nat)'
  BY <1>3 DEF SInv, ServiceNext, Receive, RegisterService, svars, counters
<1> QED
  BY <1>2, <1>4 DEF SInv

THEOREM ServiceInvariant == ServiceSpec => []SInv
  BY SInvInit, SInvNext, PTL DEF ServiceSpec

(***************************************************************************)
(* Whatever threads, registrations and scrapes do, the state is well       *)
(* typed, every request that is dispatched is one a client sent, and no    *)
(* checksum is computed with a half-filled table (crc32,                   *)
(* tinypb_codec.cc:30).                                                    *)
(***************************************************************************)
THEOREM NothingHalfMade == ServiceSpec => []ServiceSound
<1>1. SInv => ServiceSound
  <2> SUFFICES ASSUME SInv PROVE ServiceSound
    OBVIOUS
  <2>1. TypeOK
    BY DEF SInv, HInv
  <2>2. filled \in 0..TableSize
    BY DEF SInv, TableInv, TableSize
  <2>3. \A t \in Threads :
          at[t] \notin {"Idle", "Decode", "Encode", "Replied"} => request[t] \in Requests
    BY DEF SInv, TableInv, StageInv, Stage, Genuine
  <2>4. ServiceTypeOK
    BY <2>2, <2>3 DEF SInv, TableInv, StageInv, ServiceTypeOK
  <2>5. TableComplete
    BY DEF SInv, TableInv, TableComplete
  <2> QED
    BY <2>1, <2>4, <2>5 DEF ServiceSound
<1> QED
  BY <1>1, ServiceInvariant, PTL

\* The refusal, field by field.
LEMMA RefusalFields ==
  LET no == [NoStruct EXCEPT !.msg_req = Unknown, !.err_code = 400]
  IN  no.err_code = 400 /\ no.msg_req = Unknown
<1>1. ASSUME NEW n \in TinyPbStruct, NEW u, NEW c
      PROVE  LET x == [n EXCEPT !.msg_req = u, !.err_code = c] IN x.err_code = c /\ x.msg_req = u
  BY DEF TinyPbStruct
<1> QED
  BY <1>1, NoStructType

(***************************************************************************)
(* Every reply a client decodes is the verdict on what it sent, with its   *)
(* number and its name; a damaged request is refused and never taken for   *)
(* another (on_process, dispatch, encode and decode).                      *)
(***************************************************************************)
THEOREM EveryReplyIsRight == ServiceSpec => []RightReply
<1>1. SInv => RightReply
  <2> SUFFICES ASSUME SInv, NEW t \in Threads, at[t] = "Replied"
               PROVE  LET r == asked[t].struct
                          a == answer[t]
                      IN  IF asked[t].intact
                          THEN /\ a.msg_req = r.msg_req /\ a.service_full_name = r.service_full_name
                               /\ a.err_code \in Verdicts(r, Has(t, asked[t].known))
                                            \cup Verdicts(r, Has(t, service_map))
                               /\ a.err_code = 0 => a.pb_data = r.pb_data
                          ELSE a.err_code = 400 /\ a.msg_req = Unknown
    BY DEF RightReply, Has
  <2>1. answer[t] = response[t] /\ (Refused(t) \/ (Genuine(t) /\ Verdict(t)))
    BY DEF SInv, StageInv, Stage
  <2>2. CASE Refused(t)
    BY <2>1, <2>2, RefusalFields DEF Refused
  <2>3. CASE Genuine(t) /\ Verdict(t)
    <3>1. Has(t, service_map) => Has(t, service_map) = TRUE
      BY DEF Has
    <3> QED
      BY <2>1, <2>3, <3>1 DEF Genuine, Verdict
  <2> QED
    BY <2>1, <2>2, <2>3
<1> QED
  BY <1>1, ServiceInvariant, PTL

(***************************************************************************)
(* The latency histogram of the service keeps its extremes and its scrapes *)
(* cover what was recorded, with the records made by the handlers.         *)
(***************************************************************************)
THEOREM ServiceExtremes == ServiceSpec => [](Extremes /\ ScrapeCovers)
<1>1. SInv => Extremes /\ ScrapeCovers
  BY DEF SInv, HInv
<1> QED
  BY <1>1, ServiceInvariant, PTL

-----------------------------------------------------------------------------
(* The counters *)

Is(b) == IF b THEN 1 ELSE 0

\* When only one thread can join or leave a set, its size changes by that thread.
LEMMA OneMoves ==
  ASSUME NEW A \in SUBSET Threads, NEW B \in SUBSET Threads, NEW t \in Threads, A \ {t} = B \ {t}
  PROVE  /\ Cardinality(A) \in Nat /\ Cardinality(B) \in Nat
         /\ Cardinality(B) = (Cardinality(A) + Is(t \in B)) - Is(t \in A)
<1>1. IsFiniteSet(A) /\ IsFiniteSet(B) /\ Cardinality(A) \in Nat /\ Cardinality(B) \in Nat
  BY ServiceAssumption, FS_Subset, FS_CardinalityType
<1>2. CASE t \in A <=> t \in B
  <2>1. A = B
    BY <1>2
  <2> QED
    BY <1>1, <1>2, <2>1 DEF Is
<1>3. CASE t \notin A /\ t \in B
  <2>1. B = A \cup {t}
    BY <1>3
  <2> QED
    BY <1>1, <1>3, <2>1, FS_AddElement DEF Is
<1>4. CASE t \in A /\ t \notin B
  <2>1. B = A \ {t}
    BY <1>4
  <2> QED
    BY <1>1, <1>4, <2>1, FS_RemoveElement DEF Is
<1> QED
  BY <1>2, <1>3, <1>4

\* A thread that is about to reply, or has, with this outcome.
Ends(t, what) == at[t] \in {"Latency", "Encode", "Replied"} /\ Outcome(t) = what

LEMMA PlacesMove ==
  ASSUME NEW t \in Threads, OwnOnly(t), NEW places
  PROVE  /\ In(places) \in Nat
         /\ In(places)' = (In(places) + Is(at'[t] \in places)) - Is(at[t] \in places)
<1> DEFINE A == {u \in Threads : at[u] \in places}
           B == {u \in Threads : at'[u] \in places}
<1>1. A \ {t} = B \ {t} /\ A \in SUBSET Threads /\ B \in SUBSET Threads
  BY DEF OwnOnly
<1>2. (t \in A <=> at[t] \in places) /\ (t \in B <=> at'[t] \in places)
  OBVIOUS
<1> HIDE DEF A, B
<1>3. /\ Cardinality(A) \in Nat
      /\ Cardinality(B) = (Cardinality(A) + Is(at'[t] \in places)) - Is(at[t] \in places)
  BY <1>1, <1>2, OneMoves DEF Is
<1> QED
  BY <1>3 DEF In, A, B

LEMMA EndingMoves ==
  ASSUME NEW t \in Threads, OwnOnly(t), NEW what
  PROVE  /\ Ending(what) \in Nat
         /\ Ending(what)' = (Ending(what) + Is(Ends(t, what)')) - Is(Ends(t, what))
<1> DEFINE A == {u \in Threads : Ends(u, what)}
           B == {u \in Threads : Ends(u, what)'}
<1>1. ASSUME NEW u \in Threads, u # t PROVE Ends(u, what)' <=> Ends(u, what)
  BY <1>1 DEF OwnOnly, Ends, Outcome
<1>2. A \ {t} = B \ {t} /\ A \in SUBSET Threads /\ B \in SUBSET Threads
  <2> HIDE DEF Ends
  <2> QED BY <1>1
<1>3. (t \in A <=> Ends(t, what)) /\ (t \in B <=> Ends(t, what)')
  OBVIOUS
<1>4. Ending(what) = Cardinality(A) /\ Ending(what)' = Cardinality(B)
  BY DEF Ending, Ends
<1> HIDE DEF A, B
<1>5. /\ Cardinality(A) \in Nat
      /\ Cardinality(B) = (Cardinality(A) + Is(Ends(t, what)')) - Is(Ends(t, what))
  BY <1>2, <1>3, OneMoves DEF Is
<1> QED
  BY <1>4, <1>5

\* The outcome of a request that was decoded is what its code says.
LEMMA OutcomeOf ==
  ASSUME NEW t \in Threads
  PROVE  /\ request[t] # NoStruct => Outcome(t) = IF response[t].err_code = 0 THEN "ok" ELSE "error"
         /\ request[t] = NoStruct /\ response[t].err_code # 0 => Outcome(t) = "refused"
  BY DEF Outcome

\* The replies are counted by their outcome.
SentOK == sent \in [ok : Nat, error : Nat, refused : Nat]

LEMMA CountedNext ==
  SInv /\ SInv' /\ SentOK /\ RequestsCounted /\ [ServiceNext]_svars => SentOK' /\ RequestsCounted'
<1> SUFFICES ASSUME SInv, SInv', SentOK, RequestsCounted, [ServiceNext]_svars
             PROVE  SentOK' /\ RequestsCounted'
  OBVIOUS
<1> DEFINE open == {"Dispatch", "Call", "Outcome"}
           O  == In(open)
           L  == In(open \cup {"Latency"})
           C  == Cardinality({t \in Threads : pc[t] = "AddCount"})
           eo == Ending("ok")
           ee == Ending("error")
           er == Ending("refused")
           Sum == /\ total + (sent.refused + er) = (success + failure) + O
                  /\ total = records + L
                  /\ records = count + C
                  /\ success = sent.ok + eo
                  /\ failure = sent.error + ee + (sent.refused + er)
<1>1. (RequestsCounted <=> Sum) /\ (RequestsCounted' <=> Sum')
  BY SMT DEF RequestsCounted
<1>2. /\ total \in Nat /\ success \in Nat /\ failure \in Nat /\ records \in Nat /\ count \in Nat
      /\ sent.ok \in Nat /\ sent.error \in Nat /\ sent.refused \in Nat
      /\ total' \in Nat /\ success' \in Nat /\ failure' \in Nat
  BY DEF SInv, HInv, TypeOK, SentOK
<1>3. C \in Nat
  BY ServiceAssumption, FS_Subset, FS_CardinalityType
<1>4. ASSUME NEW t \in Threads, OwnOnly(t)
      PROVE  /\ O \in Nat /\ L \in Nat /\ eo \in Nat /\ ee \in Nat /\ er \in Nat
             /\ O'  = (O + Is(at'[t] \in open)) - Is(at[t] \in open)
             /\ L'  = (L + Is(at'[t] \in open \cup {"Latency"})) - Is(at[t] \in open \cup {"Latency"})
             /\ eo' = (eo + Is(Ends(t, "ok")')) - Is(Ends(t, "ok"))
             /\ ee' = (ee + Is(Ends(t, "error")')) - Is(Ends(t, "error"))
             /\ er' = (er + Is(Ends(t, "refused")')) - Is(Ends(t, "refused"))
  <2>1. O \in Nat /\ O' = (O + Is(at'[t] \in open)) - Is(at[t] \in open)
    <3> HIDE DEF open
    <3> QED BY <1>4, PlacesMove
  <2>2. /\ L \in Nat
        /\ L' = (L + Is(at'[t] \in open \cup {"Latency"})) - Is(at[t] \in open \cup {"Latency"})
    <3> HIDE DEF open
    <3> QED BY <1>4, PlacesMove
  <2>3. /\ eo \in Nat /\ eo' = (eo + Is(Ends(t, "ok")')) - Is(Ends(t, "ok"))
        /\ ee \in Nat /\ ee' = (ee + Is(Ends(t, "error")')) - Is(Ends(t, "error"))
        /\ er \in Nat /\ er' = (er + Is(Ends(t, "refused")')) - Is(Ends(t, "refused"))
    BY <1>4, EndingMoves
  <2> QED BY <2>1, <2>2, <2>3
<1>5. \A t \in Threads : Stage(t) /\ at[t] \in {"Idle", "Decode", "Request", "Dispatch", "Call",
                               "Outcome", "Latency", "Encode", "Replied"}
  BY DEF SInv, StageInv, TableInv
<1>6. DOMAIN at = Threads /\ DOMAIN response = Threads /\ DOMAIN request = Threads
  BY DEF SInv, StageInv, TableInv
<1>7. NoStruct \notin Requests
  BY ServiceAssumption
<1>8. ASSUME UNCHANGED vars PROVE C' = C /\ records' = records /\ count' = count
  BY <1>8 DEF vars, history, fields
<1> HIDE DEF O, L, C, eo, ee, er
<1>9. ASSUME NEW t \in Threads, Process(t) PROVE SentOK' /\ Sum'
  <2>0. OwnOnly(t)
    BY <1>9, ProcessOwn DEF SInv
  <2>1. CASE CrcCheck(t) \/ CrcLock(t) \/ FillTable(t) \/ SetInitialized(t)
    <3>1. UNCHANGED <<vars, at, request, response, counters, sent>>
      BY <2>1 DEF CrcCheck, CrcLock, FillTable, SetInitialized, clients
    <3>2. \A w : Ends(t, w)' <=> Ends(t, w)
      BY <3>1 DEF Ends, Outcome
    <3> QED
      BY <1>1, <1>2, <1>4, <1>8, <2>0, <3>1, <3>2 DEF counters, SentOK, Is
  <2>2. CASE DecodeRequest(t) \/ RecordRequest(t) \/ Dispatch(t) \/ CallMethod(t)
    <3>1. UNCHANGED <<vars, success, failure, sent>>
      BY <2>2 DEF DecodeRequest, RecordRequest, Dispatch, CallMethod, clients, counters
    <3>2. /\ at[t] \in {"Decode", "Request", "Dispatch", "Call"}
          /\ at'[t] \in {"Request", "Dispatch", "Call", "Outcome"}
          /\ total' = (total + Is(at'[t] \in open)) - Is(at[t] \in open)
      BY <1>2, <1>6, <2>2 DEF DecodeRequest, RecordRequest, Dispatch, CallMethod, Move, counters, Is
    <3>3. \A w : ~Ends(t, w)' /\ ~Ends(t, w)
      BY <3>2 DEF Ends
    <3> QED
      BY <1>1, <1>2, <1>4, <1>8, <2>0, <3>1, <3>2, <3>3 DEF SentOK, Is
  <2>3. CASE RefuseRequest(t)
    <3>1. /\ UNCHANGED <<vars, total, success, sent, request>> /\ failure' = failure + 1
          /\ at[t] = "Decode" /\ at'[t] = "Encode"
      BY <1>6, <2>3 DEF RefuseRequest, Move, clients
    <3>2. response'[t] = [NoStruct EXCEPT !.msg_req = Unknown, !.err_code = 400]
      BY <1>6, <2>3 DEF RefuseRequest
    <3>3. request'[t] = NoStruct /\ response'[t].err_code # 0
      BY <1>5, <3>1, <3>2, RefusalFields DEF Stage
    <3>4. Outcome(t)' = "refused"
      BY <3>3 DEF Outcome
    <3>5. \A w : ~Ends(t, w) /\ (Ends(t, w)' <=> w = "refused")
      BY <3>1, <3>4 DEF Ends
    <3> QED
      BY <1>1, <1>2, <1>4, <1>8, <2>0, <3>1, <3>5 DEF SentOK, Is
  <2>4. CASE RecordOutcome(t)
    <3>1. /\ UNCHANGED <<vars, total, sent, request, response>>
          /\ at[t] = "Outcome" /\ at'[t] = "Latency"
          /\ IF response[t].err_code = 0 THEN success' = success + 1 /\ failure' = failure
                                         ELSE failure' = failure + 1 /\ success' = success
      BY <1>6, <2>4 DEF RecordOutcome, Move, clients
    <3>2. request'[t] # NoStruct
      BY <1>5, <1>7, <3>1 DEF Stage, Genuine
    <3>3. Outcome(t)' = IF response[t].err_code = 0 THEN "ok" ELSE "error"
      BY <3>1, <3>2 DEF Outcome
    <3>4. \A w : ~Ends(t, w) /\ (Ends(t, w)' <=> w = IF response[t].err_code = 0 THEN "ok" ELSE "error")
      BY <3>1, <3>3 DEF Ends
    <3> QED
      BY <1>1, <1>2, <1>4, <1>8, <2>0, <3>1, <3>4 DEF SentOK, Is
  <2>5. CASE RecordLatency(t) \/ EncodeReply(t)
    <3>1. /\ UNCHANGED <<counters, sent, request, response>>
          /\ at[t] \in {"Latency", "Encode"} /\ at'[t] \in {"Encode", "Replied"}
      BY <1>6, <2>5 DEF RecordLatency, EncodeReply, Move, clients
    <3>2. \A w : Ends(t, w)' <=> Ends(t, w)
      BY <3>1 DEF Ends, Outcome
    <3>3. CASE RecordLatency(t)
      <4>1. at[t] = "Latency" /\ records' = records + 1 /\ count' = count
        BY <3>3 DEF RecordLatency, Move, Record
      <4>2. C' = C + 1
        <5>1. PICK v \in Values : Record(t, v)
          BY <3>3 DEF RecordLatency
        <5> DEFINE A == {u \in Threads : pc[u] = "AddCount"}
                   B == {u \in Threads : pc'[u] = "AddCount"}
        <5>2. A \ {t} = B \ {t} /\ A \in SUBSET Threads /\ B \in SUBSET Threads /\ t \notin A /\ t \in B
          BY <5>1 DEF Record, Goto, SInv, HInv, TypeOK
        <5> HIDE DEF A, B
        <5>3. Cardinality(A) \in Nat /\ Cardinality(B) = Cardinality(A) + 1
          BY <5>2, OneMoves DEF Is
        <5> QED
          BY <5>3 DEF A, B, C
      <4> QED
        BY <1>1, <1>2, <1>3, <1>4, <2>0, <3>1, <3>2, <4>1, <4>2 DEF counters, SentOK, Is
    <3>4. CASE EncodeReply(t)
      <4>1. UNCHANGED vars /\ at[t] = "Encode"
        BY <3>4 DEF EncodeReply, Move
      <4> QED
        BY <1>1, <1>2, <1>4, <1>8, <2>0, <3>1, <3>2, <4>1 DEF counters, SentOK, Is
    <3> QED
      BY <2>5, <3>3, <3>4
  <2>6. CASE Return(t)
    <3>1. /\ UNCHANGED <<vars, counters>> /\ at[t] = "Replied" /\ at'[t] = "Idle"
          /\ sent' = [sent EXCEPT ![Outcome(t)] = @ + 1]
      BY <1>6, <2>6 DEF Return, Move
    <3>2. Outcome(t) \in {"ok", "error", "refused"}
      <4>1. Refused(t) \/ Genuine(t)
        BY <1>5, <3>1 DEF Stage
      <4>2. Refused(t) => Outcome(t) = "refused"
        <5>1. Refused(t) => request[t] = NoStruct /\ response[t].err_code = 400
          BY RefusalFields DEF Refused
        <5> QED
          BY <5>1, OutcomeOf
      <4>3. Genuine(t) => Outcome(t) \in {"ok", "error"}
        BY <1>7, OutcomeOf DEF Genuine
      <4> QED
        BY <4>1, <4>2, <4>3
    <3>3. \A w : ~Ends(t, w)' /\ (Ends(t, w) <=> w = Outcome(t))
      BY <3>1 DEF Ends
    <3>4. /\ SentOK' /\ sent'.ok = sent.ok + Is(Outcome(t) = "ok")
          /\ sent'.error = sent.error + Is(Outcome(t) = "error")
          /\ sent'.refused = sent.refused + Is(Outcome(t) = "refused")
      <4>1. CASE Outcome(t) = "ok"
        BY <3>1, <4>1 DEF SentOK, Is
      <4>2. CASE Outcome(t) = "error"
        BY <3>1, <4>2 DEF SentOK, Is
      <4>3. CASE Outcome(t) = "refused"
        BY <3>1, <4>3 DEF SentOK, Is
      <4> QED
        BY <3>2, <4>1, <4>2, <4>3
    <3>5. O' = O /\ L' = L
      BY <1>4, <2>0, <3>1 DEF Is
    <3>6. /\ eo' = eo - Is(Outcome(t) = "ok") /\ ee' = ee - Is(Outcome(t) = "error")
          /\ er' = er - Is(Outcome(t) = "refused")
      BY <1>4, <2>0, <3>3 DEF Is
    <3>7. O \in Nat /\ L \in Nat /\ eo \in Nat /\ ee \in Nat /\ er \in Nat
      BY <1>4, <2>0
    <3>8. /\ total' = total /\ success' = success /\ failure' = failure
          /\ C' = C /\ records' = records /\ count' = count
      BY <1>8, <3>1 DEF counters
    <3>9. /\ sent'.ok + eo' = sent.ok + eo /\ sent'.error + ee' = sent.error + ee
          /\ sent'.refused + er' = sent.refused + er
          /\ sent'.ok \in Nat /\ sent'.error \in Nat /\ sent'.refused \in Nat
          /\ eo' \in Int /\ ee' \in Int /\ er' \in Int
      BY <1>2, <3>4, <3>6, <3>7 DEF Is
    <3> QED
      BY <1>1, <1>2, <3>4, <3>5, <3>7, <3>8, <3>9
  <2> QED
    BY <1>9, <2>1, <2>2, <2>3, <2>4, <2>5, <2>6 DEF Process
<1>10. ASSUME NEW t \in Threads, NEW r \in Requests, Receive(t, r) PROVE SentOK' /\ Sum'
  <2>1. OwnOnly(t)
    BY <1>10, ProcessOwn DEF SInv
  <2>2. UNCHANGED <<vars, counters, sent>> /\ at[t] = "Idle" /\ at'[t] = "Decode"
    BY <1>6, <1>10 DEF Receive, Move
  <2>3. \A w : ~Ends(t, w) /\ ~Ends(t, w)'
    BY <2>2 DEF Ends
  <2> QED
    BY <1>1, <1>2, <1>4, <1>8, <2>1, <2>2, <2>3 DEF counters, SentOK, Is
<1>11. ASSUME UNCHANGED <<handling, counters, clients>>
       PROVE  /\ SentOK' /\ UNCHANGED <<total, success, failure, sent>>
              /\ O' = O /\ L' = L /\ eo' = eo /\ ee' = ee /\ er' = er
  BY <1>11 DEF handling, counters, clients, SentOK, O, L, eo, ee, er, In, Ending, Outcome
<1>12. ASSUME NEW t \in Threads, Step(t), UNCHANGED <<handling, counters, clients>> PROVE SentOK' /\ Sum'
  <2>1. CASE AddCount(t)
    <3>1. records' = records /\ count' = count + 1
      BY <2>1 DEF AddCount, history
    <3>2. C' = C - 1
      <4> DEFINE A == {u \in Threads : pc[u] = "AddCount"}
                 B == {u \in Threads : pc'[u] = "AddCount"}
      <4>1. A \ {t} = B \ {t} /\ A \in SUBSET Threads /\ B \in SUBSET Threads /\ t \in A /\ t \notin B
        BY <2>1 DEF AddCount, Goto, SInv, HInv, TypeOK
      <4> HIDE DEF A, B
      <4>2. Cardinality(A) \in Nat /\ Cardinality(B) = Cardinality(A) - 1
        BY <4>1, OneMoves DEF Is
      <4> QED
        BY <4>2 DEF A, B, C
    <3> QED
      BY <1>1, <1>2, <1>3, <1>11, <1>12, <3>1, <3>2
  <2>2. CASE LoadMin(t) \/ CasMin(t) \/ LoadMax(t) \/ CasMax(t)
    <3>1. records' = records /\ count' = count
      BY <2>2 DEF LoadMin, CasMin, LoadMax, CasMax, history, fields
    <3>2. C' = C
      <4>1. \A u \in Threads : pc'[u] = "AddCount" <=> pc[u] = "AddCount"
        BY <2>2 DEF LoadMin, CasMin, LoadMax, CasMax, Goto, SInv, HInv, TypeOK
      <4> QED
        BY <4>1 DEF C
    <3> QED
      BY <1>1, <1>2, <1>11, <1>12, <3>1, <3>2
  <2> QED
    BY <1>12, <2>1, <2>2 DEF Step
<1>13. ASSUME Scrape, UNCHANGED <<handling, counters, clients>> PROVE SentOK' /\ Sum'
  <2>1. UNCHANGED <<fields, pc, history>>
    BY <1>13 DEF Scrape, ScrapeSum, ScrapeCount, ScrapeMin, ScrapeMax
  <2>2. C' = C /\ records' = records /\ count' = count
    BY <2>1 DEF C, fields, history
  <2> QED
    BY <1>1, <1>2, <1>11, <1>13, <2>2
<1>14. ASSUME UNCHANGED <<vars, handling, counters, clients>> PROVE SentOK' /\ Sum'
  BY <1>1, <1>2, <1>8, <1>11, <1>14
<1>15. SentOK' /\ Sum'
  BY <1>9, <1>10, <1>12, <1>13, <1>14 DEF ServiceNext, RegisterService, svars
<1> QED
  BY <1>1, <1>15

(***************************************************************************)
(* Every request is counted once, in the total, in one outcome (the one    *)
(* its reply reports) and in the latencies, however many are under way and *)
(* wherever each of them is (on_process, tinypb_rpc_server.cc).            *)
(***************************************************************************)
THEOREM EveryRequestIsCounted == ServiceSpec => []RequestsCounted
<1>1. ServiceInit => SentOK /\ RequestsCounted
  <2> SUFFICES ASSUME ServiceInit PROVE SentOK /\ RequestsCounted
    OBVIOUS
  <2>1. ASSUME NEW places, "Idle" \notin places PROVE In(places) = 0
    <3>1. {t \in Threads : at[t] \in places} = {}
      BY <2>1 DEF ServiceInit
    <3> QED
      BY <3>1, FS_EmptySet DEF In
  <2>2. ASSUME NEW what PROVE Ending(what) = 0
    <3>1. {t \in Threads : at[t] \in {"Latency", "Encode", "Replied"} /\ Outcome(t) = what} = {}
      BY DEF ServiceInit
    <3> QED
      BY <3>1, FS_EmptySet DEF Ending
  <2>3. Cardinality({t \in Threads : pc[t] = "AddCount"}) = 0
    <3>1. {t \in Threads : pc[t] = "AddCount"} = {}
      BY DEF ServiceInit, Init
    <3> QED
      BY <3>1, FS_EmptySet
  <2>4. /\ In({"Dispatch", "Call", "Outcome"}) = 0
        /\ In({"Dispatch", "Call", "Outcome"} \cup {"Latency"}) = 0
        /\ Ending("ok") = 0 /\ Ending("error") = 0 /\ Ending("refused") = 0
    BY <2>1, <2>2
  <2>5. /\ total = 0 /\ success = 0 /\ failure = 0 /\ records = 0 /\ count = 0
        /\ sent.ok = 0 /\ sent.error = 0 /\ sent.refused = 0 /\ SentOK
    BY DEF ServiceInit, Init, SentOK
  <2> QED
    BY <2>3, <2>4, <2>5 DEF RequestsCounted
<1> QED
  BY <1>1, SInvInit, SInvNext, CountedNext, PTL DEF ServiceSpec
=============================================================================
