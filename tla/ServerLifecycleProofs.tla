------------------------ MODULE ServerLifecycleProofs ------------------------
(***************************************************************************)
(* Proofs about ServerLifecycle, for any number of connections, handler    *)
(* threads and requests.                                                   *)
(***************************************************************************)
EXTENDS ServerLifecycle, SequenceTheorems, FiniteSetTheorems, WellFoundedInduction, TLAPS

Bit(b) == IF b THEN 1 ELSE 0

\* How many handler threads work on c in one of the places K, and how many
\* results of the kinds K wait for c in a queue q.
Num(p, k, c, K) == Cardinality({t \in Handlers : k[t] = c /\ p[t] \in K})
Kept(q, c, K)   == Cardinality({i \in 1..Len(q) : q[i].conn = c /\ q[i].kind \in K})

At(c, K)      == Num(pc, conn, c, K)
Waiting(c, K) == Kept(queue, c, K)

\* The places of a thread, by what it holds there.
PollResults  == {"Closed", "Written", "WriteFailed"}
WriteResults == {"Written", "WriteFailed"}
PollHands    == PollResults \cup {"Unkeep"}
Keeping      == {"KeepReplied", "KeepWritten"}
Locking      == Keeping \cup {"Unkeep"}
Twice        == {"KeepReplied", "Replied", "UnrefReplied"}
Holding      == Twice \cup PollHands \cup {"Reply", "KeepWritten", "EndSession", "Unref"}
InSession    == Keeping \cup WriteResults \cup {"Request", "Reply", "Replied", "EndSession"}
Counted      == {"Enter", "DrainOne", "DrainedOne"}
Arriving     == Counted \cup {"Accepted"}
Ending       == {"Unlisten", "DrainAll", "DrainedAll"}
Drained      == {"DrainedOne", "DrainedAll"}

AtRequest  == {"Request"}
AtClosed   == {"Closed"}
AtReply    == {"Reply"}
AtUnkeep   == {"Unkeep"}
AtAccepted == {"Accepted"}
AtEndSession   == {"EndSession"}
AtKeepReplied  == {"KeepReplied"}
AtKeepWritten  == {"KeepWritten"}
AtReplied      == {"Replied"}
AtUnref        == {"Unref"}
AtUnrefReplied == {"UnrefReplied"}

Live(c) == state[c] \notin {"None", "Freed"}

\* The request of a session that no thread has looked at yet.
Requested(c) == Waiting(c, AtRequest) + At(c, AtRequest)

\* The reference of the poller: its node, the deleted node, a result, or, when the
\* connection was closed before its request was looked at, that request.
Poll(c) == Bit(node[c] # "none") + Bit(pipe[c]) + Waiting(c, PollResults)
             + (IF state[c] = "Closing" THEN Requested(c) ELSE 0)

Linked(c) == Poll(c) + At(c, PollHands) = 1

\* The session that no thread has in its hands.
Begun(c) == (IF state[c] \in {"Receiving", "Error"} THEN Poll(c) + At(c, AtClosed) ELSE 0)
             + Bit(node[c] = "write") + Waiting(c, WriteResults) + Waiting(c, AtRequest)

Arrived(c) == Waiting(c, AtAccepted) + At(c, Arriving)

Counts(c) ==
  /\ eref[c] = Poll(c) + At(c, Holding) + At(c, Twice)
  /\ tref[c] = Bit(Live(c)) + Arrived(c) + Begun(c) + At(c, InSession)
  /\ ~Live(c) => eref[c] = 0

Single(c) ==
  /\ Poll(c) + At(c, PollHands) <= 1
  /\ Requested(c) <= 1
  /\ Arrived(c) <= 1 /\ (Arrived(c) = 1 => state[c] = "None")

Watching(c) ==
  /\ Requested(c) = 1 => state[c] \in {"Success", "Closing"}
  /\ state[c] = "Success" => Requested(c) = 1 /\ Linked(c)
  /\ reading[c] = "message" => state[c] = "Receiving" /\ node[c] = "read"
  /\ reading[c] = "asked" => node[c] # "none" \/ pipe[c]
  /\ reading[c] # "no" => unread[c] > 0
  /\ state[c] = "Receiving" /\ reading[c] # "message" => node[c] = "none" /\ ~pipe[c]
  /\ pipe[c] => state[c] \in {"Error", "Closing"} \/ victim = c

Replying(c) ==
  /\ node[c] = "write" \/ Waiting(c, WriteResults) + At(c, WriteResults) + At(c, Keeping) > 0
       => state[c] = "Idle" /\ c \notin idle
  /\ At(c, Keeping) > 0 =>
       node[c] # "write" /\ Waiting(c, WriteResults) + At(c, WriteResults) = 0 /\ Linked(c)
  /\ c \in idle => state[c] = "Idle" /\ At(c, AtReply) > 0 /\ Linked(c)
  /\ state[c] = "Idle" /\ node[c] = "read" => c \in idle \/ At(c, Keeping) > 0
  /\ At(c, AtUnkeep) > 0 => state[c] \in {"KeepAlive", "Closing"}
  /\ At(c, Locking) <= 1

\* The mutex of a target is held by the thread that is at such a place.
Locked(c) == \A t \in Handlers : tmutex[c] = t <=> conn[t] = c /\ pc[t] \in Locking

Listed(c) ==
  /\ Contains(keep_alive_list, c) => state[c] = "KeepAlive" /\ Linked(c) /\ victim # c
  /\ victim = c => state[c] = "KeepAlive" /\ Linked(c)

\* The requests that are in the server and not answered yet.
Unanswered(c) ==
  Bit(state[c] \in {"Success", "Error"} \/ (state[c] = "Idle" /\ (c \in idle \/ node[c] = "write")))

Heard(c) ==
  /\ sent[c] >= answered[c] + unread[c] + Unanswered(c)
  /\ c \notin premature => sent[c] <= answered[c] + 1
  /\ reading[c] = "asked" /\ state[c] = "Idle" => c \in premature

Conn(c) ==
  Counts(c) /\ Single(c) /\ Watching(c) /\ Replying(c) /\ Locked(c) /\ Listed(c) /\ Heard(c)

Placed ==
  /\ pc[Owner] \in OwnerPCs \ {"Gone"} /\ ~destroying
  /\ \A t \in Handlers :
       pc[t] \in HandlerPCs /\ (conn[t] = NoConn <=> pc[t] \in Ending \cup {"Ready", "ListenFailed"})
  /\ \A i \in 1..Len(queue) : queue[i].conn = NoConn <=> queue[i].kind \in {"Unlisten", "ListenFailed"}

Draining ==
  /\ \A t \in Threads : pc[t] \in Drained => smutex = t
  /\ smutex # NoThread => pc[smutex] \in (IF victim = NoConn THEN {"DrainAll"} ELSE Drained)
  /\ smutex = NoThread => victim = NoConn
  /\ IsInjective(keep_alive_list)

Pending == Bit(listener = "deleted") + Waiting(NoConn, {"Unlisten"}) + At(NoConn, Ending)
Bound   == Bit(pc[Owner] \in Ending \cup {"Up"}) + Pending

Targets  == {c \in Conns : tref[c] > 0}
Opened   == {c \in Conns : Live(c)}
Active   == {c \in Conns : state[c] \notin {"None", "Closing", "Freed"}}
Hands(K) == Cardinality({t \in Handlers : pc[t] \in K})

Service ==
  /\ Pending <= 1 /\ (Pending = 1 => pc[Owner] = "WaitFinish")
  /\ listener = "on" => pc[Owner] = "Up"
  /\ ref = Bound + Cardinality(Targets)
  /\ unbind_finish => pc[Owner] = "WaitFinish" /\ ref = 0
  /\ pc[Owner] \in {"Off", "Stopped", "Starting"} => ref = 0

Limits ==
  /\ conn_count = Cardinality(Opened) + Hands(Counted)
  /\ Cardinality(Active) + Hands({"Enter"}) <= MaxConnections

SInv == TypeOK /\ Placed /\ Draining /\ Service /\ Limits /\ \A c \in Conns : Conn(c)

-----------------------------------------------------------------------------
(***************************************************************************)
(* Counting.                                                               *)
(***************************************************************************)
\* What one element more or less does to the size of a finite set.
LEMMA Toggle ==
  ASSUME NEW S, NEW T, NEW x, IsFiniteSet(S), S \ {x} = T \ {x}
  PROVE  /\ IsFiniteSet(T) /\ Cardinality(S) \in Nat /\ Cardinality(T) \in Nat
         /\ Cardinality(T) = Cardinality(S) - Bit(x \in S) + Bit(x \in T)
<1> DEFINE R == S \ {x}
<1>1. IsFiniteSet(R) /\ Cardinality(R) \in Nat /\ x \notin R
  BY FS_Subset, FS_CardinalityType
<1>2. ASSUME NEW U, U \ {x} = R
      PROVE  IsFiniteSet(U) /\ Cardinality(U) = Cardinality(R) + Bit(x \in U)
  <2>1. CASE x \in U
    <3>1. U = R \cup {x}
      BY <1>2, <2>1
    <3>2. IsFiniteSet(R \cup {x}) /\ Cardinality(R \cup {x}) = Cardinality(R) + 1
      BY <1>1, FS_AddElement
    <3> QED
      BY <2>1, <3>1, <3>2 DEF Bit
  <2>2. CASE x \notin U
    <3>1. U = R
      BY <1>2, <2>2
    <3> QED
      BY <1>1, <2>2, <3>1 DEF Bit
  <2> QED
    BY <2>1, <2>2
<1>3. /\ IsFiniteSet(S) /\ Cardinality(S) = Cardinality(R) + Bit(x \in S)
      /\ IsFiniteSet(T) /\ Cardinality(T) = Cardinality(R) + Bit(x \in T)
  BY <1>2
<1> HIDE DEF R
<1> QED
  BY <1>1, <1>3 DEF Bit

\* Threads at a place: a number, none, one, and more places hold more threads.
LEMMA NumFacts ==
  ASSUME NEW p, NEW k, NEW c, NEW K
  PROVE  /\ Num(p, k, c, K) \in Nat
         /\ \A t \in Handlers : k[t] = c /\ p[t] \in K => Num(p, k, c, K) > 0
         /\ Num(p, k, c, K) > 0 => \E t \in Handlers : k[t] = c /\ p[t] \in K
         /\ Num(p, k, c, K) <= 1 =>
              \A t, u \in Handlers : k[t] = c /\ k[u] = c /\ p[t] \in K /\ p[u] \in K => t = u
         /\ \A L : K \subseteq L => Num(p, k, c, K) <= Num(p, k, c, L)
<1> DEFINE S(L) == {t \in Handlers : k[t] = c /\ p[t] \in L}
<1>1. \A L : IsFiniteSet(S(L)) /\ Cardinality(S(L)) \in Nat
  <2> SUFFICES ASSUME NEW L PROVE IsFiniteSet(S(L)) /\ Cardinality(S(L)) \in Nat
    OBVIOUS
  <2>1. S(L) \subseteq Handlers
    OBVIOUS
  <2> HIDE DEF S
  <2> QED
    BY <2>1, FS_Subset, FS_CardinalityType, CommAssumption
<1>2. ASSUME NEW t \in S(K) PROVE Cardinality(S(K)) > 0
  <2> HIDE DEF S
  <2> QED
    BY <1>1, FS_EmptySet
<1>3. ASSUME Cardinality(S(K)) > 0 PROVE S(K) # {}
  <2> HIDE DEF S
  <2> QED
    BY <1>3, FS_EmptySet
<1>4. ASSUME Cardinality(S(K)) <= 1, NEW t \in S(K), NEW u \in S(K) PROVE t = u
  <2> HIDE DEF S
  <2>1. Cardinality(S(K)) \in {0, 1}
    BY <1>1, <1>4
  <2>2. IsFiniteSet(S(K) \ {t}) /\ Cardinality(S(K) \ {t}) = Cardinality(S(K)) - 1 /\ Cardinality(S(K) \ {t}) \in Nat
    BY <1>1, <1>4, FS_RemoveElement, FS_CardinalityType
  <2>3. S(K) \ {t} = {}
    BY <2>1, <2>2, FS_EmptySet
  <2> QED
    BY <1>4, <2>3
<1>5. ASSUME NEW L, K \subseteq L PROVE Cardinality(S(K)) <= Cardinality(S(L))
  <2>1. S(K) \subseteq S(L)
    BY <1>5
  <2> HIDE DEF S
  <2> QED
    BY <1>1, <2>1, FS_Subset
<1> QED
  BY <1>1, <1>2, <1>3, <1>4, <1>5 DEF Num

\* One thread moves.
AllBut(t, p, k, q, l) == \A u \in Handlers : u # t => q[u] = p[u] /\ l[u] = k[u]

\* The numbers after thread t moved.
LEMMA NumMoves ==
  ASSUME NEW t \in Handlers, NEW p, NEW k, NEW q, NEW l, AllBut(t, p, k, q, l), NEW c, NEW K
  PROVE  Num(q, l, c, K) = Num(p, k, c, K) - (IF k[t] = c /\ p[t] \in K THEN 1 ELSE 0)
                              + (IF l[t] = c /\ q[t] \in K THEN 1 ELSE 0)
<1> DEFINE S == {u \in Handlers : k[u] = c /\ p[u] \in K}
           T == {u \in Handlers : l[u] = c /\ q[u] \in K}
<1>1. S \ {t} = T \ {t} /\ S \subseteq Handlers /\ (t \in S <=> k[t] = c /\ p[t] \in K) /\ (t \in T <=> l[t] = c /\ q[t] \in K)
  BY DEF AllBut
<1>2. IsFiniteSet(S)
  <2> HIDE DEF S
  <2> QED
    BY <1>1, FS_Subset, CommAssumption
<1>3. Cardinality(T) = Cardinality(S) - Bit(t \in S) + Bit(t \in T)
  <2> HIDE DEF S, T
  <2> QED
    BY <1>1, <1>2, Toggle
<1> QED
  BY <1>1, <1>3 DEF Num, Bit

\* Nobody moves from or to c.
LEMMA NumSame ==
  ASSUME NEW p, NEW k, NEW q, NEW l, NEW c, NEW K,
         \A u \in Handlers : (l[u] = c <=> k[u] = c) /\ (k[u] = c => (q[u] \in K <=> p[u] \in K))
  PROVE  Num(q, l, c, K) = Num(p, k, c, K)
<1>1. {u \in Handlers : k[u] = c /\ p[u] \in K} = {u \in Handlers : l[u] = c /\ q[u] \in K}
  OBVIOUS
<1> QED
  BY <1>1 DEF Num

-----------------------------------------------------------------------------
(***************************************************************************)
(* The queue of results, and the list of connections kept alive.           *)
(***************************************************************************)
Entry == [kind : Results, conn : Conns \cup {NoConn}]

\* Results in a queue: a number, at least one when there is one, more kinds more results.
LEMMA KeptFacts ==
  ASSUME NEW q \in Seq(Entry), NEW c, NEW K
  PROVE  /\ Kept(q, c, K) \in Nat
         /\ \A i \in 1..Len(q) : q[i].conn = c /\ q[i].kind \in K => Kept(q, c, K) > 0
         /\ \A L : K \subseteq L => Kept(q, c, K) <= Kept(q, c, L)
<1> DEFINE S(L) == {i \in 1..Len(q) : q[i].conn = c /\ q[i].kind \in L}
<1>1. \A L : IsFiniteSet(S(L)) /\ Cardinality(S(L)) \in Nat
  <2> SUFFICES ASSUME NEW L PROVE IsFiniteSet(S(L)) /\ Cardinality(S(L)) \in Nat
    OBVIOUS
  <2>1. S(L) \subseteq 1..Len(q) /\ IsFiniteSet(1..Len(q))
    BY FS_Interval
  <2> HIDE DEF S
  <2> QED
    BY <2>1, FS_Subset, FS_CardinalityType
<1>2. ASSUME NEW i \in S(K) PROVE Cardinality(S(K)) > 0
  <2> HIDE DEF S
  <2> QED
    BY <1>1, FS_EmptySet
<1>3. ASSUME NEW L, K \subseteq L PROVE Cardinality(S(K)) <= Cardinality(S(L))
  <2>1. S(K) \subseteq S(L)
    BY <1>3
  <2> HIDE DEF S
  <2> QED
    BY <1>1, <2>1, FS_Subset
<1> QED
  BY <1>1, <1>2, <1>3 DEF Kept

\* msgqueue_put adds one result.
LEMMA KeptPut ==
  ASSUME NEW q \in Seq(Entry), NEW e \in Entry, NEW c, NEW K
  PROVE  Kept(Append(q, e), c, K) = Kept(q, c, K) + (IF e.conn = c /\ e.kind \in K THEN 1 ELSE 0)
<1> DEFINE r == Append(q, e)
           n == Len(q)
           S == {i \in 1..Len(q) : q[i].conn = c /\ q[i].kind \in K}
           T == {i \in 1..Len(r) : r[i].conn = c /\ r[i].kind \in K}
<1>1. n \in Nat /\ Len(r) = n + 1 /\ r[n + 1] = e /\ \A i \in 1..n : r[i] = q[i]
  BY AppendProperties
<1> HIDE DEF r
<1>2. \A i : i \in 1..(n + 1) /\ i # n + 1 <=> i \in 1..n
  BY <1>1
<1>3. n + 1 \notin S /\ (n + 1 \in T <=> e.conn = c /\ e.kind \in K) /\ S \ {n + 1} = T \ {n + 1}
  <2>1. n + 1 \in 1..(n + 1) /\ n + 1 \notin 1..n
    BY <1>1
  <2> HIDE DEF n
  <2>2. S = {i \in 1..n : q[i].conn = c /\ q[i].kind \in K}
    BY DEF n
  <2>3. T = {i \in 1..(n + 1) : r[i].conn = c /\ r[i].kind \in K}
    BY <1>1
  <2> HIDE DEF S, T
  <2> QED
    BY <1>1, <1>2, <2>1, <2>2, <2>3
<1>4. IsFiniteSet(S)
  <2>1. S \subseteq 1..Len(q) /\ IsFiniteSet(1..Len(q))
    BY FS_Interval
  <2> HIDE DEF S
  <2> QED
    BY <2>1, FS_Subset
<1>5. Cardinality(T) = Cardinality(S) - Bit(n + 1 \in S) + Bit(n + 1 \in T) /\ Cardinality(S) \in Nat
  <2> HIDE DEF S, T
  <2> QED
    BY <1>3, <1>4, Toggle
<1>6. Kept(q, c, K) = Cardinality(S) /\ Kept(r, c, K) = Cardinality(T)
  BY DEF Kept
<1> HIDE DEF S, T
<1> QED
  BY <1>3, <1>5, <1>6 DEF Bit, r

\* msgqueue_get takes the first one.
LEMMA KeptGet ==
  ASSUME NEW q \in Seq(Entry), q # <<>>, NEW c, NEW K
  PROVE  Kept(Tail(q), c, K) = Kept(q, c, K) - (IF Head(q).conn = c /\ Head(q).kind \in K THEN 1 ELSE 0)
<1> DEFINE r == Tail(q)
           n == Len(q)
           S == {i \in 1..n : q[i].conn = c /\ q[i].kind \in K}
           T == {i \in 1..Len(r) : r[i].conn = c /\ r[i].kind \in K}
           f == [i \in T |-> i + 1]
<1>1. n \in Nat \ {0} /\ Len(r) = n - 1 /\ (\A i \in 1..(n - 1) : r[i] = q[i + 1]) /\ Head(q) = q[1]
  BY HeadTailProperties, EmptySeq
<1> HIDE DEF r, n
<1>2. /\ \A i \in 1..(n - 1) : i + 1 \in 1..n /\ i + 1 # 1
      /\ \A j \in 1..n : j # 1 => j - 1 \in 1..(n - 1) /\ (j - 1) + 1 = j
  BY <1>1
<1>3. T = {i \in 1..(n - 1) : q[i + 1].conn = c /\ q[i + 1].kind \in K}
  BY <1>1
<1>4. IsFiniteSet(S) /\ IsFiniteSet(T)
  <2>1. S \subseteq 1..n /\ T \subseteq 1..(n - 1) /\ n \in Int /\ n - 1 \in Int
    BY <1>1, <1>3
  <2> HIDE DEF S, T
  <2> QED
    <3>1. IsFiniteSet(1..n) /\ IsFiniteSet(1..(n - 1))
      BY <2>1, FS_Interval
    <3> QED
      BY <2>1, <3>1, FS_Subset
<1>5. f \in Bijection(T, S \ {1})
  <2>1. \A i \in T : f[i] = i + 1 /\ i + 1 \in S \ {1} /\ i \in Int
    BY <1>2, <1>3
  <2>2. \A j \in S \ {1} : j - 1 \in T /\ (j - 1) + 1 = j
    BY <1>2, <1>3
  <2>3. f \in [T -> S \ {1}]
    BY <2>1
  <2>4. ASSUME NEW i \in T, NEW j \in T, f[i] = f[j] PROVE i = j
    BY <2>1, <2>4
  <2>5. \A j \in S \ {1} : \E i \in T : f[i] = j
    BY <2>1, <2>2
  <2>6. DOMAIN f = T
    OBVIOUS
  <2> HIDE DEF f, S, T
  <2> QED
    BY <2>3, <2>4, <2>5, <2>6 DEF Bijection, Injection, Surjection, IsInjective
<1>6. Cardinality(S \ {1}) = Cardinality(T)
  <2> HIDE DEF f, S, T
  <2> QED
    BY <1>4, <1>5, FS_Bijection DEF ExistsBijection
<1>7. Cardinality(S \ {1}) = Cardinality(S) - Bit(1 \in S) + Bit(1 \in S \ {1}) /\ Cardinality(S) \in Nat
  <2>1. S \ {1} = (S \ {1}) \ {1}
    OBVIOUS
  <2> HIDE DEF S
  <2> QED
    BY <1>4, <2>1, Toggle
<1>8. 1 \in S <=> Head(q).conn = c /\ Head(q).kind \in K
  BY <1>1
<1>9. Kept(q, c, K) = Cardinality(S) /\ Kept(r, c, K) = Cardinality(T)
  BY DEF Kept, n
<1> HIDE DEF S, T
<1> QED
  BY <1>6, <1>7, <1>8, <1>9 DEF Bit, r

\* A member of a set of numbers that is least in it.
LEMMA LeastIn ==
  ASSUME NEW S \in SUBSET Nat, S # {}
  PROVE  Min(S) \in S /\ \A y \in S : Min(S) <= y
<1>1. PICK x \in S : \A y \in S : ~(<<y, x>> \in OpToRel(<, Nat))
  BY NatLessThanWellFounded, WFMin
<1>2. ASSUME NEW y \in S PROVE x <= y
  <2>1. x \in Nat /\ y \in Nat
    OBVIOUS
  <2>2. ASSUME y < x PROVE FALSE
    BY <1>1, <2>1, <2>2 DEF OpToRel
  <2> QED
    BY <2>1, <2>2
<1> QED
  BY <1>2 DEF Min

\* list_del of a connection.
LEMMA Unlinked ==
  ASSUME NEW l \in Seq(Conns), IsInjective(l), NEW c
  PROVE  /\ RemoveFirst(l, c) \in Seq(Conns) /\ IsInjective(RemoveFirst(l, c))
         /\ \A d : Contains(RemoveFirst(l, c), d) <=> d # c /\ Contains(l, d)
<1> DEFINE I == {i \in 1..Len(l) : l[i] = c}
<1>1. CASE \E i \in 1..Len(l) : l[i] = c
  <2>1. Min(I) \in I
    <3>1. I \in SUBSET Nat /\ I # {}
      BY <1>1
    <3> HIDE DEF I
    <3> QED
      BY <3>1, LeastIn
  <2>2. PICK m \in 1..Len(l) : l[m] = c /\ m = Min(I)
    BY <2>1
  <2>3. RemoveFirst(l, c) = SubSeq(l, 1, m - 1) \o SubSeq(l, m + 1, Len(l))
    BY <1>1, <2>2 DEF RemoveFirst, SelectInSeq, RemoveAt
  <2> DEFINE n == Len(l)
             a == SubSeq(l, 1, m - 1)
             b == SubSeq(l, m + 1, n)
             r == a \o b
  <2>4. n \in Nat /\ m \in 1..n
    BY LenProperties
  <2>5. /\ a \in Seq(Conns) /\ Len(a) = m - 1 /\ \A i \in 1..(m - 1) : a[i] = l[i]
        /\ b \in Seq(Conns) /\ Len(b) = n - m /\ \A i \in 1..(n - m) : b[i] = l[m + i]
    BY <2>4
  <2> HIDE DEF a, b
  <2>6. r \in Seq(Conns) /\ Len(r) = n - 1
        /\ \A i \in 1..(n - 1) : r[i] = l[IF i < m THEN i ELSE i + 1]
    <3>1. r \in Seq(Conns) /\ Len(r) = (m - 1) + (n - m)
          /\ \A i \in 1..((m - 1) + (n - m)) : r[i] = IF i <= m - 1 THEN a[i] ELSE b[i - (m - 1)]
      <4>1. r \in Seq(Conns) /\ Len(r) = Len(a) + Len(b)
            /\ \A i \in 1..(Len(a) + Len(b)) : r[i] = IF i <= Len(a) THEN a[i] ELSE b[i - Len(a)]
        BY <2>5, ConcatProperties
      <4> HIDE DEF r
      <4> QED
        BY <2>5, <4>1
    <3>2. (m - 1) + (n - m) = n - 1
      BY <2>4
    <3>3. ASSUME NEW i \in 1..(n - 1) PROVE r[i] = l[IF i < m THEN i ELSE i + 1]
      <4>1. CASE i < m
        <5>1. i <= m - 1 /\ i \in 1..(m - 1)
          BY <2>4, <4>1
        <5> QED
          BY <2>5, <3>1, <3>2, <4>1, <5>1
      <4>2. CASE ~(i < m)
        <5>1. ~(i <= m - 1) /\ i - (m - 1) \in 1..(n - m) /\ m + (i - (m - 1)) = i + 1
          BY <2>4, <4>2
        <5> QED
          BY <2>5, <3>1, <3>2, <4>2, <5>1
      <4> QED
        BY <4>1, <4>2
    <3> QED
      BY <3>1, <3>2, <3>3
  <2> HIDE DEF r
  <2>7. \A i, j \in 1..n : l[i] = l[j] => i = j
    BY DEF IsInjective
  <2> DEFINE up(i) == IF i < m THEN i ELSE i + 1
  <2>8. \A i \in 1..(n - 1) : up(i) \in 1..n /\ up(i) # m /\ r[i] = l[up(i)] /\ r[i] # c
    <3>1. \A i \in 1..(n - 1) : up(i) \in 1..n /\ up(i) # m
      BY <2>4
    <3> QED
      BY <2>2, <2>4, <2>6, <2>7, <3>1
  <2>9. \A i, j \in 1..(n - 1) : up(i) = up(j) => i = j
    BY <2>4
  <2>10. IsInjective(r)
    <3>1. DOMAIN r = 1..(n - 1)
      BY <2>6, LenProperties
    <3>2. ASSUME NEW i \in 1..(n - 1), NEW j \in 1..(n - 1), r[i] = r[j] PROVE i = j
      <4>1. up(i) = up(j)
        <5> HIDE DEF up
        <5> QED
          BY <2>7, <2>8, <3>2
      <4> QED
        BY <2>9, <4>1
    <3> QED
      BY <3>1, <3>2 DEF IsInjective
  <2>11. ASSUME NEW d PROVE Contains(r, d) <=> d # c /\ Contains(l, d)
    <3>1. ASSUME NEW i \in 1..n, l[i] = d, d # c PROVE \E j \in 1..(n - 1) : r[j] = d
      <4>1. i # m
        BY <2>2, <3>1
      <4>2. CASE i < m
        <5>1. i \in 1..(n - 1) /\ up(i) = i
          BY <2>4, <4>2
        <5> QED
          BY <2>8, <3>1, <5>1
      <4>3. CASE i > m
        <5>1. i - 1 \in 1..(n - 1) /\ up(i - 1) = i
          BY <2>4, <4>3
        <5> QED
          BY <2>8, <3>1, <5>1
      <4> QED
        BY <2>4, <4>1, <4>2, <4>3
    <3> HIDE DEF up
    <3> QED
      BY <2>6, <2>8, <3>1 DEF Contains
  <2> QED
    BY <2>3, <2>6, <2>10, <2>11 DEF r, a, b
<1>2. CASE ~\E i \in 1..Len(l) : l[i] = c
  <2>1. RemoveFirst(l, c) = l
    BY <1>2 DEF RemoveFirst
  <2> QED
    BY <1>2, <2>1 DEF Contains
<1> QED
  BY <1>1, <1>2

\* list_add of a connection that is not in the list.
LEMMA Added ==
  ASSUME NEW l \in Seq(Conns), IsInjective(l), NEW c \in Conns, ~Contains(l, c)
  PROVE  /\ <<c>> \o l \in Seq(Conns) /\ IsInjective(<<c>> \o l)
         /\ \A d : Contains(<<c>> \o l, d) <=> d = c \/ Contains(l, d)
<1> DEFINE r == <<c>> \o l
           n == Len(l)
<1>1. n \in Nat /\ r \in Seq(Conns) /\ Len(r) = n + 1 /\ \A i \in 1..(n + 1) : r[i] = IF i = 1 THEN c ELSE l[i - 1]
  <2>1. <<c>> \in Seq(Conns) /\ Len(<<c>>) = 1 /\ <<c>>[1] = c
    OBVIOUS
  <2>2. r \in Seq(Conns) /\ Len(r) = 1 + n /\ \A i \in 1..(1 + n) : r[i] = IF i <= 1 THEN <<c>>[i] ELSE l[i - 1]
    BY <2>1, ConcatProperties
  <2>3. n \in Nat
    BY LenProperties
  <2>4. ASSUME NEW i \in 1..(n + 1) PROVE i <= 1 <=> i = 1
    BY <2>3
  <2>5. 1 + n = n + 1
    BY <2>3
  <2> HIDE DEF r, n
  <2>6. ASSUME NEW i \in 1..(n + 1) PROVE r[i] = IF i = 1 THEN c ELSE l[i - 1]
    BY <2>1, <2>2, <2>4, <2>5
  <2> QED
    BY <2>2, <2>3, <2>5, <2>6
<1> HIDE DEF r
<1>2. /\ 1 \in 1..(n + 1) /\ \A i \in 1..(n + 1) : i # 1 => i - 1 \in 1..n
      /\ \A i \in 1..n : i + 1 \in 1..(n + 1) /\ i + 1 # 1 /\ (i + 1) - 1 = i
  BY <1>1
<1>3. \A i, j \in 1..n : l[i] = l[j] => i = j
  BY DEF IsInjective
<1>4. \A i \in 1..n : l[i] # c
  BY DEF Contains
<1>5. IsInjective(r)
  <2>1. DOMAIN r = 1..(n + 1)
    BY <1>1
  <2>2. ASSUME NEW i \in 1..(n + 1), NEW j \in 1..(n + 1), r[i] = r[j] PROVE i = j
    <3>1. CASE i = 1 \/ j = 1
      BY <1>1, <1>2, <1>4, <2>2, <3>1
    <3>2. CASE i # 1 /\ j # 1
      <4>0. i - 1 \in 1..n /\ j - 1 \in 1..n /\ r[i] = l[i - 1] /\ r[j] = l[j - 1]
        BY <1>1, <1>2, <3>2
      <4>1. i - 1 = j - 1
        BY <1>3, <2>2, <4>0
      <4> QED
        BY <1>1, <4>1
    <3> QED
      BY <3>1, <3>2
  <2> QED
    BY <2>1, <2>2 DEF IsInjective
<1>6. ASSUME NEW d PROVE Contains(r, d) <=> d = c \/ Contains(l, d)
  <2>1. r[1] = c /\ \A i \in 1..n : r[i + 1] = l[i]
    BY <1>1, <1>2
  <2>2. ASSUME NEW i \in 1..(n + 1) PROVE r[i] = c \/ \E j \in 1..n : r[i] = l[j]
    BY <1>1, <1>2
  <2> QED
    <3>1. Contains(r, d) <=> \E i \in 1..(n + 1) : r[i] = d
      BY <1>1 DEF Contains
    <3>2. Contains(l, d) <=> \E i \in 1..n : l[i] = d
      BY DEF Contains
    <3> HIDE DEF n
    <3> QED
      BY <1>2, <2>1, <2>2, <3>1, <3>2
<1> QED
  BY <1>1, <1>5, <1>6 DEF r

\* drain takes the last connection of the list.
LEMMA LastTaken ==
  ASSUME NEW l \in Seq(Conns), IsInjective(l), l # <<>>
  PROVE  /\ Last(l) \in Conns /\ Contains(l, Last(l))
         /\ Front(l) \in Seq(Conns) /\ IsInjective(Front(l))
         /\ \A d : Contains(Front(l), d) <=> d # Last(l) /\ Contains(l, d)
<1> DEFINE n == Len(l)
           r == SubSeq(l, 1, n - 1)
<1>1. n \in Nat \ {0} /\ n \in 1..n /\ l[n] \in Conns
  <2>1. n \in Nat /\ n # 0
    BY EmptySeq, LenProperties
  <2> QED
    BY <2>1, ElementOfSeq
<1>2. r \in Seq(Conns) /\ Len(r) = n - 1 /\ \A i \in 1..(n - 1) : r[i] = l[i]
  <2>1. 1 \in 1..(n + 1) /\ n - 1 \in 0..n /\ n \in Nat
    BY <1>1
  <2> QED
    <3>1. 1 \in Int /\ n - 1 \in Int /\ \A i \in 1..(n - 1) : l[i] \in Conns
      BY <1>1, ElementOfSeq
    <3>2. r \in Seq(Conns) /\ Len(r) = (IF 1 <= n - 1 THEN n - 1 - 1 + 1 ELSE 0)
          /\ \A i \in 1..(n - 1 - 1 + 1) : r[i] = l[1 + i - 1]
      BY <3>1, SubSeqProperties
    <3>3. n - 1 - 1 + 1 = n - 1 /\ \A i \in 1..(n - 1) : 1 + i - 1 = i
      BY <2>1
    <3> HIDE DEF r, n
    <3> QED
      BY <1>1, <3>2, <3>3
<1> HIDE DEF r
<1>3. \A i \in 1..n : i = n \/ i \in 1..(n - 1)
  BY <1>1
<1>4. \A i \in 1..(n - 1) : i \in 1..n /\ i # n
  BY <1>1
<1>5. \A i, j \in 1..n : l[i] = l[j] => i = j
  BY DEF IsInjective
<1>6. IsInjective(r)
  <2>1. DOMAIN r = 1..(n - 1)
    BY <1>2
  <2> QED
    BY <1>2, <1>4, <1>5, <2>1 DEF IsInjective
<1>7. ASSUME NEW d PROVE Contains(r, d) <=> d # l[n] /\ Contains(l, d)
  BY <1>1, <1>2, <1>3, <1>4, <1>5 DEF Contains
<1>8. Contains(l, l[n])
  BY <1>1 DEF Contains
<1> QED
  BY <1>1, <1>2, <1>6, <1>7, <1>8 DEF Last, Front, r

-----------------------------------------------------------------------------
(***************************************************************************)
(* What a step leaves alone.                                               *)
(***************************************************************************)
LEMMA Numbers ==
  ASSUME TypeOK, NEW c, NEW K
  PROVE  /\ At(c, K) \in Nat /\ Waiting(c, K) \in Nat
         /\ \A t \in Handlers : conn[t] = c /\ pc[t] \in K => At(c, K) > 0
         /\ \A L : K \subseteq L => At(c, K) <= At(c, L) /\ Waiting(c, K) <= Waiting(c, L)
  BY NumFacts, KeptFacts DEF At, Waiting, TypeOK, Entry

\* The numbers the invariant speaks of.
Sized(c) ==
  /\ At(c, Holding) \in Nat /\ At(c, Twice) \in Nat /\ At(c, InSession) \in Nat
  /\ At(c, PollHands) \in Nat /\ At(c, AtRequest) \in Nat /\ At(c, Arriving) \in Nat
  /\ At(c, AtClosed) \in Nat /\ At(c, WriteResults) \in Nat /\ At(c, Keeping) \in Nat
  /\ At(c, AtReply) \in Nat /\ At(c, AtUnkeep) \in Nat /\ At(c, Locking) \in Nat
  /\ Waiting(c, PollResults) \in Nat /\ Waiting(c, WriteResults) \in Nat
  /\ Waiting(c, AtRequest) \in Nat /\ Waiting(c, AtAccepted) \in Nat
  /\ Waiting(c, WriteResults) <= Waiting(c, PollResults)
  /\ At(c, AtClosed) <= At(c, PollHands) /\ At(c, WriteResults) <= At(c, PollHands)
  /\ At(c, AtUnkeep) <= At(c, PollHands) /\ At(c, Keeping) <= At(c, Locking)
  /\ At(c, AtUnkeep) <= At(c, Locking) /\ At(c, AtReply) <= At(c, InSession)
  /\ At(c, AtRequest) <= At(c, InSession)

\* They are natural numbers, and grow with the set of places.
LEMMA SizedAll == ASSUME TypeOK, NEW c PROVE Sized(c)
<1>1. /\ PollResults \subseteq PollHands /\ WriteResults \subseteq PollResults /\ WriteResults \subseteq PollHands
      /\ {"Closed"} \subseteq PollHands /\ {"Unkeep"} \subseteq PollHands /\ Keeping \subseteq Locking
      /\ {"Unkeep"} \subseteq Locking /\ {"Reply"} \subseteq InSession /\ {"Request"} \subseteq InSession
  BY DEF PollResults, WriteResults, PollHands, Keeping, Locking, InSession
<1> QED
  BY <1>1, Numbers DEF Sized, AtRequest, AtClosed, AtReply, AtUnkeep, AtAccepted

\* Threads at two disjoint sets of places.
LEMMA NumSplit ==
  ASSUME NEW p, NEW k, NEW c, NEW K, NEW L, NEW M, M = K \cup L, K \cap L = {}
  PROVE  Num(p, k, c, M) = Num(p, k, c, K) + Num(p, k, c, L)
<1> DEFINE A == {t \in Handlers : k[t] = c /\ p[t] \in K}
           B == {t \in Handlers : k[t] = c /\ p[t] \in L}
           C == {t \in Handlers : k[t] = c /\ p[t] \in M}
<1>1. C = A \cup B /\ A \cap B = {} /\ A \subseteq Handlers /\ B \subseteq Handlers
  OBVIOUS
<1>2. Num(p, k, c, M) = Cardinality(C) /\ Num(p, k, c, K) = Cardinality(A) /\ Num(p, k, c, L) = Cardinality(B)
  BY DEF Num
<1> HIDE DEF A, B, C
<1>3. IsFiniteSet(A) /\ IsFiniteSet(B) /\ Cardinality(A) \in Nat /\ Cardinality(B) \in Nat
  BY <1>1, FS_Subset, FS_CardinalityType, CommAssumption
<1>4. Cardinality(A \cup B) = Cardinality(A) + Cardinality(B) - Cardinality(A \cap B)
  BY <1>3, FS_Union
<1>5. Cardinality({}) = 0
  BY FS_EmptySet
<1>6. Cardinality(A \cap B) = 0 /\ Cardinality(C) = Cardinality(A \cup B)
  BY <1>1, <1>5, ZenonT(40)
<1> QED
  BY ONLY <1>2, <1>3, <1>4, <1>6, SMT

\* A set of places has as many threads as its parts.
Parts(c) ==
  /\ At(c, AtKeepReplied) \in Nat /\ At(c, AtKeepWritten) \in Nat
  /\ At(c, AtEndSession) \in Nat
  /\ At(c, AtReplied) \in Nat /\ At(c, AtUnrefReplied) \in Nat /\ At(c, AtUnref) \in Nat
  /\ At(c, Keeping) = At(c, AtKeepReplied) + At(c, AtKeepWritten)
  /\ At(c, Locking) = At(c, Keeping) + At(c, AtUnkeep)
  /\ At(c, PollHands) = At(c, AtClosed) + At(c, WriteResults) + At(c, AtUnkeep)
  /\ At(c, Twice) = At(c, AtKeepReplied) + At(c, AtReplied) + At(c, AtUnrefReplied)
  /\ At(c, Holding) = At(c, Twice) + At(c, PollHands) + At(c, AtReply) + At(c, AtKeepWritten)
                        + At(c, AtEndSession) + At(c, AtUnref)
  /\ At(c, InSession) = At(c, Keeping) + At(c, WriteResults) + At(c, AtRequest) + At(c, AtReply)
                          + At(c, AtReplied) + At(c, AtEndSession)

\* The parts add up.
LEMMA PartsAll == ASSUME NEW c PROVE Parts(c)
<1>1. ASSUME NEW K, NEW L, NEW M, K \cap L = {}, M = K \cup L PROVE At(c, M) = At(c, K) + At(c, L)
  BY <1>1, NumSplit DEF At
<1>2. ASSUME NEW K PROVE At(c, K) \in Nat
  BY NumFacts DEF At
<1> DEFINE R1 == {"Replied", "UnrefReplied"}
           H1 == Twice \cup PollHands
           H2 == H1 \cup {"Reply"}
           H3 == H2 \cup {"KeepWritten"}
           H4 == H3 \cup {"EndSession"}
           S1 == Keeping \cup WriteResults
           S2 == S1 \cup {"Request"}
           S3 == S2 \cup {"Reply"}
           S4 == S3 \cup {"Replied"}
           P1 == {"Closed"} \cup WriteResults
<1>3. At(c, Keeping) = At(c, {"KeepReplied"}) + At(c, {"KeepWritten"})
  BY <1>1 DEF Keeping
<1>4. At(c, Locking) = At(c, Keeping) + At(c, {"Unkeep"})
  BY <1>1 DEF Keeping, Locking
<1>5. At(c, PollHands) = At(c, {"Closed"}) + At(c, WriteResults) + At(c, {"Unkeep"})
  <2>1. At(c, P1) = At(c, {"Closed"}) + At(c, WriteResults)
    BY <1>1 DEF WriteResults
  <2>2. At(c, PollHands) = At(c, P1) + At(c, {"Unkeep"})
    BY <1>1 DEF WriteResults, PollHands, PollResults
  <2> QED
    BY <2>1, <2>2
<1>6. At(c, Twice) = At(c, {"KeepReplied"}) + At(c, {"Replied"}) + At(c, {"UnrefReplied"})
  <2>1. At(c, R1) = At(c, {"Replied"}) + At(c, {"UnrefReplied"})
    BY <1>1
  <2>2. At(c, Twice) = At(c, {"KeepReplied"}) + At(c, R1)
    BY <1>1 DEF Twice
  <2> HIDE DEF R1
  <2> QED
    BY <1>2, <2>1, <2>2
<1>7. At(c, Holding) = At(c, Twice) + At(c, PollHands) + At(c, {"Reply"}) + At(c, {"KeepWritten"})
                         + At(c, {"EndSession"}) + At(c, {"Unref"})
  <2>1. At(c, H1) = At(c, Twice) + At(c, PollHands) /\ At(c, H2) = At(c, H1) + At(c, {"Reply"})
    BY <1>1 DEF Twice, PollHands, PollResults
  <2>2. At(c, H3) = At(c, H2) + At(c, {"KeepWritten"}) /\ At(c, H4) = At(c, H3) + At(c, {"EndSession"})
    BY <1>1 DEF Twice, PollHands, PollResults
  <2>3. At(c, Holding) = At(c, H4) + At(c, {"Unref"})
    BY <1>1 DEF Twice, PollHands, PollResults, Holding
  <2> HIDE DEF H1, H2, H3, H4
  <2> QED
    BY <1>2, <2>1, <2>2, <2>3
<1>8. At(c, InSession) = At(c, Keeping) + At(c, WriteResults) + At(c, {"Request"}) + At(c, {"Reply"})
                           + At(c, {"Replied"}) + At(c, {"EndSession"})
  <2>1. At(c, S1) = At(c, Keeping) + At(c, WriteResults) /\ At(c, S2) = At(c, S1) + At(c, {"Request"})
    BY <1>1 DEF Keeping, WriteResults
  <2>2. At(c, S3) = At(c, S2) + At(c, {"Reply"}) /\ At(c, S4) = At(c, S3) + At(c, {"Replied"})
    BY <1>1 DEF Keeping, WriteResults
  <2>3. At(c, InSession) = At(c, S4) + At(c, {"EndSession"})
    BY <1>1 DEF Keeping, WriteResults, InSession
  <2> HIDE DEF S1, S2, S3, S4
  <2> QED
    BY <1>2, <2>1, <2>2, <2>3
<1> QED
  BY <1>2, <1>3, <1>4, <1>5, <1>6, <1>7, <1>8 DEF Parts, AtRequest, AtClosed, AtReply, AtUnkeep,
       AtEndSession, AtKeepReplied, AtKeepWritten, AtReplied, AtUnref, AtUnrefReplied

\* A connection that the step does not touch.
Same(d) ==
  /\ state'[d] = state[d] /\ eref'[d] = eref[d] /\ tref'[d] = tref[d] /\ tmutex'[d] = tmutex[d]
  /\ node'[d] = node[d] /\ pipe'[d] = pipe[d] /\ reading'[d] = reading[d]
  /\ unread'[d] = unread[d] /\ sent'[d] = sent[d] /\ answered'[d] = answered[d]
  /\ (d \in idle' <=> d \in idle) /\ (d \in premature' <=> d \in premature)
  /\ (victim' = d <=> victim = d)
  /\ (Contains(keep_alive_list', d) <=> Contains(keep_alive_list, d))

Unmoved(d) ==
  \A u \in Handlers : (conn'[u] = d <=> conn[u] = d) /\ (conn[u] = d => pc'[u] = pc[u])

\* A connection no thread turns to or from keeps its threads.
LEMMA UnmovedAt ==
  ASSUME NEW d, Unmoved(d), NEW K PROVE At(d, K)' = At(d, K)
<1>1. Num(pc', conn', d, K) = Num(pc, conn, d, K)
  BY NumSame DEF Unmoved
<1> QED
  BY <1>1 DEF At

\* What the step does not touch keeps its part of the invariant.
LEMMA Framed ==
  ASSUME NEW d \in Conns, Conn(d), Same(d), Unmoved(d), \A K : Waiting(d, K)' = Waiting(d, K)
  PROVE  Conn(d)'
<1>1. \A K : At(d, K)' = At(d, K)
  BY UnmovedAt
<1>2. Poll(d)' = Poll(d) /\ Requested(d)' = Requested(d)
  BY <1>1 DEF Poll, Requested, Same
<1>3. Linked(d)' <=> Linked(d)
  BY <1>1, <1>2 DEF Linked
<1>4. Begun(d)' = Begun(d) /\ Arrived(d)' = Arrived(d) /\ (Live(d)' <=> Live(d)) /\ Unanswered(d)' = Unanswered(d)
  BY <1>1, <1>2 DEF Begun, Arrived, Live, Unanswered, Same
<1>5. Counts(d)'
  BY <1>1, <1>2, <1>4 DEF Conn, Counts, Same, Bit
<1>6. Single(d)'
  BY <1>1, <1>2, <1>4 DEF Conn, Single, Same
<1>7. Watching(d)'
  BY <1>2, <1>3 DEF Conn, Watching, Same
<1>8. Replying(d)' /\ Locked(d)'
  BY <1>1, <1>3 DEF Conn, Replying, Locked, Same, Unmoved
<1>9. Listed(d)'
  BY <1>3 DEF Conn, Listed, Same
<1>10. Heard(d)'
  BY <1>4 DEF Conn, Heard, Same
<1> QED
  BY <1>5, <1>6, <1>7, <1>8, <1>9, <1>10 DEF Conn

\* Thread t goes on to b, with x.
Moves(t, b, x) == pc' = [pc EXCEPT ![t] = b] /\ conn' = [conn EXCEPT ![t] = x]

\* Such a move keeps the types.
LEMMA MovesTypes ==
  ASSUME TypeOK, NEW t \in Handlers, NEW b \in HandlerPCs, NEW x \in Conns \cup {NoConn}, Moves(t, b, x)
  PROVE  pc' \in [Threads -> OwnerPCs \cup HandlerPCs] /\ conn' \in [Threads -> Conns \cup {NoConn}]
  BY DEF TypeOK, Moves

\* The threads at a place after such a move.
LEMMA MovesAt ==
  ASSUME TypeOK, NEW t \in Handlers, NEW b, NEW x, Moves(t, b, x), NEW c, NEW K
  PROVE  At(c, K)' = At(c, K) - (IF conn[t] = c /\ pc[t] \in K THEN 1 ELSE 0)
                            + (IF x = c /\ b \in K THEN 1 ELSE 0)
<1>1. /\ \A u \in Handlers : u # t => pc'[u] = pc[u] /\ conn'[u] = conn[u]
      /\ pc'[t] = b /\ conn'[t] = x
  BY DEF Moves, TypeOK, Threads
<1>2. Num(pc', conn', c, K) = Num(pc, conn, c, K) - (IF conn[t] = c /\ pc[t] \in K THEN 1 ELSE 0)
                                                  + (IF conn'[t] = c /\ pc'[t] \in K THEN 1 ELSE 0)
  <2>1. AllBut(t, pc, conn, pc', conn')
    BY <1>1 DEF AllBut
  <2> QED
    BY <2>1, NumMoves
<1> QED
  BY <1>1, <1>2 DEF At

\* The results that wait after the poller has put one.
LEMMA PutWaiting ==
  ASSUME TypeOK, NEW k \in Results, NEW x \in Conns \cup {NoConn}, Put(k, x), NEW c, NEW K
  PROVE  Waiting(c, K)' = Waiting(c, K) + (IF x = c /\ k \in K THEN 1 ELSE 0)
<1>1. [kind |-> k, conn |-> x] \in Entry /\ queue \in Seq(Entry)
  BY DEF Entry, TypeOK
<1>2. [kind |-> k, conn |-> x].kind = k /\ [kind |-> k, conn |-> x].conn = x
  OBVIOUS
<1> QED
  BY <1>1, <1>2, KeptPut DEF Waiting, Put

\* They are the same when nothing is put or taken.
LEMMA SameWaiting ==
  ASSUME queue' = queue, NEW c, NEW K
  PROVE  Waiting(c, K)' = Waiting(c, K)
  BY DEF Waiting

\* Only connection c is touched.
Touches(c) == \A d \in Conns : d # c => Same(d)

Elsewhere(c) == \A d, K : d # c => Waiting(d, K)' = Waiting(d, K)

\* A result concerns its own connection only.
LEMMA PutElsewhere ==
  ASSUME TypeOK, NEW k \in Results, NEW x \in Conns \cup {NoConn}, Put(k, x)
  PROVE  Elsewhere(x)
<1> SUFFICES ASSUME NEW d, NEW K, d # x PROVE Waiting(d, K)' = Waiting(d, K)
  BY DEF Elsewhere
<1>1. Waiting(d, K)' = Waiting(d, K) + (IF x = d /\ k \in K THEN 1 ELSE 0)
  BY PutWaiting
<1>2. Waiting(d, K) \in Nat
  BY Numbers
<1> QED
  BY <1>1, <1>2

\* No result is put or taken.
LEMMA QueueElsewhere ==
  ASSUME queue' = queue, NEW c PROVE Elsewhere(c)
  BY SameWaiting DEF Elsewhere

\* A step of thread t on connection c.
LEMMA OthersMove ==
  ASSUME SInv, NEW c \in Conns, NEW t \in Handlers, NEW b, NEW x, Moves(t, b, x),
         conn[t] \in {c, NoConn}, x \in {c, NoConn}, Touches(c), Elsewhere(c)
  PROVE  \A d \in Conns : d # c => Conn(d)'
<1> SUFFICES ASSUME NEW d \in Conns, d # c PROVE Conn(d)'
  OBVIOUS
<1>1. Unmoved(d)
  BY CommAssumption DEF Unmoved, Moves, SInv, TypeOK, Threads
<1> QED
  BY <1>1, Framed DEF SInv, Touches, Elsewhere

\* A step of the poller, a client or the owner.
LEMMA OthersStay ==
  ASSUME SInv, NEW c, Touches(c), Elsewhere(c),
         \A u \in Handlers : pc'[u] = pc[u] /\ conn'[u] = conn[u]
  PROVE  \A d \in Conns : d # c => Conn(d)'
<1> SUFFICES ASSUME NEW d \in Conns, d # c PROVE Conn(d)'
  OBVIOUS
<1>1. Unmoved(d)
  BY DEF Unmoved
<1> QED
  BY <1>1, Framed DEF SInv, Touches, Elsewhere

\* A handler thread goes to a place it may be at.
LEMMA PlacedMoves ==
  ASSUME SInv, NEW t \in Handlers, NEW b \in HandlerPCs, NEW x, Moves(t, b, x), queue' = queue,
         x = NoConn <=> b \in Ending \cup {"Ready", "ListenFailed"}, UNCHANGED lifeVars
  PROVE  Placed'
<1>1. pc'[Owner] = pc[Owner] /\ ~destroying' /\ pc[Owner] \in OwnerPCs \ {"Gone"}
  BY CommAssumption DEF Moves, SInv, TypeOK, Threads, Placed, lifeVars
<1>2. ASSUME NEW u \in Handlers
      PROVE  pc'[u] \in HandlerPCs /\ (conn'[u] = NoConn <=> pc'[u] \in Ending \cup {"Ready", "ListenFailed"})
  <2>1. CASE u = t
    BY <2>1 DEF Moves, SInv, TypeOK, Threads
  <2>2. CASE u # t
    <3>1. pc'[u] = pc[u] /\ conn'[u] = conn[u]
      BY <2>2 DEF Moves, SInv, TypeOK, Threads
    <3> QED
      BY <3>1 DEF SInv, Placed
  <2> QED
    BY <2>1, <2>2
<1> QED
  BY <1>1, <1>2 DEF SInv, Placed

\* A result has a connection unless it is the listening socket's.
LEMMA PlacedPut ==
  ASSUME SInv, NEW k \in Results, NEW x \in Conns \cup {NoConn}, Put(k, x), x = NoConn <=> k \in {"Unlisten", "ListenFailed"},
         UNCHANGED <<pc, conn, lifeVars>>
  PROVE  Placed' /\ queue' \in Seq(Entry)
<1> DEFINE e == [kind |-> k, conn |-> x]
<1>1. e \in Entry /\ queue \in Seq(Entry) /\ queue' = Append(queue, e) /\ e.kind = k /\ e.conn = x
  BY DEF Entry, TypeOK, SInv, Put
<1> HIDE DEF e
<1>2. /\ queue' \in Seq(Entry) /\ Len(queue') = Len(queue) + 1 /\ queue'[Len(queue) + 1] = e
      /\ \A i \in 1..Len(queue) : queue'[i] = queue[i]
  BY <1>1, AppendProperties
<1>3. Len(queue) \in Nat
  BY <1>1, LenProperties
<1>4. ASSUME NEW i \in 1..Len(queue') PROVE queue'[i].conn = NoConn <=> queue'[i].kind \in {"Unlisten", "ListenFailed"}
  <2>1. CASE i \in 1..Len(queue)
    BY <1>2, <2>1 DEF SInv, Placed
  <2>2. CASE i = Len(queue) + 1
    BY <1>1, <1>2, <2>2
  <2> QED
    BY <1>2, <1>3, <2>1, <2>2
<1> QED
  BY <1>2, <1>4 DEF SInv, Placed, lifeVars

\* A thread that is not in drain moves.
LEMMA DrainingMoves ==
  ASSUME SInv, NEW t \in Threads, NEW b, pc' = [pc EXCEPT ![t] = b], UNCHANGED <<smutex, victim>>,
         pc[t] \notin Drained \cup {"DrainAll"}, b \notin Drained, IsInjective(keep_alive_list')
  PROVE  Draining'
<1>1. smutex # t
  BY CommAssumption DEF SInv, Draining, Threads, Drained
<1>2. \A u \in Threads : u # t => pc'[u] = pc[u]
  BY DEF SInv, TypeOK
<1>3. smutex \in Threads \cup {NoThread} /\ pc'[t] = b
  BY DEF SInv, TypeOK
<1> QED
  BY <1>1, <1>2, <1>3 DEF SInv, Draining

\* No thread moves.
LEMMA DrainingStays ==
  ASSUME SInv, UNCHANGED <<smutex, victim, pc>>, IsInjective(keep_alive_list')
  PROVE  Draining'
  BY DEF SInv, Draining

\* A step that neither begins nor ends a service or a target.
LEMMA ServiceMoves ==
  ASSUME SInv, UNCHANGED <<listener, ref, unbind_finish>>, pc'[Owner] = pc[Owner],
         Waiting(NoConn, {"Unlisten"})' = Waiting(NoConn, {"Unlisten"}),
         At(NoConn, Ending)' = At(NoConn, Ending), Targets' = Targets
  PROVE  Service'
<1>1. Pending' = Pending
  BY DEF Pending, Bit
<1>2. Bound' = Bound
  BY <1>1 DEF Bound, Bit
<1>3. Cardinality(Targets)' = Cardinality(Targets)
  OBVIOUS
<1> QED
  BY <1>1, <1>2, <1>3 DEF SInv, Service

\* Threads at a place, whatever they work on.
LEMMA HandsMove ==
  ASSUME TypeOK, NEW t \in Handlers, NEW b, pc' = [pc EXCEPT ![t] = b], NEW K
  PROVE  /\ Hands(K) \in Nat /\ Hands(K)' \in Nat
         /\ Hands(K)' = Hands(K) - (IF pc[t] \in K THEN 1 ELSE 0) + (IF b \in K THEN 1 ELSE 0)
<1> DEFINE S == {u \in Handlers : pc[u] \in K}
           T == {u \in Handlers : pc'[u] \in K}
<1>1. /\ S \ {t} = T \ {t} /\ S \subseteq Handlers
      /\ (t \in S <=> pc[t] \in K) /\ (t \in T <=> b \in K)
  BY DEF TypeOK, Threads
<1>2. IsFiniteSet(S)
  <2> HIDE DEF S
  <2> QED
    BY <1>1, FS_Subset, CommAssumption
<1>3. Cardinality(T) = Cardinality(S) - Bit(t \in S) + Bit(t \in T) /\ Cardinality(S) \in Nat /\ Cardinality(T) \in Nat
  <2> HIDE DEF S, T
  <2> QED
    BY <1>1, <1>2, Toggle
<1>4. Hands(K) = Cardinality(S) /\ Hands(K)' = Cardinality(T)
  BY DEF Hands
<1> HIDE DEF S, T
<1> QED
  BY <1>1, <1>3, <1>4 DEF Bit

\* A connection that is closed makes room, never the other way round.
LEMMA Fewer ==
  ASSUME Active' \subseteq Active
  PROVE  Cardinality(Active)' \in Nat /\ Cardinality(Active) \in Nat /\ Cardinality(Active)' <= Cardinality(Active)
<1>1. IsFiniteSet(Active)
  <2>1. Active \subseteq Conns
    BY DEF Active
  <2> QED
    BY <2>1, FS_Subset, CommAssumption
<1> QED
  BY <1>1, FS_Subset, FS_CardinalityType

\* A thread moves that is not bringing in a connection.
LEMMA LimitsMove ==
  ASSUME SInv, NEW t \in Handlers, NEW b, pc' = [pc EXCEPT ![t] = b], UNCHANGED conn_count,
         Opened' = Opened, Active' \subseteq Active, pc[t] \notin Counted, b \notin Counted
  PROVE  Limits'
<1>1. pc[t] \notin {"Enter"} /\ b \notin {"Enter"}
  BY DEF Counted
<1>2. Hands(Counted)' = Hands(Counted) /\ Hands({"Enter"})' = Hands({"Enter"}) /\ Hands({"Enter"}) \in Nat
  <2>1. ASSUME NEW K, pc[t] \notin K, b \notin K PROVE Hands(K)' = Hands(K) /\ Hands(K) \in Nat
    <3>1. TypeOK
      BY DEF SInv
    <3>2. /\ Hands(K) \in Nat
          /\ Hands(K)' = Hands(K) - (IF pc[t] \in K THEN 1 ELSE 0) + (IF b \in K THEN 1 ELSE 0)
      BY ONLY <3>1, HandsMove, t \in Handlers, pc' = [pc EXCEPT ![t] = b]
    <3> QED
      BY <2>1, <3>2
  <2> QED
    BY <1>1, <2>1
<1>3. Cardinality(Opened)' = Cardinality(Opened)
  OBVIOUS
<1>4. MaxConnections \in Nat
  BY CommAssumption
<1> QED
  BY <1>2, <1>3, <1>4, Fewer DEF SInv, Limits

\* No handler thread moves.
LEMMA LimitsStay ==
  ASSUME SInv, UNCHANGED conn_count, \A u \in Handlers : pc'[u] = pc[u],
         Opened' = Opened, Active' \subseteq Active
  PROVE  Limits'
<1>1. \A K : Hands(K)' = Hands(K)
  BY DEF Hands
<1>2. Cardinality(Opened)' = Cardinality(Opened)
  OBVIOUS
<1>3. MaxConnections \in Nat /\ Hands({"Enter"}) \in Nat
  <2>1. {u \in Handlers : pc[u] \in {"Enter"}} \subseteq Handlers
    OBVIOUS
  <2> QED
    BY <2>1, FS_Subset, FS_CardinalityType, CommAssumption DEF Hands
<1> QED
  BY <1>1, <1>2, <1>3, Fewer DEF SInv, Limits

\* A step of a thread on its connection that leaves the service alone.
Quiet == UNCHANGED <<listener, ref, unbind_finish, conn_count, smutex, victim, stop_requested, destroying>>

\* The connection neither begins nor ends.
Stays(c) ==
  /\ (tref'[c] > 0 <=> tref[c] > 0) /\ (Live(c)' <=> Live(c))
  /\ (state'[c] \notin {"None", "Closing", "Freed"} => state[c] \notin {"None", "Closing", "Freed"})

\* A step on a connection that neither begins nor ends it.
LEMMA Staying ==
  ASSUME NEW c \in Conns, Touches(c), Stays(c)
  PROVE  Targets' = Targets /\ Opened' = Opened /\ Active' \subseteq Active
<1>1. ASSUME NEW d \in Conns
      PROVE  /\ (tref'[d] > 0 <=> tref[d] > 0) /\ (Live(d)' <=> Live(d))
             /\ (state'[d] \notin {"None", "Closing", "Freed"} => state[d] \notin {"None", "Closing", "Freed"})
  <2>1. CASE d = c
    BY <2>1 DEF Stays
  <2>2. CASE d # c
    BY <2>2 DEF Touches, Same, Live
  <2> QED
    BY <2>1, <2>2
<1> QED
  BY <1>1 DEF Targets, Opened, Active

\* It keeps the invariant if it keeps the connection's part.
LEMMA ThreadStep ==
  ASSUME SInv, TypeOK', NEW t \in Handlers, NEW c \in Conns, conn[t] = c,
         NEW b \in HandlerPCs, NEW x \in {c, NoConn}, Moves(t, b, x),
         x = NoConn <=> b = "Ready", b # "ListenFailed", pc[t] \notin Counted \cup Ending, b \notin Counted \cup Ending,
         Quiet, queue' = queue, IsInjective(keep_alive_list'), Touches(c), Stays(c), Conn(c)'
  PROVE  SInv'
<1>1. Elsewhere(c)
  BY QueueElsewhere
<1>2. \A d \in Conns : Conn(d)'
  BY <1>1, OthersMove
<1>3. Placed'
  BY PlacedMoves DEF Quiet, lifeVars
<1>4. Draining'
  BY DrainingMoves DEF Moves, Counted, Ending, Drained, Threads, Quiet
<1>5. Service'
  <2>1. At(NoConn, Ending)' = At(NoConn, Ending)
    <3>1. TypeOK /\ conn[t] # NoConn
      BY CommAssumption DEF SInv
    <3>2. At(NoConn, Ending) \in Nat
      BY <3>1, Numbers
    <3>3. /\ b \notin Ending
          /\ At(NoConn, Ending)' = At(NoConn, Ending) - (IF conn[t] = NoConn /\ pc[t] \in Ending THEN 1 ELSE 0)
                                     + (IF x = NoConn /\ b \in Ending THEN 1 ELSE 0)
      BY <3>1, MovesAt
    <3> QED
      BY <3>1, <3>2, <3>3
  <2>2. Waiting(NoConn, {"Unlisten"})' = Waiting(NoConn, {"Unlisten"})
    BY SameWaiting
  <2>3. pc'[Owner] = pc[Owner]
    BY CommAssumption DEF Moves, SInv, TypeOK, Threads
  <2> QED
    BY <2>1, <2>2, <2>3, Staying, ServiceMoves DEF Quiet
<1>6. Limits'
  <2>1. pc' = [pc EXCEPT ![t] = b] /\ UNCHANGED conn_count /\ pc[t] \notin Counted /\ b \notin Counted
    BY DEF Moves, Quiet
  <2> QED
    BY <2>1, Staying, LimitsMove
<1> QED
  BY <1>2, <1>3, <1>4, <1>5, <1>6 DEF SInv

\* A step of the poller or of a client on a connection.
LEMMA PollStep ==
  ASSUME SInv, TypeOK', NEW c \in Conns, Elsewhere(c), UNCHANGED <<pc, conn>>, Placed',
         Quiet, IsInjective(keep_alive_list'), Touches(c), Stays(c), Conn(c)'
  PROVE  SInv'
<1>1. \A d \in Conns : Conn(d)'
  BY OthersStay
<1>2. Draining'
  BY DrainingStays DEF Quiet
<1>3. Service'
  <2>1. At(NoConn, Ending)' = At(NoConn, Ending)
    BY DEF At
  <2>2. Waiting(NoConn, {"Unlisten"})' = Waiting(NoConn, {"Unlisten"})
    BY CommAssumption DEF Elsewhere
  <2> QED
    BY <2>1, <2>2, Staying, ServiceMoves DEF Quiet
<1>4. Limits'
  BY Staying, LimitsStay DEF Quiet
<1> QED
  BY <1>1, <1>2, <1>3, <1>4 DEF SInv

\* The mutex of the connection a thread works on.
LEMMA LockMoves ==
  ASSUME SInv, NEW t \in Handlers, NEW c \in Conns, conn[t] \in {c, NoConn}, NEW b, NEW x \in {c, NoConn}, Moves(t, b, x),
         pc[t] \in Locking => conn[t] = c, b \in Locking => x = c,
         \/ tmutex'[c] = tmutex[c] /\ pc[t] \notin Locking /\ b \notin Locking
         \/ tmutex[c] = NoThread /\ tmutex'[c] = t /\ b \in Locking
         \/ pc[t] \in Locking /\ tmutex'[c] = NoThread /\ b \notin Locking
  PROVE  Locked(c)'
<1>1. /\ \A u \in Handlers : u # t => pc'[u] = pc[u] /\ conn'[u] = conn[u]
      /\ pc'[t] = b /\ conn'[t] = x
  BY DEF Moves, SInv, TypeOK, Threads
<1>2. Locked(c) /\ NoThread \notin Handlers /\ NoConn # c
  BY CommAssumption DEF SInv, Conn
<1> QED
  BY <1>1, <1>2 DEF Locked

-----------------------------------------------------------------------------
(***************************************************************************)
(* The steps of a handler thread on a connection.                          *)
(***************************************************************************)
\* What is known of the connection a step works on.
Known(c) ==
  /\ state[c] \in States /\ eref[c] \in Nat /\ tref[c] \in Nat /\ node[c] \in {"none", "read", "write"}
  /\ pipe[c] \in BOOLEAN /\ reading[c] \in {"no", "asked", "message"}
  /\ unread[c] \in Nat /\ sent[c] \in Nat /\ answered[c] \in Nat
  /\ Poll(c) \in Nat /\ Requested(c) \in Nat /\ Begun(c) \in Nat /\ Arrived(c) \in Nat
  /\ Sized(c) /\ Conn(c)

\* The invariant gives it for every connection.
LEMMA KnownAll == ASSUME SInv, NEW c \in Conns PROVE Known(c)
<1>1. Sized(c) /\ Conn(c)
  BY SizedAll DEF SInv
<1>2. pipe[c] \in BOOLEAN
  BY DEF SInv, TypeOK
<1>3. Poll(c) \in Nat /\ Requested(c) \in Nat
  BY <1>1 DEF Sized, Poll, Requested, Bit
<1>4. Begun(c) \in Nat /\ Arrived(c) \in Nat
  BY <1>1, <1>3 DEF Sized, Begun, Arrived, Bit
<1> QED
  BY <1>1, <1>2, <1>3, <1>4 DEF Known, SInv, TypeOK

\* The type of a function after one assignment.
LEMMA SetIn ==
  ASSUME NEW S, NEW T, NEW f \in [S -> T], NEW x, NEW v \in T PROVE Set(f, x, v) \in [S -> T]
  BY DEF Set

\* While the mutex of a target is free, no thread is at a place that holds it.
LEMMA Unlocked ==
  ASSUME SInv, NEW c \in Conns, tmutex[c] = NoThread PROVE At(c, Locking) = 0
<1>1. Locked(c) /\ NoThread \notin Handlers /\ At(c, Locking) \in Nat
  BY SizedAll, CommAssumption DEF SInv, Conn, Sized
<1>2. At(c, Locking) > 0 => \E t \in Handlers : conn[t] = c /\ pc[t] \in Locking
  BY NumFacts DEF At
<1> QED
  BY <1>1, <1>2 DEF Locked

\* The response is written in one go.
LEMMA ReplyAllKeeps ==
  ASSUME SInv, NEW t \in Handlers, ReplyAll(t), UNCHANGED lifeVars
  PROVE  SInv'
<1>1. PICK c \in Conns : c = conn[t]
  BY DEF ReplyAll, Goto, SInv, Placed, TypeOK, Threads, Ending
<1>2. pc[t] = "Reply" /\ Moves(t, "KeepReplied", c)
  BY <1>1 DEF ReplyAll, Goto, Moves, SInv, TypeOK, Threads
<1>3. Known(c) /\ tmutex[c] = NoThread /\ c \in idle
  BY <1>1, KnownAll DEF ReplyAll, Goto
<1>4. /\ Quiet /\ UNCHANGED listening /\ UNCHANGED <<victim, keep_alive_list, premature, state, tref, node, pipe, reading, unread, sent, queue>>
      /\ tmutex' = Set(tmutex, c, t) /\ eref' = Set(eref, c, eref[c] + 1)
      /\ answered' = Set(answered, c, answered[c] + 1) /\ idle' = idle \ {c}
  BY <1>1, <1>2 DEF ReplyAll, serviceVars, drainVars, entryVars, pollVars, peerVars, lifeVars, Quiet, Goto
<1>5. /\ Touches(c) /\ UNCHANGED <<victim, keep_alive_list, premature, state, tref, node, pipe, reading, unread, sent, queue>>
      /\ tmutex'[c] = t /\ eref'[c] = eref[c] + 1 /\ answered'[c] = answered[c] + 1 /\ c \notin idle'
  BY <1>4 DEF Set, SInv, TypeOK, Touches, Same, Quiet
<1>6. \A K : Waiting(c, K)' = Waiting(c, K)
  BY <1>4, SameWaiting
<1>7. /\ At(c, Holding)' = At(c, Holding) /\ At(c, Twice)' = At(c, Twice) + 1
      /\ At(c, InSession)' = At(c, InSession) /\ At(c, PollHands)' = At(c, PollHands)
      /\ At(c, AtRequest)' = At(c, AtRequest) /\ At(c, Arriving)' = At(c, Arriving)
      /\ At(c, AtClosed)' = At(c, AtClosed) /\ At(c, WriteResults)' = At(c, WriteResults)
      /\ At(c, Keeping)' = At(c, Keeping) + 1 /\ At(c, AtReply)' = At(c, AtReply) - 1
      /\ At(c, AtUnkeep)' = At(c, AtUnkeep) /\ At(c, Locking)' = At(c, Locking) + 1
      /\ At(c, Holding) > 0 /\ At(c, InSession) > 0 /\ At(c, AtReply) > 0
  <2>1. ASSUME NEW K PROVE At(c, K)' = At(c, K) - (IF "Reply" \in K THEN 1 ELSE 0) + (IF "KeepReplied" \in K THEN 1 ELSE 0)
    BY <1>1, <1>2, MovesAt DEF SInv
  <2>2. ASSUME NEW K, "Reply" \in K PROVE At(c, K) > 0
    BY <1>1, <1>2, <2>2, Numbers DEF SInv
  <2> QED
    BY <1>3, <2>1, <2>2 DEF Known, Sized, Holding, Twice, InSession, PollHands, PollResults, Arriving, Counted,
                              WriteResults, Keeping, Locking, AtRequest, AtClosed, AtReply, AtUnkeep
<1>8. /\ Live(c) /\ At(c, Locking) = 0
  BY <1>3, <1>7, Unlocked DEF Known, Sized, Conn, Counts, Replying, Live
<1>9. /\ Poll(c)' = Poll(c) /\ Requested(c)' = Requested(c) /\ Begun(c)' = Begun(c) /\ Arrived(c)' = Arrived(c)
      /\ (Live(c)' <=> Live(c))
  <2>1. Requested(c)' = Requested(c) /\ Arrived(c)' = Arrived(c) /\ (Live(c)' <=> Live(c))
    BY <1>3, <1>5, <1>6, <1>7, <1>8 DEF Requested, Arrived, Live, Known, Sized
  <2>2. Poll(c)' = Poll(c)
    BY <1>3, <1>5, <1>6, <1>7, <1>8, <2>1 DEF Poll, Bit, Known, Sized
  <2>3. Begun(c)' = Begun(c)
    BY <1>3, <1>5, <1>6, <1>7, <1>8, <2>2 DEF Begun, Bit, Known, Sized
  <2> QED
    BY <2>1, <2>2, <2>3
<1>10. Counts(c)'
  BY <1>3, <1>5, <1>7, <1>8, <1>9 DEF Known, Sized, Conn, Counts, Bit
<1>11. Single(c)'
  BY <1>3, <1>5, <1>7, <1>8, <1>9 DEF Known, Sized, Conn, Single
<1>12. Watching(c)'
  BY <1>3, <1>5, <1>7, <1>8, <1>9 DEF Known, Sized, Conn, Watching, Linked
<1>13. Replying(c)'
  BY <1>3, <1>5, <1>6, <1>7, <1>8, <1>9 DEF Known, Sized, Conn, Replying, Linked
<1>14. Locked(c)'
  BY <1>1, <1>2, <1>3, <1>5, LockMoves DEF Locking, Keeping
<1>15. Listed(c)'
  BY <1>3, <1>5, <1>7, <1>8, <1>9 DEF Known, Sized, Conn, Listed, Linked
<1>16. Heard(c)'
  BY <1>3, <1>5, <1>8 DEF Known, Conn, Heard, Unanswered, Replying, Bit
<1>17. TypeOK'
  <2>1. pc' \in [Threads -> OwnerPCs \cup HandlerPCs] /\ conn' \in [Threads -> Conns \cup {NoConn}]
    BY <1>2 DEF SInv, TypeOK, Moves, HandlerPCs, Results
  <2>2. tmutex' \in [Conns -> Handlers \cup {NoThread}]
    BY <1>1, <1>3, <1>4, SetIn DEF SInv, TypeOK, States
  <2>3. eref[c] + 1 \in Nat
    BY <1>3 DEF Known
  <2>4. eref' \in [Conns -> Nat]
    BY <1>4, <2>3, SetIn DEF SInv, TypeOK
  <2>5. answered[c] + 1 \in Nat
    BY <1>3 DEF Known
  <2>6. answered' \in [Conns -> Nat]
    BY <1>4, <2>5, SetIn DEF SInv, TypeOK
  <2>7. idle' \subseteq Conns
    BY <1>1, <1>4 DEF SInv, TypeOK
  <2> QED
    BY <2>1, <2>2, <2>4, <2>6, <2>7, <1>4 DEF SInv, TypeOK, Quiet
<1>18. Conn(c)'
  BY <1>10, <1>11, <1>12, <1>13, <1>14, <1>15, <1>16 DEF Conn
<1>19. Stays(c)
  BY <1>3, <1>5, <1>8, <1>9 DEF Stays, Known
<1>20. IsInjective(keep_alive_list')
  BY <1>4 DEF SInv, Draining
<1> QED
  BY <1>1, <1>2, <1>4, <1>5, <1>17, <1>18, <1>19, <1>20, ThreadStep, CommAssumption DEF HandlerPCs, Results, Counted, Ending

\* The connection was closed before the reply.
LEMMA NothingToReplyKeeps ==
  ASSUME SInv, NEW t \in Handlers, NothingToReply(t), UNCHANGED lifeVars
  PROVE  SInv'
<1>1. PICK c \in Conns : c = conn[t]
  BY DEF NothingToReply, Goto, SInv, Placed, TypeOK, Threads, Ending
<1>2. pc[t] = "Reply" /\ Moves(t, "EndSession", c)
  BY <1>1 DEF NothingToReply, Goto, Moves, SInv, TypeOK, Threads
<1>3. Known(c) /\ tmutex[c] = NoThread /\ c \notin idle
  BY <1>1, KnownAll DEF NothingToReply, Goto
<1>4. /\ Quiet /\ UNCHANGED listening /\ UNCHANGED <<victim, keep_alive_list, idle, premature, state, eref, tref, tmutex, node, pipe, reading, unread, sent, answered, queue>>
  BY <1>1, <1>2 DEF NothingToReply, serviceVars, drainVars, entryVars, pollVars, peerVars, lifeVars, Quiet, Goto
<1>5. /\ Touches(c) /\ UNCHANGED <<victim, keep_alive_list, idle, premature, state, eref, tref, tmutex, node, pipe, reading, unread, sent, answered, queue>>
  BY <1>4 DEF Set, SInv, TypeOK, Touches, Same, Quiet
<1>6. \A K : Waiting(c, K)' = Waiting(c, K)
  BY <1>4, SameWaiting
<1>7. /\ At(c, Holding)' = At(c, Holding) /\ At(c, Twice)' = At(c, Twice)
      /\ At(c, InSession)' = At(c, InSession) /\ At(c, PollHands)' = At(c, PollHands)
      /\ At(c, AtRequest)' = At(c, AtRequest) /\ At(c, Arriving)' = At(c, Arriving)
      /\ At(c, AtClosed)' = At(c, AtClosed) /\ At(c, WriteResults)' = At(c, WriteResults)
      /\ At(c, Keeping)' = At(c, Keeping) /\ At(c, AtReply)' = At(c, AtReply) - 1
      /\ At(c, AtUnkeep)' = At(c, AtUnkeep) /\ At(c, Locking)' = At(c, Locking)
      /\ At(c, Holding) > 0 /\ At(c, InSession) > 0 /\ At(c, AtReply) > 0
  <2>1. ASSUME NEW K PROVE At(c, K)' = At(c, K) - (IF "Reply" \in K THEN 1 ELSE 0) + (IF "EndSession" \in K THEN 1 ELSE 0)
    BY <1>1, <1>2, MovesAt DEF SInv
  <2>2. ASSUME NEW K, "Reply" \in K PROVE At(c, K) > 0
    BY <1>1, <1>2, <2>2, Numbers DEF SInv
  <2> QED
    BY <1>3, <2>1, <2>2 DEF Known, Sized, Holding, Twice, InSession, PollHands, PollResults, Arriving, Counted,
                              WriteResults, Keeping, Locking, AtRequest, AtClosed, AtReply, AtUnkeep
<1>8. /\ Live(c)
  BY <1>3, <1>7 DEF Known, Sized, Conn, Counts, Replying, Live
<1>9. /\ Poll(c)' = Poll(c) /\ Requested(c)' = Requested(c) /\ Begun(c)' = Begun(c) /\ Arrived(c)' = Arrived(c)
      /\ (Live(c)' <=> Live(c))
  <2>1. Requested(c)' = Requested(c) /\ Arrived(c)' = Arrived(c) /\ (Live(c)' <=> Live(c))
    BY <1>3, <1>5, <1>6, <1>7, <1>8 DEF Requested, Arrived, Live, Known, Sized
  <2>2. Poll(c)' = Poll(c)
    BY <1>3, <1>5, <1>6, <1>7, <1>8, <2>1 DEF Poll, Bit, Known, Sized
  <2>3. Begun(c)' = Begun(c)
    BY <1>3, <1>5, <1>6, <1>7, <1>8, <2>2 DEF Begun, Bit, Known, Sized
  <2> QED
    BY <2>1, <2>2, <2>3
<1>10. Counts(c)'
  BY <1>3, <1>5, <1>7, <1>8, <1>9 DEF Known, Sized, Conn, Counts, Bit
<1>11. Single(c)'
  BY <1>3, <1>5, <1>7, <1>8, <1>9 DEF Known, Sized, Conn, Single
<1>12. Watching(c)'
  BY <1>3, <1>5, <1>7, <1>8, <1>9 DEF Known, Sized, Conn, Watching, Linked
<1>13. Replying(c)'
  BY <1>3, <1>5, <1>6, <1>7, <1>8, <1>9 DEF Known, Sized, Conn, Replying, Linked
<1>14. Locked(c)'
  BY <1>1, <1>2, <1>3, <1>5, LockMoves DEF Locking, Keeping
<1>15. Listed(c)'
  BY <1>3, <1>5, <1>7, <1>8, <1>9 DEF Known, Sized, Conn, Listed, Linked
<1>16. Heard(c)'
  BY <1>3, <1>5, <1>8 DEF Known, Conn, Heard, Unanswered, Replying, Bit
<1>17. TypeOK'
  <2>1. pc' \in [Threads -> OwnerPCs \cup HandlerPCs] /\ conn' \in [Threads -> Conns \cup {NoConn}]
    BY <1>2 DEF SInv, TypeOK, Moves, HandlerPCs, Results
  <2> QED
    BY <2>1, <1>4 DEF SInv, TypeOK, Quiet
<1>18. Conn(c)'
  BY <1>10, <1>11, <1>12, <1>13, <1>14, <1>15, <1>16 DEF Conn
<1>19. Stays(c)
  BY <1>3, <1>5, <1>8, <1>9 DEF Stays, Known
<1>20. IsInjective(keep_alive_list')
  BY <1>4 DEF SInv, Draining
<1> QED
  BY <1>1, <1>2, <1>4, <1>5, <1>17, <1>18, <1>19, <1>20, ThreadStep, CommAssumption DEF HandlerPCs, Results, Counted, Ending

\* The connection begins to wait for the reply ...
LEMMA ToReplyKeeps ==
  ASSUME SInv, NEW t \in Handlers, ToReply(t), UNCHANGED lifeVars, state[conn[t]] = "Success"
  PROVE  SInv'
<1>1. PICK c \in Conns : c = conn[t]
  BY DEF ToReply, Goto, SInv, Placed, TypeOK, Threads, Ending
<1>2. pc[t] = "Request" /\ Moves(t, "Reply", c)
  BY <1>1 DEF ToReply, Goto, Moves, SInv, TypeOK, Threads
<1>3. Known(c) /\ tmutex[c] = NoThread /\ state[c] = "Success"
  BY <1>1, KnownAll DEF ToReply, Goto
<1>4. /\ Quiet /\ UNCHANGED listening /\ UNCHANGED <<victim, keep_alive_list, premature, tref, tmutex, node, pipe, reading, unread, sent, answered, queue>>
      /\ eref' = Set(eref, c, eref[c] + 1) /\ state' = Set(state, c, "Idle")
      /\ idle' = idle \cup {c}
  BY <1>1, <1>2, <1>3 DEF ToReply, serviceVars, drainVars, entryVars, pollVars, peerVars, lifeVars, Quiet, Goto
<1>5. /\ Touches(c) /\ UNCHANGED <<victim, keep_alive_list, premature, tref, tmutex, node, pipe, reading, unread, sent, answered, queue>>
      /\ eref'[c] = eref[c] + 1 /\ state'[c] = "Idle" /\ c \in idle'
  BY <1>4 DEF Set, SInv, TypeOK, Touches, Same, Quiet
<1>6. \A K : Waiting(c, K)' = Waiting(c, K)
  BY <1>4, SameWaiting
<1>7. /\ At(c, Holding)' = At(c, Holding) + 1 /\ At(c, Twice)' = At(c, Twice)
      /\ At(c, InSession)' = At(c, InSession) /\ At(c, PollHands)' = At(c, PollHands)
      /\ At(c, AtRequest)' = At(c, AtRequest) - 1 /\ At(c, Arriving)' = At(c, Arriving)
      /\ At(c, AtClosed)' = At(c, AtClosed) /\ At(c, WriteResults)' = At(c, WriteResults)
      /\ At(c, Keeping)' = At(c, Keeping) /\ At(c, AtReply)' = At(c, AtReply) + 1
      /\ At(c, AtUnkeep)' = At(c, AtUnkeep) /\ At(c, Locking)' = At(c, Locking)
      /\ At(c, InSession) > 0 /\ At(c, AtRequest) > 0
  <2>1. ASSUME NEW K PROVE At(c, K)' = At(c, K) - (IF "Request" \in K THEN 1 ELSE 0) + (IF "Reply" \in K THEN 1 ELSE 0)
    BY <1>1, <1>2, MovesAt DEF SInv
  <2>2. ASSUME NEW K, "Request" \in K PROVE At(c, K) > 0
    BY <1>1, <1>2, <2>2, Numbers DEF SInv
  <2> QED
    BY <1>3, <2>1, <2>2 DEF Known, Sized, Holding, Twice, InSession, PollHands, PollResults, Arriving, Counted,
                              WriteResults, Keeping, Locking, AtRequest, AtClosed, AtReply, AtUnkeep
<1>8. /\ Live(c) /\ At(c, Locking) = 0
  BY <1>3, <1>7, Unlocked DEF Known, Sized, Conn, Counts, Replying, Live
<1>9. /\ Poll(c)' = Poll(c) /\ Requested(c)' = Requested(c) - 1 /\ Begun(c)' = Begun(c) /\ Arrived(c)' = Arrived(c)
      /\ (Live(c)' <=> Live(c))
  <2>1. Requested(c)' = Requested(c) - 1 /\ Arrived(c)' = Arrived(c) /\ (Live(c)' <=> Live(c))
    BY <1>3, <1>5, <1>6, <1>7, <1>8 DEF Requested, Arrived, Live, Known, Sized
  <2>2. Poll(c)' = Poll(c)
    BY <1>3, <1>5, <1>6, <1>7, <1>8, <2>1 DEF Poll, Bit, Known, Sized
  <2>3. Begun(c)' = Begun(c)
    BY <1>3, <1>5, <1>6, <1>7, <1>8, <2>2 DEF Begun, Bit, Known, Sized
  <2> QED
    BY <2>1, <2>2, <2>3
<1>10. Counts(c)'
  BY <1>3, <1>5, <1>7, <1>8, <1>9 DEF Known, Sized, Conn, Counts, Bit
<1>11. Single(c)'
  BY <1>3, <1>5, <1>7, <1>8, <1>9 DEF Known, Sized, Conn, Single
<1>12. Watching(c)'
  BY <1>3, <1>5, <1>7, <1>8, <1>9 DEF Known, Sized, Conn, Watching, Linked
<1>13. Replying(c)'
  BY <1>3, <1>5, <1>6, <1>7, <1>8, <1>9 DEF Known, Sized, Conn, Replying, Linked, Watching
<1>14. Locked(c)'
  BY <1>1, <1>2, <1>3, <1>5, LockMoves DEF Locking, Keeping
<1>15. Listed(c)'
  BY <1>3, <1>5, <1>7, <1>8, <1>9 DEF Known, Sized, Conn, Listed, Linked
<1>16. Heard(c)'
  BY <1>3, <1>5, <1>8 DEF Known, Conn, Heard, Unanswered, Replying, Bit, Watching
<1>17. TypeOK'
  <2>1. pc' \in [Threads -> OwnerPCs \cup HandlerPCs] /\ conn' \in [Threads -> Conns \cup {NoConn}]
    BY <1>2 DEF SInv, TypeOK, Moves, HandlerPCs, Results
  <2>2. eref[c] + 1 \in Nat
    BY <1>3 DEF Known
  <2>3. eref' \in [Conns -> Nat]
    BY <1>4, <2>2, SetIn DEF SInv, TypeOK
  <2>4. state' \in [Conns -> States]
    BY <1>1, <1>3, <1>4, SetIn DEF SInv, TypeOK, States
  <2>5. idle' \subseteq Conns
    BY <1>1, <1>4 DEF SInv, TypeOK
  <2> QED
    BY <2>1, <2>3, <2>4, <2>5, <1>4 DEF SInv, TypeOK, Quiet
<1>18. Conn(c)'
  BY <1>10, <1>11, <1>12, <1>13, <1>14, <1>15, <1>16 DEF Conn
<1>19. Stays(c)
  BY <1>3, <1>5, <1>8, <1>9 DEF Stays, Known
<1>20. IsInjective(keep_alive_list')
  BY <1>4 DEF SInv, Draining
<1> QED
  BY <1>1, <1>2, <1>4, <1>5, <1>17, <1>18, <1>19, <1>20, ThreadStep, CommAssumption DEF HandlerPCs, Results, Counted, Ending

\* ... unless it was closed meanwhile.
LEMMA ToReplyClosed ==
  ASSUME SInv, NEW t \in Handlers, ToReply(t), UNCHANGED lifeVars, state[conn[t]] # "Success"
  PROVE  SInv'
<1>1. PICK c \in Conns : c = conn[t]
  BY DEF ToReply, Goto, SInv, Placed, TypeOK, Threads, Ending
<1>2. pc[t] = "Request" /\ Moves(t, "Reply", c)
  BY <1>1 DEF ToReply, Goto, Moves, SInv, TypeOK, Threads
<1>3. Known(c) /\ tmutex[c] = NoThread /\ state[c] # "Success"
  BY <1>1, KnownAll DEF ToReply, Goto
<1>4. /\ Quiet /\ UNCHANGED listening /\ UNCHANGED <<victim, keep_alive_list, idle, premature, state, eref, tref, tmutex, node, pipe, reading, unread, sent, answered, queue>>
  BY <1>1, <1>2, <1>3 DEF ToReply, serviceVars, drainVars, entryVars, pollVars, peerVars, lifeVars, Quiet, Goto
<1>5. /\ Touches(c) /\ UNCHANGED <<victim, keep_alive_list, idle, premature, state, eref, tref, tmutex, node, pipe, reading, unread, sent, answered, queue>>
  BY <1>4 DEF Set, SInv, TypeOK, Touches, Same, Quiet
<1>6. \A K : Waiting(c, K)' = Waiting(c, K)
  BY <1>4, SameWaiting
<1>7. /\ At(c, Holding)' = At(c, Holding) + 1 /\ At(c, Twice)' = At(c, Twice)
      /\ At(c, InSession)' = At(c, InSession) /\ At(c, PollHands)' = At(c, PollHands)
      /\ At(c, AtRequest)' = At(c, AtRequest) - 1 /\ At(c, Arriving)' = At(c, Arriving)
      /\ At(c, AtClosed)' = At(c, AtClosed) /\ At(c, WriteResults)' = At(c, WriteResults)
      /\ At(c, Keeping)' = At(c, Keeping) /\ At(c, AtReply)' = At(c, AtReply) + 1
      /\ At(c, AtUnkeep)' = At(c, AtUnkeep) /\ At(c, Locking)' = At(c, Locking)
      /\ At(c, InSession) > 0 /\ At(c, AtRequest) > 0
  <2>1. ASSUME NEW K PROVE At(c, K)' = At(c, K) - (IF "Request" \in K THEN 1 ELSE 0) + (IF "Reply" \in K THEN 1 ELSE 0)
    BY <1>1, <1>2, MovesAt DEF SInv
  <2>2. ASSUME NEW K, "Request" \in K PROVE At(c, K) > 0
    BY <1>1, <1>2, <2>2, Numbers DEF SInv
  <2> QED
    BY <1>3, <2>1, <2>2 DEF Known, Sized, Holding, Twice, InSession, PollHands, PollResults, Arriving, Counted,
                              WriteResults, Keeping, Locking, AtRequest, AtClosed, AtReply, AtUnkeep
<1>8. /\ Live(c) /\ Requested(c) = 1 /\ state[c] = "Closing"
  <2>1. Requested(c) = 1
    BY <1>3, <1>7 DEF Known, Sized, Conn, Watching, Single, Requested
  <2>2. state[c] = "Closing"
    BY <1>3, <1>7, <2>1 DEF Known, Sized, Conn, Watching
  <2>3. Live(c)
    BY <2>2 DEF Live
  <2> QED
    BY <2>1, <2>2, <2>3
<1>9. /\ Poll(c)' = Poll(c) - 1 /\ Requested(c)' = Requested(c) - 1 /\ Begun(c)' = Begun(c) /\ Arrived(c)' = Arrived(c)
      /\ (Live(c)' <=> Live(c))
  <2>1. Requested(c)' = Requested(c) - 1 /\ Arrived(c)' = Arrived(c) /\ (Live(c)' <=> Live(c))
    BY <1>3, <1>5, <1>6, <1>7, <1>8 DEF Requested, Arrived, Live, Known, Sized
  <2>2. Poll(c)' = Poll(c) - 1
    BY <1>3, <1>5, <1>6, <1>7, <1>8, <2>1 DEF Poll, Bit, Known, Sized
  <2>3. Begun(c)' = Begun(c)
    BY <1>3, <1>5, <1>6, <1>7, <1>8, <2>2 DEF Begun, Bit, Known, Sized
  <2> QED
    BY <2>1, <2>2, <2>3
<1>10. Counts(c)'
  BY <1>3, <1>5, <1>7, <1>8, <1>9 DEF Known, Sized, Conn, Counts, Bit
<1>11. Single(c)'
  BY <1>3, <1>5, <1>7, <1>8, <1>9 DEF Known, Sized, Conn, Single
<1>12. Watching(c)'
  BY <1>3, <1>5, <1>7, <1>8, <1>9 DEF Known, Sized, Conn, Watching, Linked
<1>13. Replying(c)'
  BY <1>3, <1>5, <1>6, <1>7, <1>8, <1>9 DEF Known, Sized, Conn, Replying, Linked
<1>14. Locked(c)'
  BY <1>1, <1>2, <1>3, <1>5, LockMoves DEF Locking, Keeping
<1>15. Listed(c)'
  BY <1>3, <1>5, <1>7, <1>8, <1>9 DEF Known, Sized, Conn, Listed, Linked
<1>16. Heard(c)'
  BY <1>3, <1>5, <1>8 DEF Known, Conn, Heard, Unanswered, Replying, Bit
<1>17. TypeOK'
  <2>1. pc' \in [Threads -> OwnerPCs \cup HandlerPCs] /\ conn' \in [Threads -> Conns \cup {NoConn}]
    BY <1>2 DEF SInv, TypeOK, Moves, HandlerPCs, Results
  <2> QED
    BY <2>1, <1>4 DEF SInv, TypeOK, Quiet
<1>18. Conn(c)'
  BY <1>10, <1>11, <1>12, <1>13, <1>14, <1>15, <1>16 DEF Conn
<1>19. Stays(c)
  BY <1>3, <1>5, <1>8, <1>9 DEF Stays, Known
<1>20. IsInjective(keep_alive_list')
  BY <1>4 DEF SInv, Draining
<1> QED
  BY <1>1, <1>2, <1>4, <1>5, <1>17, <1>18, <1>19, <1>20, ThreadStep, CommAssumption DEF HandlerPCs, Results, Counted, Ending

\* The poller shall write the rest of the response ...
LEMMA ReplyPartWatched ==
  ASSUME SInv, NEW t \in Handlers, ReplyPart(t), UNCHANGED lifeVars, node[conn[t]] = "read"
  PROVE  SInv'
<1>1. PICK c \in Conns : c = conn[t]
  BY DEF ReplyPart, Goto, SInv, Placed, TypeOK, Threads, Ending
<1>2. pc[t] = "Reply" /\ Moves(t, "Unref", c)
  BY <1>1 DEF ReplyPart, Goto, Moves, SInv, TypeOK, Threads
<1>3. Known(c) /\ tmutex[c] = NoThread /\ c \in idle /\ node[c] = "read"
  BY <1>1, KnownAll DEF ReplyPart, Goto
<1>4. /\ Quiet /\ UNCHANGED listening /\ UNCHANGED <<victim, keep_alive_list, premature, state, eref, tref, tmutex, pipe, reading, unread, sent, answered, queue>>
      /\ node' = Set(node, c, "write") /\ idle' = idle \ {c}
  BY <1>1, <1>2, <1>3 DEF ReplyPart, serviceVars, drainVars, entryVars, pollVars, peerVars, lifeVars, Quiet, Goto
<1>5. /\ Touches(c) /\ UNCHANGED <<victim, keep_alive_list, premature, state, eref, tref, tmutex, pipe, reading, unread, sent, answered, queue>>
      /\ node'[c] = "write" /\ c \notin idle'
  BY <1>4 DEF Set, SInv, TypeOK, Touches, Same, Quiet
<1>6. \A K : Waiting(c, K)' = Waiting(c, K)
  BY <1>4, SameWaiting
<1>7. /\ At(c, Holding)' = At(c, Holding) /\ At(c, Twice)' = At(c, Twice)
      /\ At(c, InSession)' = At(c, InSession) - 1 /\ At(c, PollHands)' = At(c, PollHands)
      /\ At(c, AtRequest)' = At(c, AtRequest) /\ At(c, Arriving)' = At(c, Arriving)
      /\ At(c, AtClosed)' = At(c, AtClosed) /\ At(c, WriteResults)' = At(c, WriteResults)
      /\ At(c, Keeping)' = At(c, Keeping) /\ At(c, AtReply)' = At(c, AtReply) - 1
      /\ At(c, AtUnkeep)' = At(c, AtUnkeep) /\ At(c, Locking)' = At(c, Locking)
      /\ At(c, Holding) > 0 /\ At(c, InSession) > 0 /\ At(c, AtReply) > 0
  <2>1. ASSUME NEW K PROVE At(c, K)' = At(c, K) - (IF "Reply" \in K THEN 1 ELSE 0) + (IF "Unref" \in K THEN 1 ELSE 0)
    BY <1>1, <1>2, MovesAt DEF SInv
  <2>2. ASSUME NEW K, "Reply" \in K PROVE At(c, K) > 0
    BY <1>1, <1>2, <2>2, Numbers DEF SInv
  <2> QED
    BY <1>3, <2>1, <2>2 DEF Known, Sized, Holding, Twice, InSession, PollHands, PollResults, Arriving, Counted,
                              WriteResults, Keeping, Locking, AtRequest, AtClosed, AtReply, AtUnkeep
<1>8. /\ Live(c) /\ state[c] = "Idle" /\ ~pipe[c] /\ Linked(c)
      /\ Requested(c) = 0 /\ At(c, WriteResults) = 0 /\ Waiting(c, WriteResults) = 0 /\ node[c] # "write"
      /\ At(c, AtUnkeep) = 0 /\ At(c, AtClosed) = At(c, PollHands)
  <2>1. Live(c)
    BY <1>3, <1>7 DEF Known, Sized, Conn, Counts, Live
  <2>2. state[c] = "Idle"
    BY <1>3, <1>7, <2>1 DEF Known, Sized, Conn, Replying
  <2>3. ~pipe[c]
    BY <1>3, <1>7, <2>1, <2>2 DEF Known, Sized, Conn, Watching, Listed
  <2>4. Linked(c)
    BY <1>3, <1>7, <2>1, <2>2, <2>3 DEF Known, Sized, Conn, Replying
  <2>5. Requested(c) = 0
    BY <1>3, <2>2 DEF Known, Conn, Watching, Single
  <2>6. At(c, WriteResults) = 0
    BY <1>3, <1>7, <2>1, <2>2, <2>3, <2>4, <2>5 DEF Known, Sized, Conn, Replying
  <2>7. Waiting(c, WriteResults) = 0
    BY <1>3, <1>7, <2>1, <2>2, <2>3, <2>4, <2>5, <2>6 DEF Known, Sized, Conn, Replying, Single, Poll, Bit
  <2>8. node[c] # "write"
    BY <1>3, <1>7, <2>1, <2>2, <2>3, <2>4, <2>5, <2>6, <2>7 DEF Known, Sized, Conn, Replying
  <2>9. At(c, AtUnkeep) = 0
    BY <1>3, <1>7, <2>1, <2>2, <2>3, <2>4, <2>5, <2>6, <2>7, <2>8 DEF Known, Sized, Conn, Replying
  <2>10. At(c, AtClosed) = At(c, PollHands)
    BY <1>3, <1>7, <2>1, <2>2, <2>3, <2>4, <2>5, <2>6, <2>7, <2>8, <2>9, PartsAll DEF Known, Sized, Conn, Parts
  <2> QED
    BY <2>1, <2>2, <2>3, <2>4, <2>5, <2>6, <2>7, <2>8, <2>9, <2>10
<1>9. /\ Poll(c)' = Poll(c) /\ Requested(c)' = Requested(c) /\ Begun(c)' = Begun(c) + 1 /\ Arrived(c)' = Arrived(c)
      /\ (Live(c)' <=> Live(c))
  <2>1. Requested(c)' = Requested(c) /\ Arrived(c)' = Arrived(c) /\ (Live(c)' <=> Live(c))
    BY <1>3, <1>5, <1>6, <1>7, <1>8 DEF Requested, Arrived, Live, Known, Sized
  <2>2. Poll(c)' = Poll(c)
    BY <1>3, <1>5, <1>6, <1>7, <1>8, <2>1 DEF Poll, Bit, Known, Sized
  <2>3. Begun(c)' = Begun(c) + 1
    BY <1>3, <1>5, <1>6, <1>7, <1>8, <2>2 DEF Begun, Bit, Known, Sized
  <2> QED
    BY <2>1, <2>2, <2>3
<1>10. Counts(c)'
  BY <1>3, <1>5, <1>7, <1>8, <1>9 DEF Known, Sized, Conn, Counts, Bit
<1>11. Single(c)'
  BY <1>3, <1>5, <1>7, <1>8, <1>9 DEF Known, Sized, Conn, Single
<1>12. Watching(c)'
  BY <1>3, <1>5, <1>7, <1>8, <1>9 DEF Known, Sized, Conn, Watching, Linked
<1>13. Replying(c)'
  BY <1>3, <1>5, <1>6, <1>7, <1>8, <1>9 DEF Known, Sized, Conn, Replying, Linked
<1>14. Locked(c)'
  BY <1>1, <1>2, <1>3, <1>5, LockMoves DEF Locking, Keeping
<1>15. Listed(c)'
  BY <1>3, <1>5, <1>7, <1>8, <1>9 DEF Known, Sized, Conn, Listed, Linked
<1>16. Heard(c)'
  BY <1>3, <1>5, <1>8 DEF Known, Conn, Heard, Unanswered, Replying, Bit
<1>17. TypeOK'
  <2>1. pc' \in [Threads -> OwnerPCs \cup HandlerPCs] /\ conn' \in [Threads -> Conns \cup {NoConn}]
    BY <1>2 DEF SInv, TypeOK, Moves, HandlerPCs, Results
  <2>2. node' \in [Conns -> {"none", "read", "write"}]
    BY <1>1, <1>3, <1>4, SetIn DEF SInv, TypeOK, States
  <2>3. idle' \subseteq Conns
    BY <1>1, <1>4 DEF SInv, TypeOK
  <2> QED
    BY <2>1, <2>2, <2>3, <1>4 DEF SInv, TypeOK, Quiet
<1>18. Conn(c)'
  BY <1>10, <1>11, <1>12, <1>13, <1>14, <1>15, <1>16 DEF Conn
<1>19. Stays(c)
  BY <1>3, <1>5, <1>8, <1>9 DEF Stays, Known
<1>20. IsInjective(keep_alive_list')
  BY <1>4 DEF SInv, Draining
<1> QED
  BY <1>1, <1>2, <1>4, <1>5, <1>17, <1>18, <1>19, <1>20, ThreadStep, CommAssumption DEF HandlerPCs, Results, Counted, Ending

\* ... or has lost the socket.
LEMMA ReplyPartUnwatched ==
  ASSUME SInv, NEW t \in Handlers, ReplyPart(t), UNCHANGED lifeVars, node[conn[t]] # "read"
  PROVE  SInv'
<1>1. PICK c \in Conns : c = conn[t]
  BY DEF ReplyPart, Goto, SInv, Placed, TypeOK, Threads, Ending
<1>2. pc[t] = "Reply" /\ Moves(t, "Unref", c)
  BY <1>1 DEF ReplyPart, Goto, Moves, SInv, TypeOK, Threads
<1>3. Known(c) /\ tmutex[c] = NoThread /\ c \in idle /\ node[c] = "none"
  BY <1>1, KnownAll DEF ReplyPart, Goto
<1>4. /\ Quiet /\ UNCHANGED listening /\ UNCHANGED <<victim, keep_alive_list, premature, eref, tref, tmutex, node, pipe, reading, unread, sent, answered, queue>>
      /\ state' = Set(state, c, "Receiving") /\ idle' = idle \ {c}
  BY <1>1, <1>2, <1>3 DEF ReplyPart, serviceVars, drainVars, entryVars, pollVars, peerVars, lifeVars, Quiet, Goto
<1>5. /\ Touches(c) /\ UNCHANGED <<victim, keep_alive_list, premature, eref, tref, tmutex, node, pipe, reading, unread, sent, answered, queue>>
      /\ state'[c] = "Receiving" /\ c \notin idle'
  BY <1>4 DEF Set, SInv, TypeOK, Touches, Same, Quiet
<1>6. \A K : Waiting(c, K)' = Waiting(c, K)
  BY <1>4, SameWaiting
<1>7. /\ At(c, Holding)' = At(c, Holding) /\ At(c, Twice)' = At(c, Twice)
      /\ At(c, InSession)' = At(c, InSession) - 1 /\ At(c, PollHands)' = At(c, PollHands)
      /\ At(c, AtRequest)' = At(c, AtRequest) /\ At(c, Arriving)' = At(c, Arriving)
      /\ At(c, AtClosed)' = At(c, AtClosed) /\ At(c, WriteResults)' = At(c, WriteResults)
      /\ At(c, Keeping)' = At(c, Keeping) /\ At(c, AtReply)' = At(c, AtReply) - 1
      /\ At(c, AtUnkeep)' = At(c, AtUnkeep) /\ At(c, Locking)' = At(c, Locking)
      /\ At(c, Holding) > 0 /\ At(c, InSession) > 0 /\ At(c, AtReply) > 0
  <2>1. ASSUME NEW K PROVE At(c, K)' = At(c, K) - (IF "Reply" \in K THEN 1 ELSE 0) + (IF "Unref" \in K THEN 1 ELSE 0)
    BY <1>1, <1>2, MovesAt DEF SInv
  <2>2. ASSUME NEW K, "Reply" \in K PROVE At(c, K) > 0
    BY <1>1, <1>2, <2>2, Numbers DEF SInv
  <2> QED
    BY <1>3, <2>1, <2>2 DEF Known, Sized, Holding, Twice, InSession, PollHands, PollResults, Arriving, Counted,
                              WriteResults, Keeping, Locking, AtRequest, AtClosed, AtReply, AtUnkeep
<1>8. /\ Live(c) /\ state[c] = "Idle" /\ ~pipe[c] /\ Linked(c)
      /\ Requested(c) = 0 /\ At(c, WriteResults) = 0 /\ Waiting(c, WriteResults) = 0 /\ node[c] # "write"
      /\ At(c, AtUnkeep) = 0 /\ At(c, AtClosed) = At(c, PollHands) /\ At(c, Locking) = 0
  <2>1. Live(c)
    BY <1>3, <1>7 DEF Known, Sized, Conn, Counts, Live
  <2>2. state[c] = "Idle"
    BY <1>3, <1>7, <2>1 DEF Known, Sized, Conn, Replying
  <2>3. ~pipe[c]
    BY <1>3, <1>7, <2>1, <2>2 DEF Known, Sized, Conn, Watching, Listed
  <2>4. Linked(c)
    BY <1>3, <1>7, <2>1, <2>2, <2>3 DEF Known, Sized, Conn, Replying
  <2>5. Requested(c) = 0
    BY <1>3, <2>2 DEF Known, Conn, Watching, Single
  <2>6. At(c, WriteResults) = 0
    BY <1>3, <1>7, <2>1, <2>2, <2>3, <2>4, <2>5 DEF Known, Sized, Conn, Replying
  <2>7. Waiting(c, WriteResults) = 0
    BY <1>3, <1>7, <2>1, <2>2, <2>3, <2>4, <2>5, <2>6 DEF Known, Sized, Conn, Replying, Single, Poll, Bit
  <2>8. node[c] # "write"
    BY <1>3, <1>7, <2>1, <2>2, <2>3, <2>4, <2>5, <2>6, <2>7 DEF Known, Sized, Conn, Replying
  <2>9. At(c, AtUnkeep) = 0
    BY <1>3, <1>7, <2>1, <2>2, <2>3, <2>4, <2>5, <2>6, <2>7, <2>8 DEF Known, Sized, Conn, Replying
  <2>10. At(c, AtClosed) = At(c, PollHands)
    BY <1>3, <1>7, <2>1, <2>2, <2>3, <2>4, <2>5, <2>6, <2>7, <2>8, <2>9, PartsAll DEF Known, Sized, Conn, Parts
  <2>11. At(c, Locking) = 0
    BY <1>3, <1>7, <2>1, <2>2, <2>3, <2>4, <2>5, <2>6, <2>7, <2>8, <2>9, <2>10, Unlocked DEF Known, Sized, Conn
  <2> QED
    BY <2>1, <2>2, <2>3, <2>4, <2>5, <2>6, <2>7, <2>8, <2>9, <2>10, <2>11
<1>9. /\ Poll(c)' = Poll(c) /\ Requested(c)' = Requested(c) /\ Begun(c)' = Begun(c) + 1 /\ Arrived(c)' = Arrived(c)
      /\ (Live(c)' <=> Live(c))
  <2>1. Requested(c)' = Requested(c) /\ Arrived(c)' = Arrived(c) /\ (Live(c)' <=> Live(c))
    BY <1>3, <1>5, <1>6, <1>7, <1>8 DEF Requested, Arrived, Live, Known, Sized
  <2>2. Poll(c)' = Poll(c)
    BY <1>3, <1>5, <1>6, <1>7, <1>8, <2>1 DEF Poll, Bit, Known, Sized, Linked
  <2>3. Begun(c)' = Begun(c) + 1
    BY <1>3, <1>5, <1>6, <1>7, <1>8, <2>2 DEF Begun, Bit, Known, Sized, Linked
  <2> QED
    BY <2>1, <2>2, <2>3
<1>10. Counts(c)'
  BY <1>3, <1>5, <1>7, <1>8, <1>9 DEF Known, Sized, Conn, Counts, Bit
<1>11. Single(c)'
  BY <1>3, <1>5, <1>7, <1>8, <1>9 DEF Known, Sized, Conn, Single
<1>12. Watching(c)'
  BY <1>3, <1>5, <1>7, <1>8, <1>9 DEF Known, Sized, Conn, Watching, Linked
<1>13. Replying(c)'
  BY <1>3, <1>5, <1>6, <1>7, <1>8, <1>9 DEF Known, Sized, Conn, Replying, Linked
<1>14. Locked(c)'
  BY <1>1, <1>2, <1>3, <1>5, LockMoves DEF Locking, Keeping
<1>15. Listed(c)'
  BY <1>3, <1>5, <1>7, <1>8, <1>9 DEF Known, Sized, Conn, Listed, Linked
<1>16. Heard(c)'
  BY <1>3, <1>5, <1>8 DEF Known, Conn, Heard, Unanswered, Replying, Bit
<1>17. TypeOK'
  <2>1. pc' \in [Threads -> OwnerPCs \cup HandlerPCs] /\ conn' \in [Threads -> Conns \cup {NoConn}]
    BY <1>2 DEF SInv, TypeOK, Moves, HandlerPCs, Results
  <2>2. state' \in [Conns -> States]
    BY <1>1, <1>3, <1>4, SetIn DEF SInv, TypeOK, States
  <2>3. idle' \subseteq Conns
    BY <1>1, <1>4 DEF SInv, TypeOK
  <2> QED
    BY <2>1, <2>2, <2>3, <1>4 DEF SInv, TypeOK, Quiet
<1>18. Conn(c)'
  BY <1>10, <1>11, <1>12, <1>13, <1>14, <1>15, <1>16 DEF Conn
<1>19. Stays(c)
  BY <1>3, <1>5, <1>8, <1>9 DEF Stays, Known
<1>20. IsInjective(keep_alive_list')
  BY <1>4 DEF SInv, Draining
<1> QED
  BY <1>1, <1>2, <1>4, <1>5, <1>17, <1>18, <1>19, <1>20, ThreadStep, CommAssumption DEF HandlerPCs, Results, Counted, Ending

\* The send fails, the node is deleted.
LEMMA ReplyFailsKeeps ==
  ASSUME SInv, NEW t \in Handlers, ReplyFails(t), UNCHANGED lifeVars
  PROVE  SInv'
<1>1. PICK c \in Conns : c = conn[t]
  BY DEF ReplyFails, Goto, SInv, Placed, TypeOK, Threads, Ending
<1>2. pc[t] = "Reply" /\ Moves(t, "Unref", c)
  BY <1>1 DEF ReplyFails, Goto, Moves, SInv, TypeOK, Threads
<1>3. Known(c) /\ tmutex[c] = NoThread /\ c \in idle
  BY <1>1, KnownAll DEF ReplyFails, Goto
<1>4. /\ Quiet /\ UNCHANGED listening /\ UNCHANGED <<victim, keep_alive_list, premature, eref, tref, tmutex, reading, unread, sent, answered, queue>>
      /\ state' = Set(state, c, "Error") /\ node' = Set(node, c, "none")
      /\ pipe' = Set(pipe, c, (pipe[c] \/ node[c] # "none")) /\ idle' = idle \ {c}
  BY <1>1, <1>2 DEF ReplyFails, serviceVars, drainVars, entryVars, pollVars, peerVars, lifeVars, Quiet, Goto, NodeDel
<1>5. /\ Touches(c) /\ UNCHANGED <<victim, keep_alive_list, premature, eref, tref, tmutex, reading, unread, sent, answered, queue>>
      /\ state'[c] = "Error" /\ node'[c] = "none" /\ (pipe'[c] <=> pipe[c] \/ node[c] # "none") /\ c \notin idle'
  BY <1>4 DEF Set, SInv, TypeOK, Touches, Same, Quiet
<1>6. \A K : Waiting(c, K)' = Waiting(c, K)
  BY <1>4, SameWaiting
<1>7. /\ At(c, Holding)' = At(c, Holding) /\ At(c, Twice)' = At(c, Twice)
      /\ At(c, InSession)' = At(c, InSession) - 1 /\ At(c, PollHands)' = At(c, PollHands)
      /\ At(c, AtRequest)' = At(c, AtRequest) /\ At(c, Arriving)' = At(c, Arriving)
      /\ At(c, AtClosed)' = At(c, AtClosed) /\ At(c, WriteResults)' = At(c, WriteResults)
      /\ At(c, Keeping)' = At(c, Keeping) /\ At(c, AtReply)' = At(c, AtReply) - 1
      /\ At(c, AtUnkeep)' = At(c, AtUnkeep) /\ At(c, Locking)' = At(c, Locking)
      /\ At(c, Holding) > 0 /\ At(c, InSession) > 0 /\ At(c, AtReply) > 0
  <2>1. ASSUME NEW K PROVE At(c, K)' = At(c, K) - (IF "Reply" \in K THEN 1 ELSE 0) + (IF "Unref" \in K THEN 1 ELSE 0)
    BY <1>1, <1>2, MovesAt DEF SInv
  <2>2. ASSUME NEW K, "Reply" \in K PROVE At(c, K) > 0
    BY <1>1, <1>2, <2>2, Numbers DEF SInv
  <2> QED
    BY <1>3, <2>1, <2>2 DEF Known, Sized, Holding, Twice, InSession, PollHands, PollResults, Arriving, Counted,
                              WriteResults, Keeping, Locking, AtRequest, AtClosed, AtReply, AtUnkeep
<1>8. /\ Live(c) /\ state[c] = "Idle" /\ ~pipe[c] /\ Linked(c)
      /\ Requested(c) = 0 /\ At(c, WriteResults) = 0 /\ Waiting(c, WriteResults) = 0 /\ node[c] # "write"
      /\ At(c, AtUnkeep) = 0 /\ At(c, AtClosed) = At(c, PollHands) /\ At(c, Locking) = 0
  <2>1. Live(c)
    BY <1>3, <1>7 DEF Known, Sized, Conn, Counts, Live
  <2>2. state[c] = "Idle"
    BY <1>3, <1>7, <2>1 DEF Known, Sized, Conn, Replying
  <2>3. ~pipe[c]
    BY <1>3, <1>7, <2>1, <2>2 DEF Known, Sized, Conn, Watching, Listed
  <2>4. Linked(c)
    BY <1>3, <1>7, <2>1, <2>2, <2>3 DEF Known, Sized, Conn, Replying
  <2>5. Requested(c) = 0
    BY <1>3, <2>2 DEF Known, Conn, Watching, Single
  <2>6. At(c, WriteResults) = 0
    BY <1>3, <1>7, <2>1, <2>2, <2>3, <2>4, <2>5 DEF Known, Sized, Conn, Replying
  <2>7. Waiting(c, WriteResults) = 0
    BY <1>3, <1>7, <2>1, <2>2, <2>3, <2>4, <2>5, <2>6 DEF Known, Sized, Conn, Replying, Single, Poll, Bit
  <2>8. node[c] # "write"
    BY <1>3, <1>7, <2>1, <2>2, <2>3, <2>4, <2>5, <2>6, <2>7 DEF Known, Sized, Conn, Replying
  <2>9. At(c, AtUnkeep) = 0
    BY <1>3, <1>7, <2>1, <2>2, <2>3, <2>4, <2>5, <2>6, <2>7, <2>8 DEF Known, Sized, Conn, Replying
  <2>10. At(c, AtClosed) = At(c, PollHands)
    BY <1>3, <1>7, <2>1, <2>2, <2>3, <2>4, <2>5, <2>6, <2>7, <2>8, <2>9, PartsAll DEF Known, Sized, Conn, Parts
  <2>11. At(c, Locking) = 0
    BY <1>3, <1>7, <2>1, <2>2, <2>3, <2>4, <2>5, <2>6, <2>7, <2>8, <2>9, <2>10, Unlocked DEF Known, Sized, Conn
  <2> QED
    BY <2>1, <2>2, <2>3, <2>4, <2>5, <2>6, <2>7, <2>8, <2>9, <2>10, <2>11
<1>9. /\ Poll(c)' = Poll(c) /\ Requested(c)' = Requested(c) /\ Begun(c)' = Begun(c) + 1 /\ Arrived(c)' = Arrived(c)
      /\ (Live(c)' <=> Live(c))
  <2>1. Requested(c)' = Requested(c) /\ Arrived(c)' = Arrived(c) /\ (Live(c)' <=> Live(c))
    BY <1>3, <1>5, <1>6, <1>7, <1>8 DEF Requested, Arrived, Live, Known, Sized
  <2>2. Poll(c)' = Poll(c)
    BY <1>3, <1>5, <1>6, <1>7, <1>8, <2>1 DEF Poll, Bit, Known, Sized, Linked
  <2>3. Begun(c)' = Begun(c) + 1
    BY <1>3, <1>5, <1>6, <1>7, <1>8, <2>2 DEF Begun, Bit, Known, Sized, Linked
  <2> QED
    BY <2>1, <2>2, <2>3
<1>10. Counts(c)'
  BY <1>3, <1>5, <1>7, <1>8, <1>9 DEF Known, Sized, Conn, Counts, Bit
<1>11. Single(c)'
  BY <1>3, <1>5, <1>7, <1>8, <1>9 DEF Known, Sized, Conn, Single
<1>12. Watching(c)'
  BY <1>3, <1>5, <1>7, <1>8, <1>9 DEF Known, Sized, Conn, Watching, Linked
<1>13. Replying(c)'
  BY <1>3, <1>5, <1>6, <1>7, <1>8, <1>9 DEF Known, Sized, Conn, Replying, Linked
<1>14. Locked(c)'
  BY <1>1, <1>2, <1>3, <1>5, LockMoves DEF Locking, Keeping
<1>15. Listed(c)'
  BY <1>3, <1>5, <1>7, <1>8, <1>9 DEF Known, Sized, Conn, Listed, Linked
<1>16. Heard(c)'
  BY <1>3, <1>5, <1>8 DEF Known, Conn, Heard, Unanswered, Replying, Bit
<1>17. TypeOK'
  <2>1. pc' \in [Threads -> OwnerPCs \cup HandlerPCs] /\ conn' \in [Threads -> Conns \cup {NoConn}]
    BY <1>2 DEF SInv, TypeOK, Moves, HandlerPCs, Results
  <2>2. state' \in [Conns -> States]
    BY <1>1, <1>3, <1>4, SetIn DEF SInv, TypeOK, States
  <2>3. node' \in [Conns -> {"none", "read", "write"}]
    BY <1>1, <1>3, <1>4, SetIn DEF SInv, TypeOK, States
  <2>4. (pipe[c] \/ node[c] # "none") \in BOOLEAN
    OBVIOUS
  <2>5. pipe' \in [Conns -> BOOLEAN]
    BY <1>4, <2>4, SetIn DEF SInv, TypeOK
  <2>6. idle' \subseteq Conns
    BY <1>1, <1>4 DEF SInv, TypeOK
  <2> QED
    BY <2>1, <2>2, <2>3, <2>5, <2>6, <1>4 DEF SInv, TypeOK, Quiet
<1>18. Conn(c)'
  BY <1>10, <1>11, <1>12, <1>13, <1>14, <1>15, <1>16 DEF Conn
<1>19. Stays(c)
  BY <1>3, <1>5, <1>8, <1>9 DEF Stays, Known
<1>20. IsInjective(keep_alive_list')
  BY <1>4 DEF SInv, Draining
<1> QED
  BY <1>1, <1>2, <1>4, <1>5, <1>17, <1>18, <1>19, <1>20, ThreadStep, CommAssumption DEF HandlerPCs, Results, Counted, Ending

\* The response is out and the connection is kept alive ...
LEMMA KeepAlive ==
  ASSUME SInv, NEW t \in Handlers, Keep(t), UNCHANGED lifeVars, listening
  PROVE  SInv'
<1>1. PICK c \in Conns : c = conn[t]
  BY DEF Keep, Goto, SInv, Placed, TypeOK, Threads, Ending
<1>2. \/ pc[t] = "KeepReplied" /\ Moves(t, "Replied", c)
      \/ pc[t] = "KeepWritten" /\ Moves(t, "EndSession", c)
  BY <1>1 DEF Keep, Goto, Moves, SInv, TypeOK, Threads
<1>3. Known(c) /\ smutex = NoThread
  BY <1>1, KnownAll DEF Keep, Goto
<1>4. /\ Quiet /\ UNCHANGED listening /\ UNCHANGED <<victim, idle, premature, eref, tref, node, pipe, reading, unread, sent, answered, queue>>
      /\ state' = Set(state, c, "KeepAlive") /\ tmutex' = Set(tmutex, c, NoThread)
      /\ keep_alive_list' = <<c>> \o keep_alive_list
  BY <1>1, <1>2 DEF Keep, serviceVars, drainVars, entryVars, pollVars, peerVars, lifeVars, Quiet, Goto, KeepOrClose
<1>list. /\ keep_alive_list' \in Seq(Conns) /\ IsInjective(keep_alive_list')
         /\ \A e : Contains(keep_alive_list', e) <=> e = c \/ Contains(keep_alive_list, e)
  <2>1. At(c, Keeping) > 0
    BY <1>1, <1>2, Numbers DEF SInv, Keeping
  <2>2. ~Contains(keep_alive_list, c)
    BY <1>3, <2>1 DEF Known, Sized, Conn, Replying, Listed
  <2> QED
    BY <1>4, <2>2, Added DEF SInv, TypeOK, Draining
<1>5. /\ Touches(c) /\ UNCHANGED <<victim, idle, premature, eref, tref, node, pipe, reading, unread, sent, answered, queue>>
      /\ state'[c] = "KeepAlive" /\ tmutex'[c] = NoThread /\ Contains(keep_alive_list', c)
  BY <1>4, <1>list DEF Set, SInv, TypeOK, Touches, Same, Quiet
<1>6. \A K : Waiting(c, K)' = Waiting(c, K)
  BY <1>4, SameWaiting
<1>7. /\ At(c, Holding)' = At(c, Holding) /\ At(c, Twice)' = At(c, Twice)
      /\ At(c, InSession)' = At(c, InSession) /\ At(c, PollHands)' = At(c, PollHands)
      /\ At(c, AtRequest)' = At(c, AtRequest) /\ At(c, Arriving)' = At(c, Arriving)
      /\ At(c, AtClosed)' = At(c, AtClosed) /\ At(c, WriteResults)' = At(c, WriteResults)
      /\ At(c, Keeping)' = At(c, Keeping) - 1 /\ At(c, AtReply)' = At(c, AtReply)
      /\ At(c, AtUnkeep)' = At(c, AtUnkeep) /\ At(c, Locking)' = At(c, Locking) - 1
      /\ At(c, Holding) > 0 /\ At(c, InSession) > 0 /\ At(c, Keeping) > 0 /\ At(c, Locking) > 0
  <2>1. CASE pc[t] = "KeepReplied"
    <3>1. ASSUME NEW K PROVE At(c, K)' = At(c, K) - (IF "KeepReplied" \in K THEN 1 ELSE 0) + (IF "Replied" \in K THEN 1 ELSE 0)
      BY <1>1, <1>2, <2>1, MovesAt DEF SInv
    <3>2. ASSUME NEW K, "KeepReplied" \in K PROVE At(c, K) > 0
      BY <1>1, <2>1, <3>2, Numbers DEF SInv
    <3> QED
      BY <1>3, <3>1, <3>2 DEF Known, Sized, Holding, Twice, InSession, PollHands, PollResults, Arriving, Counted,
                              WriteResults, Keeping, Locking, AtRequest, AtClosed, AtReply, AtUnkeep
  <2>2. CASE pc[t] = "KeepWritten"
    <3>1. ASSUME NEW K PROVE At(c, K)' = At(c, K) - (IF "KeepWritten" \in K THEN 1 ELSE 0) + (IF "EndSession" \in K THEN 1 ELSE 0)
      BY <1>1, <1>2, <2>2, MovesAt DEF SInv
    <3>2. ASSUME NEW K, "KeepWritten" \in K PROVE At(c, K) > 0
      BY <1>1, <2>2, <3>2, Numbers DEF SInv
    <3> QED
      BY <1>3, <3>1, <3>2 DEF Known, Sized, Holding, Twice, InSession, PollHands, PollResults, Arriving, Counted,
                              WriteResults, Keeping, Locking, AtRequest, AtClosed, AtReply, AtUnkeep
  <2> QED
    BY <1>2, <2>1, <2>2
<1>8. /\ Live(c) /\ state[c] = "Idle" /\ ~pipe[c] /\ Linked(c)
      /\ Requested(c) = 0 /\ At(c, WriteResults) = 0 /\ Waiting(c, WriteResults) = 0 /\ node[c] # "write"
      /\ At(c, Keeping) = 1 /\ victim # c
  <2>1. Live(c)
    BY <1>3, <1>7 DEF Known, Sized, Conn, Counts, Live
  <2>2. state[c] = "Idle"
    BY <1>3, <1>7, <2>1 DEF Known, Sized, Conn, Replying
  <2>3. ~pipe[c]
    BY <1>3, <1>7, <2>1, <2>2 DEF Known, Sized, Conn, Watching, Listed
  <2>4. Linked(c)
    BY <1>3, <1>7, <2>1, <2>2, <2>3 DEF Known, Sized, Conn, Replying
  <2>5. Requested(c) = 0
    BY <1>3, <2>2 DEF Known, Conn, Watching, Single
  <2>6. At(c, WriteResults) = 0
    BY <1>3, <1>7, <2>1, <2>2, <2>3, <2>4, <2>5 DEF Known, Sized, Conn, Replying
  <2>7. Waiting(c, WriteResults) = 0
    BY <1>3, <1>7, <2>1, <2>2, <2>3, <2>4, <2>5, <2>6 DEF Known, Sized, Conn, Replying, Single, Poll, Bit
  <2>8. node[c] # "write"
    BY <1>3, <1>7, <2>1, <2>2, <2>3, <2>4, <2>5, <2>6, <2>7 DEF Known, Sized, Conn, Replying
  <2>9. At(c, Keeping) = 1
    BY <1>3, <1>7, <2>1, <2>2, <2>3, <2>4, <2>5, <2>6, <2>7, <2>8 DEF Known, Sized, Conn, Replying
  <2>10. victim # c
    BY <1>3, <1>7, <2>1, <2>2, <2>3, <2>4, <2>5, <2>6, <2>7, <2>8, <2>9 DEF Known, Sized, Conn, Listed
  <2> QED
    BY <2>1, <2>2, <2>3, <2>4, <2>5, <2>6, <2>7, <2>8, <2>9, <2>10
<1>9. /\ Poll(c)' = Poll(c) /\ Requested(c)' = Requested(c) /\ Begun(c)' = Begun(c) /\ Arrived(c)' = Arrived(c)
      /\ (Live(c)' <=> Live(c))
  <2>1. Requested(c)' = Requested(c) /\ Arrived(c)' = Arrived(c) /\ (Live(c)' <=> Live(c))
    BY <1>3, <1>5, <1>6, <1>7, <1>8 DEF Requested, Arrived, Live, Known, Sized
  <2>2. Poll(c)' = Poll(c)
    BY <1>3, <1>5, <1>6, <1>7, <1>8, <2>1 DEF Poll, Bit, Known, Sized
  <2>3. Begun(c)' = Begun(c)
    BY <1>3, <1>5, <1>6, <1>7, <1>8, <2>2 DEF Begun, Bit, Known, Sized
  <2> QED
    BY <2>1, <2>2, <2>3
<1>10. Counts(c)'
  BY <1>3, <1>5, <1>7, <1>8, <1>9 DEF Known, Sized, Conn, Counts, Bit
<1>11. Single(c)'
  BY <1>3, <1>5, <1>7, <1>8, <1>9 DEF Known, Sized, Conn, Single
<1>12. Watching(c)'
  BY <1>3, <1>5, <1>7, <1>8, <1>9 DEF Known, Sized, Conn, Watching, Linked
<1>13. Replying(c)'
  BY <1>3, <1>5, <1>6, <1>7, <1>8, <1>9 DEF Known, Sized, Conn, Replying, Linked
<1>14. Locked(c)'
  BY <1>1, <1>2, <1>3, <1>5, LockMoves DEF Locking, Keeping
<1>15. Listed(c)'
  BY <1>3, <1>5, <1>7, <1>8, <1>9 DEF Known, Sized, Conn, Listed, Linked
<1>16. Heard(c)'
  BY <1>3, <1>5, <1>8 DEF Known, Conn, Heard, Unanswered, Replying, Bit
<1>17. TypeOK'
  <2>1. pc' \in [Threads -> OwnerPCs \cup HandlerPCs] /\ conn' \in [Threads -> Conns \cup {NoConn}]
    <3>1. PICK b \in HandlerPCs : Moves(t, b, c)
      BY <1>2 DEF HandlerPCs
    <3> QED
      BY <3>1, MovesTypes DEF SInv
  <2>2. state' \in [Conns -> States]
    BY <1>1, <1>3, <1>4, SetIn DEF SInv, TypeOK, States
  <2>3. tmutex' \in [Conns -> Handlers \cup {NoThread}]
    BY <1>1, <1>3, <1>4, SetIn DEF SInv, TypeOK, States
  <2> QED
    BY <2>1, <2>2, <2>3, <1>list, <1>4 DEF SInv, TypeOK, Quiet
<1>18. Conn(c)'
  BY <1>10, <1>11, <1>12, <1>13, <1>14, <1>15, <1>16 DEF Conn
<1>19. Stays(c)
  BY <1>3, <1>5, <1>8, <1>9 DEF Stays, Known
<1>20. IsInjective(keep_alive_list')
  BY <1>list
<1>21. CASE pc[t] = "KeepReplied"
  BY <1>1, <1>2, <1>4, <1>5, <1>17, <1>18, <1>19, <1>20, <1>21, ThreadStep, CommAssumption DEF HandlerPCs, Results, Counted, Ending
<1>22. CASE pc[t] = "KeepWritten"
  BY <1>1, <1>2, <1>4, <1>5, <1>17, <1>18, <1>19, <1>20, <1>22, ThreadStep, CommAssumption DEF HandlerPCs, Results, Counted, Ending
<1> QED
  BY <1>2, <1>21, <1>22

\* ... or, when the server does not listen any more, closed.
LEMMA KeepClosed ==
  ASSUME SInv, NEW t \in Handlers, Keep(t), UNCHANGED lifeVars, ~listening
  PROVE  SInv'
<1>1. PICK c \in Conns : c = conn[t]
  BY DEF Keep, Goto, SInv, Placed, TypeOK, Threads, Ending
<1>2. \/ pc[t] = "KeepReplied" /\ Moves(t, "Replied", c)
      \/ pc[t] = "KeepWritten" /\ Moves(t, "EndSession", c)
  BY <1>1 DEF Keep, Goto, Moves, SInv, TypeOK, Threads
<1>3. Known(c) /\ smutex = NoThread
  BY <1>1, KnownAll DEF Keep, Goto
<1>4. /\ Quiet /\ UNCHANGED listening /\ UNCHANGED <<victim, keep_alive_list, idle, premature, eref, tref, reading, unread, sent, answered, queue>>
      /\ state' = Set(state, c, "Closing") /\ tmutex' = Set(tmutex, c, NoThread)
      /\ node' = Set(node, c, "none") /\ pipe' = Set(pipe, c, (pipe[c] \/ node[c] # "none"))
  BY <1>1, <1>2 DEF Keep, serviceVars, drainVars, entryVars, pollVars, peerVars, lifeVars, Quiet, Goto, KeepOrClose, NodeDel
<1>5. /\ Touches(c) /\ UNCHANGED <<victim, keep_alive_list, idle, premature, eref, tref, reading, unread, sent, answered, queue>>
      /\ state'[c] = "Closing" /\ tmutex'[c] = NoThread /\ node'[c] = "none" /\ (pipe'[c] <=> pipe[c] \/ node[c] # "none")
  BY <1>4 DEF Set, SInv, TypeOK, Touches, Same, Quiet
<1>6. \A K : Waiting(c, K)' = Waiting(c, K)
  BY <1>4, SameWaiting
<1>7. /\ At(c, Holding)' = At(c, Holding) /\ At(c, Twice)' = At(c, Twice)
      /\ At(c, InSession)' = At(c, InSession) /\ At(c, PollHands)' = At(c, PollHands)
      /\ At(c, AtRequest)' = At(c, AtRequest) /\ At(c, Arriving)' = At(c, Arriving)
      /\ At(c, AtClosed)' = At(c, AtClosed) /\ At(c, WriteResults)' = At(c, WriteResults)
      /\ At(c, Keeping)' = At(c, Keeping) - 1 /\ At(c, AtReply)' = At(c, AtReply)
      /\ At(c, AtUnkeep)' = At(c, AtUnkeep) /\ At(c, Locking)' = At(c, Locking) - 1
      /\ At(c, Holding) > 0 /\ At(c, InSession) > 0 /\ At(c, Keeping) > 0 /\ At(c, Locking) > 0
  <2>1. CASE pc[t] = "KeepReplied"
    <3>1. ASSUME NEW K PROVE At(c, K)' = At(c, K) - (IF "KeepReplied" \in K THEN 1 ELSE 0) + (IF "Replied" \in K THEN 1 ELSE 0)
      BY <1>1, <1>2, <2>1, MovesAt DEF SInv
    <3>2. ASSUME NEW K, "KeepReplied" \in K PROVE At(c, K) > 0
      BY <1>1, <2>1, <3>2, Numbers DEF SInv
    <3> QED
      BY <1>3, <3>1, <3>2 DEF Known, Sized, Holding, Twice, InSession, PollHands, PollResults, Arriving, Counted,
                              WriteResults, Keeping, Locking, AtRequest, AtClosed, AtReply, AtUnkeep
  <2>2. CASE pc[t] = "KeepWritten"
    <3>1. ASSUME NEW K PROVE At(c, K)' = At(c, K) - (IF "KeepWritten" \in K THEN 1 ELSE 0) + (IF "EndSession" \in K THEN 1 ELSE 0)
      BY <1>1, <1>2, <2>2, MovesAt DEF SInv
    <3>2. ASSUME NEW K, "KeepWritten" \in K PROVE At(c, K) > 0
      BY <1>1, <2>2, <3>2, Numbers DEF SInv
    <3> QED
      BY <1>3, <3>1, <3>2 DEF Known, Sized, Holding, Twice, InSession, PollHands, PollResults, Arriving, Counted,
                              WriteResults, Keeping, Locking, AtRequest, AtClosed, AtReply, AtUnkeep
  <2> QED
    BY <1>2, <2>1, <2>2
<1>8. /\ Live(c) /\ state[c] = "Idle" /\ ~pipe[c] /\ Linked(c)
      /\ Requested(c) = 0 /\ At(c, WriteResults) = 0 /\ Waiting(c, WriteResults) = 0 /\ node[c] # "write"
      /\ At(c, Keeping) = 1 /\ victim # c
  <2>1. Live(c)
    BY <1>3, <1>7 DEF Known, Sized, Conn, Counts, Live
  <2>2. state[c] = "Idle"
    BY <1>3, <1>7, <2>1 DEF Known, Sized, Conn, Replying
  <2>3. ~pipe[c]
    BY <1>3, <1>7, <2>1, <2>2 DEF Known, Sized, Conn, Watching, Listed
  <2>4. Linked(c)
    BY <1>3, <1>7, <2>1, <2>2, <2>3 DEF Known, Sized, Conn, Replying
  <2>5. Requested(c) = 0
    BY <1>3, <2>2 DEF Known, Conn, Watching, Single
  <2>6. At(c, WriteResults) = 0
    BY <1>3, <1>7, <2>1, <2>2, <2>3, <2>4, <2>5 DEF Known, Sized, Conn, Replying
  <2>7. Waiting(c, WriteResults) = 0
    BY <1>3, <1>7, <2>1, <2>2, <2>3, <2>4, <2>5, <2>6 DEF Known, Sized, Conn, Replying, Single, Poll, Bit
  <2>8. node[c] # "write"
    BY <1>3, <1>7, <2>1, <2>2, <2>3, <2>4, <2>5, <2>6, <2>7 DEF Known, Sized, Conn, Replying
  <2>9. At(c, Keeping) = 1
    BY <1>3, <1>7, <2>1, <2>2, <2>3, <2>4, <2>5, <2>6, <2>7, <2>8 DEF Known, Sized, Conn, Replying
  <2>10. victim # c
    BY <1>3, <1>7, <2>1, <2>2, <2>3, <2>4, <2>5, <2>6, <2>7, <2>8, <2>9 DEF Known, Sized, Conn, Listed
  <2> QED
    BY <2>1, <2>2, <2>3, <2>4, <2>5, <2>6, <2>7, <2>8, <2>9, <2>10
<1>9. /\ Poll(c)' = Poll(c) /\ Requested(c)' = Requested(c) /\ Begun(c)' = Begun(c) /\ Arrived(c)' = Arrived(c)
      /\ (Live(c)' <=> Live(c))
  <2>1. Requested(c)' = Requested(c) /\ Arrived(c)' = Arrived(c) /\ (Live(c)' <=> Live(c))
    BY <1>3, <1>5, <1>6, <1>7, <1>8 DEF Requested, Arrived, Live, Known, Sized
  <2>2. Poll(c)' = Poll(c)
    BY <1>3, <1>5, <1>6, <1>7, <1>8, <2>1 DEF Poll, Bit, Known, Sized
  <2>3. Begun(c)' = Begun(c)
    BY <1>3, <1>5, <1>6, <1>7, <1>8, <2>2 DEF Begun, Bit, Known, Sized
  <2> QED
    BY <2>1, <2>2, <2>3
<1>10. Counts(c)'
  BY <1>3, <1>5, <1>7, <1>8, <1>9 DEF Known, Sized, Conn, Counts, Bit
<1>11. Single(c)'
  BY <1>3, <1>5, <1>7, <1>8, <1>9 DEF Known, Sized, Conn, Single
<1>12. Watching(c)'
  BY <1>3, <1>5, <1>7, <1>8, <1>9 DEF Known, Sized, Conn, Watching, Linked
<1>13. Replying(c)'
  BY <1>3, <1>5, <1>6, <1>7, <1>8, <1>9 DEF Known, Sized, Conn, Replying, Linked
<1>14. Locked(c)'
  BY <1>1, <1>2, <1>3, <1>5, LockMoves DEF Locking, Keeping
<1>15. Listed(c)'
  BY <1>3, <1>5, <1>7, <1>8, <1>9 DEF Known, Sized, Conn, Listed, Linked
<1>16. Heard(c)'
  BY <1>3, <1>5, <1>8 DEF Known, Conn, Heard, Unanswered, Replying, Bit
<1>17. TypeOK'
  <2>1. pc' \in [Threads -> OwnerPCs \cup HandlerPCs] /\ conn' \in [Threads -> Conns \cup {NoConn}]
    <3>1. PICK b \in HandlerPCs : Moves(t, b, c)
      BY <1>2 DEF HandlerPCs
    <3> QED
      BY <3>1, MovesTypes DEF SInv
  <2>2. state' \in [Conns -> States]
    BY <1>1, <1>3, <1>4, SetIn DEF SInv, TypeOK, States
  <2>3. tmutex' \in [Conns -> Handlers \cup {NoThread}]
    BY <1>1, <1>3, <1>4, SetIn DEF SInv, TypeOK, States
  <2>4. node' \in [Conns -> {"none", "read", "write"}]
    BY <1>1, <1>3, <1>4, SetIn DEF SInv, TypeOK, States
  <2>5. (pipe[c] \/ node[c] # "none") \in BOOLEAN
    OBVIOUS
  <2>6. pipe' \in [Conns -> BOOLEAN]
    BY <1>4, <2>5, SetIn DEF SInv, TypeOK
  <2> QED
    BY <2>1, <2>2, <2>3, <2>4, <2>6, <1>4 DEF SInv, TypeOK, Quiet
<1>18. Conn(c)'
  BY <1>10, <1>11, <1>12, <1>13, <1>14, <1>15, <1>16 DEF Conn
<1>19. Stays(c)
  BY <1>3, <1>5, <1>8, <1>9 DEF Stays, Known
<1>20. IsInjective(keep_alive_list')
  BY <1>4 DEF SInv, Draining
<1>21. CASE pc[t] = "KeepReplied"
  BY <1>1, <1>2, <1>4, <1>5, <1>17, <1>18, <1>19, <1>20, <1>21, ThreadStep, CommAssumption DEF HandlerPCs, Results, Counted, Ending
<1>22. CASE pc[t] = "KeepWritten"
  BY <1>1, <1>2, <1>4, <1>5, <1>17, <1>18, <1>19, <1>20, <1>22, ThreadStep, CommAssumption DEF HandlerPCs, Results, Counted, Ending
<1> QED
  BY <1>2, <1>21, <1>22

\* The rest of the response is out and the socket is watched again ...
LEMMA WrittenWatched ==
  ASSUME SInv, NEW t \in Handlers, Written(t), UNCHANGED lifeVars, pc'[t] = "KeepWritten"
  PROVE  SInv'
<1>1. PICK c \in Conns : c = conn[t]
  BY DEF Written, Goto, SInv, Placed, TypeOK, Threads, Ending
<1>2. pc[t] = "Written" /\ Moves(t, "KeepWritten", c)
  BY <1>1 DEF Written, Goto, Moves, SInv, TypeOK, Threads
<1>3. Known(c) /\ tmutex[c] = NoThread
  BY <1>1, KnownAll DEF Written, Goto
<1>4. /\ Quiet /\ UNCHANGED listening /\ UNCHANGED <<victim, keep_alive_list, idle, premature, state, tref, pipe, reading, unread, sent, answered, queue>>
      /\ tmutex' = Set(tmutex, c, t) /\ eref' = Set(eref, c, eref[c] + 1)
      /\ node' = Set(node, c, "read")
  BY <1>1, <1>2 DEF Written, serviceVars, drainVars, entryVars, pollVars, peerVars, lifeVars, Quiet, Goto, SInv, TypeOK, Threads
<1>5. /\ Touches(c) /\ UNCHANGED <<victim, keep_alive_list, idle, premature, state, tref, pipe, reading, unread, sent, answered, queue>>
      /\ tmutex'[c] = t /\ eref'[c] = eref[c] + 1 /\ node'[c] = "read"
  BY <1>4 DEF Set, SInv, TypeOK, Touches, Same, Quiet
<1>6. \A K : Waiting(c, K)' = Waiting(c, K)
  BY <1>4, SameWaiting
<1>7. /\ At(c, Holding)' = At(c, Holding) /\ At(c, Twice)' = At(c, Twice)
      /\ At(c, InSession)' = At(c, InSession) /\ At(c, PollHands)' = At(c, PollHands) - 1
      /\ At(c, AtRequest)' = At(c, AtRequest) /\ At(c, Arriving)' = At(c, Arriving)
      /\ At(c, AtClosed)' = At(c, AtClosed) /\ At(c, WriteResults)' = At(c, WriteResults) - 1
      /\ At(c, Keeping)' = At(c, Keeping) + 1 /\ At(c, AtReply)' = At(c, AtReply)
      /\ At(c, AtUnkeep)' = At(c, AtUnkeep) /\ At(c, Locking)' = At(c, Locking) + 1
      /\ At(c, Holding) > 0 /\ At(c, InSession) > 0 /\ At(c, PollHands) > 0 /\ At(c, WriteResults) > 0
  <2>1. ASSUME NEW K PROVE At(c, K)' = At(c, K) - (IF "Written" \in K THEN 1 ELSE 0) + (IF "KeepWritten" \in K THEN 1 ELSE 0)
    BY <1>1, <1>2, MovesAt DEF SInv
  <2>2. ASSUME NEW K, "Written" \in K PROVE At(c, K) > 0
    BY <1>1, <1>2, <2>2, Numbers DEF SInv
  <2> QED
    BY <1>3, <2>1, <2>2 DEF Known, Sized, Holding, Twice, InSession, PollHands, PollResults, Arriving, Counted,
                              WriteResults, Keeping, Locking, AtRequest, AtClosed, AtReply, AtUnkeep
<1>8. /\ Live(c) /\ state[c] = "Idle" /\ c \notin idle /\ node[c] = "none"
      /\ Waiting(c, WriteResults) = 0 /\ At(c, WriteResults) = 1 /\ At(c, Locking) = 0
  <2>1. Live(c)
    BY <1>3, <1>7 DEF Known, Sized, Conn, Counts, Live
  <2>2. state[c] = "Idle"
    BY <1>3, <1>7, <2>1 DEF Known, Sized, Conn, Replying
  <2>3. c \notin idle
    BY <1>3, <1>7, <2>1, <2>2 DEF Known, Sized, Conn, Replying
  <2>4. node[c] = "none"
    BY <1>3, <1>7, <2>1, <2>2, <2>3 DEF Known, Sized, Conn, Single, Poll, Bit
  <2>5. Waiting(c, WriteResults) = 0
    BY <1>3, <1>7, <2>1, <2>2, <2>3, <2>4 DEF Known, Sized, Conn, Replying, Single, Poll, Bit
  <2>6. At(c, WriteResults) = 1
    BY <1>3, <1>7, <2>1, <2>2, <2>3, <2>4, <2>5 DEF Known, Sized, Conn, Single
  <2>7. At(c, Locking) = 0
    BY <1>3, <1>7, <2>1, <2>2, <2>3, <2>4, <2>5, <2>6, Unlocked DEF Known, Sized, Conn
  <2> QED
    BY <2>1, <2>2, <2>3, <2>4, <2>5, <2>6, <2>7
<1>9. /\ Poll(c)' = Poll(c) + 1 /\ Requested(c)' = Requested(c) /\ Begun(c)' = Begun(c) /\ Arrived(c)' = Arrived(c)
      /\ (Live(c)' <=> Live(c))
  <2>1. Requested(c)' = Requested(c) /\ Arrived(c)' = Arrived(c) /\ (Live(c)' <=> Live(c))
    BY <1>3, <1>5, <1>6, <1>7, <1>8 DEF Requested, Arrived, Live, Known, Sized
  <2>2. Poll(c)' = Poll(c) + 1
    BY <1>3, <1>5, <1>6, <1>7, <1>8, <2>1 DEF Poll, Bit, Known, Sized
  <2>3. Begun(c)' = Begun(c)
    BY <1>3, <1>5, <1>6, <1>7, <1>8, <2>2 DEF Begun, Bit, Known, Sized
  <2> QED
    BY <2>1, <2>2, <2>3
<1>10. Counts(c)'
  BY <1>3, <1>5, <1>7, <1>8, <1>9 DEF Known, Sized, Conn, Counts, Bit
<1>11. Single(c)'
  BY <1>3, <1>5, <1>7, <1>8, <1>9 DEF Known, Sized, Conn, Single
<1>12. Watching(c)'
  BY <1>3, <1>5, <1>7, <1>8, <1>9 DEF Known, Sized, Conn, Watching, Linked
<1>13. Replying(c)'
  BY <1>3, <1>5, <1>6, <1>7, <1>8, <1>9 DEF Known, Sized, Conn, Replying, Linked, Single
<1>14. Locked(c)'
  BY <1>1, <1>2, <1>3, <1>5, LockMoves DEF Locking, Keeping
<1>15. Listed(c)'
  BY <1>3, <1>5, <1>7, <1>8, <1>9 DEF Known, Sized, Conn, Listed, Linked
<1>16. Heard(c)'
  BY <1>3, <1>5, <1>8 DEF Known, Conn, Heard, Unanswered, Replying, Bit
<1>17. TypeOK'
  <2>1. pc' \in [Threads -> OwnerPCs \cup HandlerPCs] /\ conn' \in [Threads -> Conns \cup {NoConn}]
    BY <1>2 DEF SInv, TypeOK, Moves, HandlerPCs, Results
  <2>2. tmutex' \in [Conns -> Handlers \cup {NoThread}]
    BY <1>1, <1>3, <1>4, SetIn DEF SInv, TypeOK, States
  <2>3. eref[c] + 1 \in Nat
    BY <1>3 DEF Known
  <2>4. eref' \in [Conns -> Nat]
    BY <1>4, <2>3, SetIn DEF SInv, TypeOK
  <2>5. node' \in [Conns -> {"none", "read", "write"}]
    BY <1>1, <1>3, <1>4, SetIn DEF SInv, TypeOK, States
  <2> QED
    BY <2>1, <2>2, <2>4, <2>5, <1>4 DEF SInv, TypeOK, Quiet
<1>18. Conn(c)'
  BY <1>10, <1>11, <1>12, <1>13, <1>14, <1>15, <1>16 DEF Conn
<1>19. Stays(c)
  BY <1>3, <1>5, <1>8, <1>9 DEF Stays, Known
<1>20. IsInjective(keep_alive_list')
  BY <1>4 DEF SInv, Draining
<1> QED
  BY <1>1, <1>2, <1>4, <1>5, <1>17, <1>18, <1>19, <1>20, ThreadStep, CommAssumption DEF HandlerPCs, Results, Counted, Ending

\* ... or the poller does not take it.
LEMMA WrittenUnwatched ==
  ASSUME SInv, NEW t \in Handlers, Written(t), UNCHANGED lifeVars, pc'[t] # "KeepWritten"
  PROVE  SInv'
<1>1. PICK c \in Conns : c = conn[t]
  BY DEF Written, Goto, SInv, Placed, TypeOK, Threads, Ending
<1>2. pc[t] = "Written" /\ Moves(t, "EndSession", c)
  BY <1>1 DEF Written, Goto, Moves, SInv, TypeOK, Threads
<1>3. Known(c) /\ tmutex[c] = NoThread
  BY <1>1, KnownAll DEF Written, Goto
<1>4. /\ Quiet /\ UNCHANGED listening /\ UNCHANGED <<victim, keep_alive_list, idle, premature, state, eref, tref, tmutex, node, pipe, reading, unread, sent, answered, queue>>
  BY <1>1, <1>2 DEF Written, serviceVars, drainVars, entryVars, pollVars, peerVars, lifeVars, Quiet, Goto, SInv, TypeOK, Threads
<1>5. /\ Touches(c) /\ UNCHANGED <<victim, keep_alive_list, idle, premature, state, eref, tref, tmutex, node, pipe, reading, unread, sent, answered, queue>>
  BY <1>4 DEF Set, SInv, TypeOK, Touches, Same, Quiet
<1>6. \A K : Waiting(c, K)' = Waiting(c, K)
  BY <1>4, SameWaiting
<1>7. /\ At(c, Holding)' = At(c, Holding) /\ At(c, Twice)' = At(c, Twice)
      /\ At(c, InSession)' = At(c, InSession) /\ At(c, PollHands)' = At(c, PollHands) - 1
      /\ At(c, AtRequest)' = At(c, AtRequest) /\ At(c, Arriving)' = At(c, Arriving)
      /\ At(c, AtClosed)' = At(c, AtClosed) /\ At(c, WriteResults)' = At(c, WriteResults) - 1
      /\ At(c, Keeping)' = At(c, Keeping) /\ At(c, AtReply)' = At(c, AtReply)
      /\ At(c, AtUnkeep)' = At(c, AtUnkeep) /\ At(c, Locking)' = At(c, Locking)
      /\ At(c, Holding) > 0 /\ At(c, InSession) > 0 /\ At(c, PollHands) > 0 /\ At(c, WriteResults) > 0
  <2>1. ASSUME NEW K PROVE At(c, K)' = At(c, K) - (IF "Written" \in K THEN 1 ELSE 0) + (IF "EndSession" \in K THEN 1 ELSE 0)
    BY <1>1, <1>2, MovesAt DEF SInv
  <2>2. ASSUME NEW K, "Written" \in K PROVE At(c, K) > 0
    BY <1>1, <1>2, <2>2, Numbers DEF SInv
  <2> QED
    BY <1>3, <2>1, <2>2 DEF Known, Sized, Holding, Twice, InSession, PollHands, PollResults, Arriving, Counted,
                              WriteResults, Keeping, Locking, AtRequest, AtClosed, AtReply, AtUnkeep
<1>8. /\ Live(c) /\ state[c] = "Idle" /\ c \notin idle /\ node[c] = "none"
      /\ Waiting(c, WriteResults) = 0 /\ At(c, WriteResults) = 1 /\ At(c, Locking) = 0
  <2>1. Live(c)
    BY <1>3, <1>7 DEF Known, Sized, Conn, Counts, Live
  <2>2. state[c] = "Idle"
    BY <1>3, <1>7, <2>1 DEF Known, Sized, Conn, Replying
  <2>3. c \notin idle
    BY <1>3, <1>7, <2>1, <2>2 DEF Known, Sized, Conn, Replying
  <2>4. node[c] = "none"
    BY <1>3, <1>7, <2>1, <2>2, <2>3 DEF Known, Sized, Conn, Single, Poll, Bit
  <2>5. Waiting(c, WriteResults) = 0
    BY <1>3, <1>7, <2>1, <2>2, <2>3, <2>4 DEF Known, Sized, Conn, Replying, Single, Poll, Bit
  <2>6. At(c, WriteResults) = 1
    BY <1>3, <1>7, <2>1, <2>2, <2>3, <2>4, <2>5 DEF Known, Sized, Conn, Single
  <2>7. At(c, Locking) = 0
    BY <1>3, <1>7, <2>1, <2>2, <2>3, <2>4, <2>5, <2>6, Unlocked DEF Known, Sized, Conn
  <2> QED
    BY <2>1, <2>2, <2>3, <2>4, <2>5, <2>6, <2>7
<1>9. /\ Poll(c)' = Poll(c) /\ Requested(c)' = Requested(c) /\ Begun(c)' = Begun(c) /\ Arrived(c)' = Arrived(c)
      /\ (Live(c)' <=> Live(c))
  <2>1. Requested(c)' = Requested(c) /\ Arrived(c)' = Arrived(c) /\ (Live(c)' <=> Live(c))
    BY <1>3, <1>5, <1>6, <1>7, <1>8 DEF Requested, Arrived, Live, Known, Sized
  <2>2. Poll(c)' = Poll(c)
    BY <1>3, <1>5, <1>6, <1>7, <1>8, <2>1 DEF Poll, Bit, Known, Sized
  <2>3. Begun(c)' = Begun(c)
    BY <1>3, <1>5, <1>6, <1>7, <1>8, <2>2 DEF Begun, Bit, Known, Sized
  <2> QED
    BY <2>1, <2>2, <2>3
<1>10. Counts(c)'
  BY <1>3, <1>5, <1>7, <1>8, <1>9 DEF Known, Sized, Conn, Counts, Bit
<1>11. Single(c)'
  BY <1>3, <1>5, <1>7, <1>8, <1>9 DEF Known, Sized, Conn, Single
<1>12. Watching(c)'
  BY <1>3, <1>5, <1>7, <1>8, <1>9 DEF Known, Sized, Conn, Watching, Linked
<1>13. Replying(c)'
  BY <1>3, <1>5, <1>6, <1>7, <1>8, <1>9 DEF Known, Sized, Conn, Replying, Linked
<1>14. Locked(c)'
  BY <1>1, <1>2, <1>3, <1>5, LockMoves DEF Locking, Keeping
<1>15. Listed(c)'
  BY <1>3, <1>5, <1>7, <1>8, <1>9 DEF Known, Sized, Conn, Listed, Linked
<1>16. Heard(c)'
  BY <1>3, <1>5, <1>8 DEF Known, Conn, Heard, Unanswered, Replying, Bit
<1>17. TypeOK'
  <2>1. pc' \in [Threads -> OwnerPCs \cup HandlerPCs] /\ conn' \in [Threads -> Conns \cup {NoConn}]
    BY <1>2 DEF SInv, TypeOK, Moves, HandlerPCs, Results
  <2> QED
    BY <2>1, <1>4 DEF SInv, TypeOK, Quiet
<1>18. Conn(c)'
  BY <1>10, <1>11, <1>12, <1>13, <1>14, <1>15, <1>16 DEF Conn
<1>19. Stays(c)
  BY <1>3, <1>5, <1>8, <1>9 DEF Stays, Known
<1>20. IsInjective(keep_alive_list')
  BY <1>4 DEF SInv, Draining
<1> QED
  BY <1>1, <1>2, <1>4, <1>5, <1>17, <1>18, <1>19, <1>20, ThreadStep, CommAssumption DEF HandlerPCs, Results, Counted, Ending

\* A connection leaves the list of those kept alive, unless drain was faster.
LEMMA UnkeepKeeps ==
  ASSUME SInv, NEW t \in Handlers, Unkeep(t), UNCHANGED lifeVars
  PROVE  SInv'
<1>1. PICK c \in Conns : c = conn[t]
  BY DEF Unkeep, Goto, SInv, Placed, TypeOK, Threads, Ending
<1>2. pc[t] = "Unkeep" /\ Moves(t, "Unref", c)
  BY <1>1 DEF Unkeep, Goto, Moves, SInv, TypeOK, Threads
<1>3. Known(c) /\ smutex = NoThread
  BY <1>1, KnownAll DEF Unkeep, Goto
<1>4. /\ Quiet /\ UNCHANGED listening /\ UNCHANGED <<victim, idle, premature, state, eref, tref, node, pipe, reading, unread, sent, answered, queue>>
      /\ tmutex' = Set(tmutex, c, NoThread) /\ keep_alive_list' = (IF state[c] = "KeepAlive" THEN RemoveFirst(keep_alive_list, c) ELSE keep_alive_list)
  BY <1>1, <1>2 DEF Unkeep, serviceVars, drainVars, entryVars, pollVars, peerVars, lifeVars, Quiet, Goto
<1>list. /\ keep_alive_list' \in Seq(Conns) /\ IsInjective(keep_alive_list')
         /\ \A e : Contains(keep_alive_list', e) <=> e # c /\ Contains(keep_alive_list, e)
  <2>1. CASE state[c] = "KeepAlive"
    BY <1>4, <2>1, Unlinked DEF SInv, TypeOK, Draining
  <2>2. CASE state[c] # "KeepAlive"
    BY <1>3, <1>4, <2>2 DEF Known, Conn, Listed, SInv, TypeOK, Draining
  <2> QED
    BY <2>1, <2>2
<1>5. /\ Touches(c) /\ UNCHANGED <<victim, idle, premature, state, eref, tref, node, pipe, reading, unread, sent, answered, queue>>
      /\ tmutex'[c] = NoThread /\ ~Contains(keep_alive_list', c)
  BY <1>4, <1>list DEF Set, SInv, TypeOK, Touches, Same, Quiet
<1>6. \A K : Waiting(c, K)' = Waiting(c, K)
  BY <1>4, SameWaiting
<1>7. /\ At(c, Holding)' = At(c, Holding) /\ At(c, Twice)' = At(c, Twice)
      /\ At(c, InSession)' = At(c, InSession) /\ At(c, PollHands)' = At(c, PollHands) - 1
      /\ At(c, AtRequest)' = At(c, AtRequest) /\ At(c, Arriving)' = At(c, Arriving)
      /\ At(c, AtClosed)' = At(c, AtClosed) /\ At(c, WriteResults)' = At(c, WriteResults)
      /\ At(c, Keeping)' = At(c, Keeping) /\ At(c, AtReply)' = At(c, AtReply)
      /\ At(c, AtUnkeep)' = At(c, AtUnkeep) - 1 /\ At(c, Locking)' = At(c, Locking) - 1
      /\ At(c, Holding) > 0 /\ At(c, PollHands) > 0 /\ At(c, AtUnkeep) > 0 /\ At(c, Locking) > 0
  <2>1. ASSUME NEW K PROVE At(c, K)' = At(c, K) - (IF "Unkeep" \in K THEN 1 ELSE 0) + (IF "Unref" \in K THEN 1 ELSE 0)
    BY <1>1, <1>2, MovesAt DEF SInv
  <2>2. ASSUME NEW K, "Unkeep" \in K PROVE At(c, K) > 0
    BY <1>1, <1>2, <2>2, Numbers DEF SInv
  <2> QED
    BY <1>3, <2>1, <2>2 DEF Known, Sized, Holding, Twice, InSession, PollHands, PollResults, Arriving, Counted,
                              WriteResults, Keeping, Locking, AtRequest, AtClosed, AtReply, AtUnkeep
<1>8. /\ Live(c) /\ victim # c /\ state[c] \in {"KeepAlive", "Closing"}
  <2>1. Live(c)
    BY <1>3, <1>7 DEF Known, Sized, Conn, Counts, Live
  <2>2. victim # c
    BY <1>3, <1>7, <2>1, CommAssumption DEF Known, Sized, Conn, SInv, Draining
  <2>3. state[c] \in {"KeepAlive", "Closing"}
    BY <1>3, <1>7, <2>1, <2>2 DEF Known, Sized, Conn, Replying
  <2> QED
    BY <2>1, <2>2, <2>3
<1>9. /\ Poll(c)' = Poll(c) /\ Requested(c)' = Requested(c) /\ Begun(c)' = Begun(c) /\ Arrived(c)' = Arrived(c)
      /\ (Live(c)' <=> Live(c))
  <2>1. Requested(c)' = Requested(c) /\ Arrived(c)' = Arrived(c) /\ (Live(c)' <=> Live(c))
    BY <1>3, <1>5, <1>6, <1>7, <1>8 DEF Requested, Arrived, Live, Known, Sized
  <2>2. Poll(c)' = Poll(c)
    BY <1>3, <1>5, <1>6, <1>7, <1>8, <2>1 DEF Poll, Bit, Known, Sized
  <2>3. Begun(c)' = Begun(c)
    BY <1>3, <1>5, <1>6, <1>7, <1>8, <2>2 DEF Begun, Bit, Known, Sized
  <2> QED
    BY <2>1, <2>2, <2>3
<1>10. Counts(c)'
  BY <1>3, <1>5, <1>7, <1>8, <1>9 DEF Known, Sized, Conn, Counts, Bit
<1>11. Single(c)'
  BY <1>3, <1>5, <1>7, <1>8, <1>9 DEF Known, Sized, Conn, Single
<1>12. Watching(c)'
  BY <1>3, <1>5, <1>7, <1>8, <1>9 DEF Known, Sized, Conn, Watching, Linked
<1>13. Replying(c)'
  BY <1>3, <1>5, <1>6, <1>7, <1>8, <1>9 DEF Known, Sized, Conn, Replying, Linked
<1>14. Locked(c)'
  BY <1>1, <1>2, <1>3, <1>5, LockMoves DEF Locking, Keeping
<1>15. Listed(c)'
  BY <1>3, <1>5, <1>7, <1>8, <1>9 DEF Known, Sized, Conn, Listed, Linked
<1>16. Heard(c)'
  BY <1>3, <1>5, <1>8 DEF Known, Conn, Heard, Unanswered, Replying, Bit
<1>17. TypeOK'
  <2>1. pc' \in [Threads -> OwnerPCs \cup HandlerPCs] /\ conn' \in [Threads -> Conns \cup {NoConn}]
    BY <1>2 DEF SInv, TypeOK, Moves, HandlerPCs, Results
  <2>2. tmutex' \in [Conns -> Handlers \cup {NoThread}]
    BY <1>1, <1>3, <1>4, SetIn DEF SInv, TypeOK, States
  <2> QED
    BY <2>1, <2>2, <1>list, <1>4 DEF SInv, TypeOK, Quiet
<1>18. Conn(c)'
  BY <1>10, <1>11, <1>12, <1>13, <1>14, <1>15, <1>16 DEF Conn
<1>19. Stays(c)
  BY <1>3, <1>5, <1>8, <1>9 DEF Stays, Known
<1>20. IsInjective(keep_alive_list')
  BY <1>list
<1> QED
  BY <1>1, <1>2, <1>4, <1>5, <1>17, <1>18, <1>19, <1>20, ThreadStep, CommAssumption DEF HandlerPCs, Results, Counted, Ending

\* The socket of a connection that was kept alive is gone.
LEMMA ClosedKept ==
  ASSUME SInv, NEW t \in Handlers, Closed(t), UNCHANGED lifeVars, state[conn[t]] = "KeepAlive"
  PROVE  SInv'
<1>1. PICK c \in Conns : c = conn[t]
  BY DEF Closed, Goto, SInv, Placed, TypeOK, Threads, Ending
<1>2. pc[t] = "Closed" /\ Moves(t, "Unkeep", c)
  BY <1>1 DEF Closed, Goto, Moves, SInv, TypeOK, Threads
<1>3. Known(c) /\ tmutex[c] = NoThread /\ state[c] = "KeepAlive"
  BY <1>1, KnownAll DEF Closed, Goto
<1>4. /\ Quiet /\ UNCHANGED listening /\ UNCHANGED <<victim, keep_alive_list, idle, premature, state, eref, tref, node, pipe, reading, unread, sent, answered, queue>>
      /\ tmutex' = Set(tmutex, c, t)
  BY <1>1, <1>2, <1>3 DEF Closed, serviceVars, drainVars, entryVars, pollVars, peerVars, lifeVars, Quiet, Goto
<1>5. /\ Touches(c) /\ UNCHANGED <<victim, keep_alive_list, idle, premature, state, eref, tref, node, pipe, reading, unread, sent, answered, queue>>
      /\ tmutex'[c] = t
  BY <1>4 DEF Set, SInv, TypeOK, Touches, Same, Quiet
<1>6. \A K : Waiting(c, K)' = Waiting(c, K)
  BY <1>4, SameWaiting
<1>7. /\ At(c, Holding)' = At(c, Holding) /\ At(c, Twice)' = At(c, Twice)
      /\ At(c, InSession)' = At(c, InSession) /\ At(c, PollHands)' = At(c, PollHands)
      /\ At(c, AtRequest)' = At(c, AtRequest) /\ At(c, Arriving)' = At(c, Arriving)
      /\ At(c, AtClosed)' = At(c, AtClosed) - 1 /\ At(c, WriteResults)' = At(c, WriteResults)
      /\ At(c, Keeping)' = At(c, Keeping) /\ At(c, AtReply)' = At(c, AtReply)
      /\ At(c, AtUnkeep)' = At(c, AtUnkeep) + 1 /\ At(c, Locking)' = At(c, Locking) + 1
      /\ At(c, Holding) > 0 /\ At(c, PollHands) > 0 /\ At(c, AtClosed) > 0
  <2>1. ASSUME NEW K PROVE At(c, K)' = At(c, K) - (IF "Closed" \in K THEN 1 ELSE 0) + (IF "Unkeep" \in K THEN 1 ELSE 0)
    BY <1>1, <1>2, MovesAt DEF SInv
  <2>2. ASSUME NEW K, "Closed" \in K PROVE At(c, K) > 0
    BY <1>1, <1>2, <2>2, Numbers DEF SInv
  <2> QED
    BY <1>3, <2>1, <2>2 DEF Known, Sized, Holding, Twice, InSession, PollHands, PollResults, Arriving, Counted,
                              WriteResults, Keeping, Locking, AtRequest, AtClosed, AtReply, AtUnkeep
<1>8. /\ Live(c) /\ At(c, Locking) = 0
  BY <1>3, <1>7, Unlocked DEF Known, Sized, Conn, Counts, Replying, Live
<1>9. /\ Poll(c)' = Poll(c) /\ Requested(c)' = Requested(c) /\ Begun(c)' = Begun(c) /\ Arrived(c)' = Arrived(c)
      /\ (Live(c)' <=> Live(c))
  <2>1. Requested(c)' = Requested(c) /\ Arrived(c)' = Arrived(c) /\ (Live(c)' <=> Live(c))
    BY <1>3, <1>5, <1>6, <1>7, <1>8 DEF Requested, Arrived, Live, Known, Sized
  <2>2. Poll(c)' = Poll(c)
    BY <1>3, <1>5, <1>6, <1>7, <1>8, <2>1 DEF Poll, Bit, Known, Sized
  <2>3. Begun(c)' = Begun(c)
    BY <1>3, <1>5, <1>6, <1>7, <1>8, <2>2 DEF Begun, Bit, Known, Sized
  <2> QED
    BY <2>1, <2>2, <2>3
<1>10. Counts(c)'
  BY <1>3, <1>5, <1>7, <1>8, <1>9 DEF Known, Sized, Conn, Counts, Bit
<1>11. Single(c)'
  BY <1>3, <1>5, <1>7, <1>8, <1>9 DEF Known, Sized, Conn, Single
<1>12. Watching(c)'
  BY <1>3, <1>5, <1>7, <1>8, <1>9 DEF Known, Sized, Conn, Watching, Linked
<1>13. Replying(c)'
  BY <1>3, <1>5, <1>6, <1>7, <1>8, <1>9 DEF Known, Sized, Conn, Replying, Linked
<1>14. Locked(c)'
  BY <1>1, <1>2, <1>3, <1>5, LockMoves DEF Locking, Keeping
<1>15. Listed(c)'
  BY <1>3, <1>5, <1>7, <1>8, <1>9 DEF Known, Sized, Conn, Listed, Linked
<1>16. Heard(c)'
  BY <1>3, <1>5, <1>8 DEF Known, Conn, Heard, Unanswered, Replying, Bit
<1>17. TypeOK'
  <2>1. pc' \in [Threads -> OwnerPCs \cup HandlerPCs] /\ conn' \in [Threads -> Conns \cup {NoConn}]
    BY <1>2 DEF SInv, TypeOK, Moves, HandlerPCs, Results
  <2>2. tmutex' \in [Conns -> Handlers \cup {NoThread}]
    BY <1>1, <1>3, <1>4, SetIn DEF SInv, TypeOK, States
  <2> QED
    BY <2>1, <2>2, <1>4 DEF SInv, TypeOK, Quiet
<1>18. Conn(c)'
  BY <1>10, <1>11, <1>12, <1>13, <1>14, <1>15, <1>16 DEF Conn
<1>19. Stays(c)
  BY <1>3, <1>5, <1>8, <1>9 DEF Stays, Known
<1>20. IsInjective(keep_alive_list')
  BY <1>4 DEF SInv, Draining
<1> QED
  BY <1>1, <1>2, <1>4, <1>5, <1>17, <1>18, <1>19, <1>20, ThreadStep, CommAssumption DEF HandlerPCs, Results, Counted, Ending

\* The socket of a connection that waits for its reply is gone.
LEMMA ClosedIdle ==
  ASSUME SInv, NEW t \in Handlers, Closed(t), UNCHANGED lifeVars, state[conn[t]] = "Idle"
  PROVE  SInv'
<1>1. PICK c \in Conns : c = conn[t]
  BY DEF Closed, Goto, SInv, Placed, TypeOK, Threads, Ending
<1>2. pc[t] = "Closed" /\ Moves(t, "Unref", c)
  BY <1>1 DEF Closed, Goto, Moves, SInv, TypeOK, Threads
<1>3. Known(c) /\ tmutex[c] = NoThread /\ state[c] = "Idle"
  BY <1>1, KnownAll DEF Closed, Goto
<1>4. /\ Quiet /\ UNCHANGED listening /\ UNCHANGED <<victim, keep_alive_list, premature, state, eref, tref, tmutex, node, pipe, reading, unread, sent, answered, queue>>
      /\ idle' = idle \ {c}
  BY <1>1, <1>2, <1>3 DEF Closed, serviceVars, drainVars, entryVars, pollVars, peerVars, lifeVars, Quiet, Goto
<1>5. /\ Touches(c) /\ UNCHANGED <<victim, keep_alive_list, premature, state, eref, tref, tmutex, node, pipe, reading, unread, sent, answered, queue>>
      /\ c \notin idle'
  BY <1>4 DEF Set, SInv, TypeOK, Touches, Same, Quiet
<1>6. \A K : Waiting(c, K)' = Waiting(c, K)
  BY <1>4, SameWaiting
<1>7. /\ At(c, Holding)' = At(c, Holding) /\ At(c, Twice)' = At(c, Twice)
      /\ At(c, InSession)' = At(c, InSession) /\ At(c, PollHands)' = At(c, PollHands) - 1
      /\ At(c, AtRequest)' = At(c, AtRequest) /\ At(c, Arriving)' = At(c, Arriving)
      /\ At(c, AtClosed)' = At(c, AtClosed) - 1 /\ At(c, WriteResults)' = At(c, WriteResults)
      /\ At(c, Keeping)' = At(c, Keeping) /\ At(c, AtReply)' = At(c, AtReply)
      /\ At(c, AtUnkeep)' = At(c, AtUnkeep) /\ At(c, Locking)' = At(c, Locking)
      /\ At(c, Holding) > 0 /\ At(c, PollHands) > 0 /\ At(c, AtClosed) > 0
  <2>1. ASSUME NEW K PROVE At(c, K)' = At(c, K) - (IF "Closed" \in K THEN 1 ELSE 0) + (IF "Unref" \in K THEN 1 ELSE 0)
    BY <1>1, <1>2, MovesAt DEF SInv
  <2>2. ASSUME NEW K, "Closed" \in K PROVE At(c, K) > 0
    BY <1>1, <1>2, <2>2, Numbers DEF SInv
  <2> QED
    BY <1>3, <2>1, <2>2 DEF Known, Sized, Holding, Twice, InSession, PollHands, PollResults, Arriving, Counted,
                              WriteResults, Keeping, Locking, AtRequest, AtClosed, AtReply, AtUnkeep
<1>8. /\ Live(c) /\ At(c, Locking) = 0 /\ node[c] = "none"
  <2>1. Live(c)
    BY <1>3, <1>7 DEF Known, Sized, Conn, Counts, Live
  <2>2. At(c, Locking) = 0
    BY <1>3, <1>7, <2>1, Unlocked DEF Known, Sized, Conn
  <2>3. node[c] = "none"
    BY <1>3, <1>7, <2>1, <2>2 DEF Known, Sized, Conn, Single, Poll, Bit
  <2> QED
    BY <2>1, <2>2, <2>3
<1>9. /\ Poll(c)' = Poll(c) /\ Requested(c)' = Requested(c) /\ Begun(c)' = Begun(c) /\ Arrived(c)' = Arrived(c)
      /\ (Live(c)' <=> Live(c))
  <2>1. Requested(c)' = Requested(c) /\ Arrived(c)' = Arrived(c) /\ (Live(c)' <=> Live(c))
    BY <1>3, <1>5, <1>6, <1>7, <1>8 DEF Requested, Arrived, Live, Known, Sized
  <2>2. Poll(c)' = Poll(c)
    BY <1>3, <1>5, <1>6, <1>7, <1>8, <2>1 DEF Poll, Bit, Known, Sized
  <2>3. Begun(c)' = Begun(c)
    BY <1>3, <1>5, <1>6, <1>7, <1>8, <2>2 DEF Begun, Bit, Known, Sized
  <2> QED
    BY <2>1, <2>2, <2>3
<1>10. Counts(c)'
  BY <1>3, <1>5, <1>7, <1>8, <1>9 DEF Known, Sized, Conn, Counts, Bit
<1>11. Single(c)'
  BY <1>3, <1>5, <1>7, <1>8, <1>9 DEF Known, Sized, Conn, Single
<1>12. Watching(c)'
  BY <1>3, <1>5, <1>7, <1>8, <1>9 DEF Known, Sized, Conn, Watching, Linked
<1>13. Replying(c)'
  BY <1>3, <1>5, <1>6, <1>7, <1>8, <1>9 DEF Known, Sized, Conn, Replying, Linked
<1>14. Locked(c)'
  BY <1>1, <1>2, <1>3, <1>5, LockMoves DEF Locking, Keeping
<1>15. Listed(c)'
  BY <1>3, <1>5, <1>7, <1>8, <1>9 DEF Known, Sized, Conn, Listed, Linked
<1>16. Heard(c)'
  BY <1>3, <1>5, <1>8 DEF Known, Conn, Heard, Unanswered, Replying, Bit
<1>17. TypeOK'
  <2>1. pc' \in [Threads -> OwnerPCs \cup HandlerPCs] /\ conn' \in [Threads -> Conns \cup {NoConn}]
    BY <1>2 DEF SInv, TypeOK, Moves, HandlerPCs, Results
  <2>2. idle' \subseteq Conns
    BY <1>1, <1>4 DEF SInv, TypeOK
  <2> QED
    BY <2>1, <2>2, <1>4 DEF SInv, TypeOK, Quiet
<1>18. Conn(c)'
  BY <1>10, <1>11, <1>12, <1>13, <1>14, <1>15, <1>16 DEF Conn
<1>19. Stays(c)
  BY <1>3, <1>5, <1>8, <1>9 DEF Stays, Known
<1>20. IsInjective(keep_alive_list')
  BY <1>4 DEF SInv, Draining
<1> QED
  BY <1>1, <1>2, <1>4, <1>5, <1>17, <1>18, <1>19, <1>20, ThreadStep, CommAssumption DEF HandlerPCs, Results, Counted, Ending

\* The socket is gone while a request is read, or after a failed reply.
LEMMA ClosedEarly ==
  ASSUME SInv, NEW t \in Handlers, Closed(t), UNCHANGED lifeVars, state[conn[t]] \in {"Error", "Receiving"}
  PROVE  SInv'
<1>1. PICK c \in Conns : c = conn[t]
  BY DEF Closed, Goto, SInv, Placed, TypeOK, Threads, Ending
<1>2. pc[t] = "Closed" /\ Moves(t, "EndSession", c)
  BY <1>1 DEF Closed, Goto, Moves, SInv, TypeOK, Threads
<1>3. Known(c) /\ tmutex[c] = NoThread /\ state[c] \in {"Error", "Receiving"}
  BY <1>1, KnownAll DEF Closed, Goto
<1>4. /\ Quiet /\ UNCHANGED listening /\ UNCHANGED <<victim, keep_alive_list, idle, premature, state, eref, tref, tmutex, node, pipe, reading, unread, sent, answered, queue>>
  BY <1>1, <1>2, <1>3 DEF Closed, serviceVars, drainVars, entryVars, pollVars, peerVars, lifeVars, Quiet, Goto
<1>5. /\ Touches(c) /\ UNCHANGED <<victim, keep_alive_list, idle, premature, state, eref, tref, tmutex, node, pipe, reading, unread, sent, answered, queue>>
  BY <1>4 DEF Set, SInv, TypeOK, Touches, Same, Quiet
<1>6. \A K : Waiting(c, K)' = Waiting(c, K)
  BY <1>4, SameWaiting
<1>7. /\ At(c, Holding)' = At(c, Holding) /\ At(c, Twice)' = At(c, Twice)
      /\ At(c, InSession)' = At(c, InSession) + 1 /\ At(c, PollHands)' = At(c, PollHands) - 1
      /\ At(c, AtRequest)' = At(c, AtRequest) /\ At(c, Arriving)' = At(c, Arriving)
      /\ At(c, AtClosed)' = At(c, AtClosed) - 1 /\ At(c, WriteResults)' = At(c, WriteResults)
      /\ At(c, Keeping)' = At(c, Keeping) /\ At(c, AtReply)' = At(c, AtReply)
      /\ At(c, AtUnkeep)' = At(c, AtUnkeep) /\ At(c, Locking)' = At(c, Locking)
      /\ At(c, Holding) > 0 /\ At(c, PollHands) > 0 /\ At(c, AtClosed) > 0
  <2>1. ASSUME NEW K PROVE At(c, K)' = At(c, K) - (IF "Closed" \in K THEN 1 ELSE 0) + (IF "EndSession" \in K THEN 1 ELSE 0)
    BY <1>1, <1>2, MovesAt DEF SInv
  <2>2. ASSUME NEW K, "Closed" \in K PROVE At(c, K) > 0
    BY <1>1, <1>2, <2>2, Numbers DEF SInv
  <2> QED
    BY <1>3, <2>1, <2>2 DEF Known, Sized, Holding, Twice, InSession, PollHands, PollResults, Arriving, Counted,
                              WriteResults, Keeping, Locking, AtRequest, AtClosed, AtReply, AtUnkeep
<1>8. /\ Live(c) /\ At(c, Locking) = 0
  BY <1>3, <1>7, Unlocked DEF Known, Sized, Conn, Counts, Replying, Live
<1>9. /\ Poll(c)' = Poll(c) /\ Requested(c)' = Requested(c) /\ Begun(c)' = Begun(c) - 1 /\ Arrived(c)' = Arrived(c)
      /\ (Live(c)' <=> Live(c))
  <2>1. Requested(c)' = Requested(c) /\ Arrived(c)' = Arrived(c) /\ (Live(c)' <=> Live(c))
    BY <1>3, <1>5, <1>6, <1>7, <1>8 DEF Requested, Arrived, Live, Known, Sized
  <2>2. Poll(c)' = Poll(c)
    BY <1>3, <1>5, <1>6, <1>7, <1>8, <2>1 DEF Poll, Bit, Known, Sized
  <2>3. Begun(c)' = Begun(c) - 1
    BY <1>3, <1>5, <1>6, <1>7, <1>8, <2>2 DEF Begun, Bit, Known, Sized
  <2> QED
    BY <2>1, <2>2, <2>3
<1>10. Counts(c)'
  BY <1>3, <1>5, <1>7, <1>8, <1>9 DEF Known, Sized, Conn, Counts, Bit
<1>11. Single(c)'
  BY <1>3, <1>5, <1>7, <1>8, <1>9 DEF Known, Sized, Conn, Single
<1>12. Watching(c)'
  BY <1>3, <1>5, <1>7, <1>8, <1>9 DEF Known, Sized, Conn, Watching, Linked
<1>13. Replying(c)'
  BY <1>3, <1>5, <1>6, <1>7, <1>8, <1>9 DEF Known, Sized, Conn, Replying, Linked
<1>14. Locked(c)'
  BY <1>1, <1>2, <1>3, <1>5, LockMoves DEF Locking, Keeping
<1>15. Listed(c)'
  BY <1>3, <1>5, <1>7, <1>8, <1>9 DEF Known, Sized, Conn, Listed, Linked
<1>16. Heard(c)'
  BY <1>3, <1>5, <1>8 DEF Known, Conn, Heard, Unanswered, Replying, Bit
<1>17. TypeOK'
  <2>1. pc' \in [Threads -> OwnerPCs \cup HandlerPCs] /\ conn' \in [Threads -> Conns \cup {NoConn}]
    BY <1>2 DEF SInv, TypeOK, Moves, HandlerPCs, Results
  <2> QED
    BY <2>1, <1>4 DEF SInv, TypeOK, Quiet
<1>18. Conn(c)'
  BY <1>10, <1>11, <1>12, <1>13, <1>14, <1>15, <1>16 DEF Conn
<1>19. Stays(c)
  BY <1>3, <1>5, <1>8, <1>9 DEF Stays, Known
<1>20. IsInjective(keep_alive_list')
  BY <1>4 DEF SInv, Draining
<1> QED
  BY <1>1, <1>2, <1>4, <1>5, <1>17, <1>18, <1>19, <1>20, ThreadStep, CommAssumption DEF HandlerPCs, Results, Counted, Ending

\* The socket is gone before a thread looked at the request.
LEMMA ClosedRequested ==
  ASSUME SInv, NEW t \in Handlers, Closed(t), UNCHANGED lifeVars, state[conn[t]] = "Success"
  PROVE  SInv'
<1>1. PICK c \in Conns : c = conn[t]
  BY DEF Closed, Goto, SInv, Placed, TypeOK, Threads, Ending
<1>2. pc[t] = "Closed" /\ Moves(t, "Ready", NoConn)
  BY <1>1 DEF Closed, Goto, Moves, SInv, TypeOK, Threads, Leave
<1>3. Known(c) /\ tmutex[c] = NoThread /\ state[c] = "Success"
  BY <1>1, KnownAll DEF Closed, Goto
<1>4. /\ Quiet /\ UNCHANGED listening /\ UNCHANGED <<victim, keep_alive_list, idle, premature, eref, tref, tmutex, node, pipe, reading, unread, sent, answered, queue>>
      /\ state' = Set(state, c, "Closing")
  BY <1>1, <1>2, <1>3 DEF Closed, serviceVars, drainVars, entryVars, pollVars, peerVars, lifeVars, Quiet, Goto
<1>5. /\ Touches(c) /\ UNCHANGED <<victim, keep_alive_list, idle, premature, eref, tref, tmutex, node, pipe, reading, unread, sent, answered, queue>>
      /\ state'[c] = "Closing"
  BY <1>4 DEF Set, SInv, TypeOK, Touches, Same, Quiet
<1>6. \A K : Waiting(c, K)' = Waiting(c, K)
  BY <1>4, SameWaiting
<1>7. /\ At(c, Holding)' = At(c, Holding) - 1 /\ At(c, Twice)' = At(c, Twice)
      /\ At(c, InSession)' = At(c, InSession) /\ At(c, PollHands)' = At(c, PollHands) - 1
      /\ At(c, AtRequest)' = At(c, AtRequest) /\ At(c, Arriving)' = At(c, Arriving)
      /\ At(c, AtClosed)' = At(c, AtClosed) - 1 /\ At(c, WriteResults)' = At(c, WriteResults)
      /\ At(c, Keeping)' = At(c, Keeping) /\ At(c, AtReply)' = At(c, AtReply)
      /\ At(c, AtUnkeep)' = At(c, AtUnkeep) /\ At(c, Locking)' = At(c, Locking)
      /\ At(c, Holding) > 0 /\ At(c, PollHands) > 0 /\ At(c, AtClosed) > 0
  <2>1. ASSUME NEW K PROVE At(c, K)' = At(c, K) - (IF "Closed" \in K THEN 1 ELSE 0)
    <3>1. NoConn # c /\ TypeOK /\ At(c, K) \in Nat
      BY CommAssumption, Numbers DEF SInv
    <3> QED
      BY <1>1, <1>2, <3>1, MovesAt
  <2>2. ASSUME NEW K, "Closed" \in K PROVE At(c, K) > 0
    BY <1>1, <1>2, <2>2, Numbers DEF SInv
  <2> QED
    BY <1>3, <2>1, <2>2 DEF Known, Sized, Holding, Twice, InSession, PollHands, PollResults, Arriving, Counted,
                              WriteResults, Keeping, Locking, AtRequest, AtClosed, AtReply, AtUnkeep
<1>8. /\ Live(c) /\ At(c, Locking) = 0 /\ Requested(c) = 1
  <2>1. Live(c)
    BY <1>3, <1>7 DEF Known, Sized, Conn, Counts, Live
  <2>2. At(c, Locking) = 0
    BY <1>3, <1>7, <2>1, Unlocked DEF Known, Sized, Conn
  <2>3. Requested(c) = 1
    BY <1>3, <1>7, <2>1, <2>2 DEF Known, Sized, Conn, Watching, Single, Requested
  <2> QED
    BY <2>1, <2>2, <2>3
<1>9. /\ Poll(c)' = Poll(c) + 1 /\ Requested(c)' = Requested(c) /\ Begun(c)' = Begun(c) /\ Arrived(c)' = Arrived(c)
      /\ (Live(c)' <=> Live(c))
  <2>1. Requested(c)' = Requested(c) /\ Arrived(c)' = Arrived(c) /\ (Live(c)' <=> Live(c))
    BY <1>3, <1>5, <1>6, <1>7, <1>8 DEF Requested, Arrived, Live, Known, Sized
  <2>2. Poll(c)' = Poll(c) + 1
    BY <1>3, <1>5, <1>6, <1>7, <1>8, <2>1 DEF Poll, Bit, Known, Sized
  <2>3. Begun(c)' = Begun(c)
    BY <1>3, <1>5, <1>6, <1>7, <1>8, <2>2 DEF Begun, Bit, Known, Sized
  <2> QED
    BY <2>1, <2>2, <2>3
<1>10. Counts(c)'
  BY <1>3, <1>5, <1>7, <1>8, <1>9 DEF Known, Sized, Conn, Counts, Bit
<1>11. Single(c)'
  BY <1>3, <1>5, <1>7, <1>8, <1>9 DEF Known, Sized, Conn, Single
<1>12. Watching(c)'
  BY <1>3, <1>5, <1>7, <1>8, <1>9 DEF Known, Sized, Conn, Watching, Linked
<1>13. Replying(c)'
  BY <1>3, <1>5, <1>6, <1>7, <1>8, <1>9 DEF Known, Sized, Conn, Replying, Linked
<1>14. Locked(c)'
  BY <1>1, <1>2, <1>3, <1>5, LockMoves DEF Locking, Keeping
<1>15. Listed(c)'
  BY <1>3, <1>5, <1>7, <1>8, <1>9 DEF Known, Sized, Conn, Listed, Linked
<1>16. Heard(c)'
  BY <1>3, <1>5, <1>8 DEF Known, Conn, Heard, Unanswered, Replying, Bit
<1>17. TypeOK'
  <2>1. pc' \in [Threads -> OwnerPCs \cup HandlerPCs] /\ conn' \in [Threads -> Conns \cup {NoConn}]
    BY <1>2 DEF SInv, TypeOK, Moves, HandlerPCs, Results
  <2>2. state' \in [Conns -> States]
    BY <1>1, <1>3, <1>4, SetIn DEF SInv, TypeOK, States
  <2> QED
    BY <2>1, <2>2, <1>4 DEF SInv, TypeOK, Quiet
<1>18. Conn(c)'
  BY <1>10, <1>11, <1>12, <1>13, <1>14, <1>15, <1>16 DEF Conn
<1>19. Stays(c)
  BY <1>3, <1>5, <1>8, <1>9 DEF Stays, Known
<1>20. IsInjective(keep_alive_list')
  BY <1>4 DEF SInv, Draining
<1> QED
  BY <1>1, <1>2, <1>4, <1>5, <1>17, <1>18, <1>19, <1>20, ThreadStep, CommAssumption DEF HandlerPCs, Results, Counted, Ending

\* The socket is gone without a session.
LEMMA ClosedUnused ==
  ASSUME SInv, NEW t \in Handlers, Closed(t), UNCHANGED lifeVars, state[conn[t]] \in {"Connected", "Closing"}
  PROVE  SInv'
<1>1. PICK c \in Conns : c = conn[t]
  BY DEF Closed, Goto, SInv, Placed, TypeOK, Threads, Ending
<1>2. pc[t] = "Closed" /\ Moves(t, "Unref", c)
  BY <1>1 DEF Closed, Goto, Moves, SInv, TypeOK, Threads
<1>3. Known(c) /\ tmutex[c] = NoThread /\ state[c] \in {"Connected", "Closing"}
  BY <1>1, KnownAll DEF Closed, Goto
<1>4. /\ Quiet /\ UNCHANGED listening /\ UNCHANGED <<victim, keep_alive_list, idle, premature, state, eref, tref, tmutex, node, pipe, reading, unread, sent, answered, queue>>
  BY <1>1, <1>2, <1>3 DEF Closed, serviceVars, drainVars, entryVars, pollVars, peerVars, lifeVars, Quiet, Goto
<1>5. /\ Touches(c) /\ UNCHANGED <<victim, keep_alive_list, idle, premature, state, eref, tref, tmutex, node, pipe, reading, unread, sent, answered, queue>>
  BY <1>4 DEF Set, SInv, TypeOK, Touches, Same, Quiet
<1>6. \A K : Waiting(c, K)' = Waiting(c, K)
  BY <1>4, SameWaiting
<1>7. /\ At(c, Holding)' = At(c, Holding) /\ At(c, Twice)' = At(c, Twice)
      /\ At(c, InSession)' = At(c, InSession) /\ At(c, PollHands)' = At(c, PollHands) - 1
      /\ At(c, AtRequest)' = At(c, AtRequest) /\ At(c, Arriving)' = At(c, Arriving)
      /\ At(c, AtClosed)' = At(c, AtClosed) - 1 /\ At(c, WriteResults)' = At(c, WriteResults)
      /\ At(c, Keeping)' = At(c, Keeping) /\ At(c, AtReply)' = At(c, AtReply)
      /\ At(c, AtUnkeep)' = At(c, AtUnkeep) /\ At(c, Locking)' = At(c, Locking)
      /\ At(c, Holding) > 0 /\ At(c, PollHands) > 0 /\ At(c, AtClosed) > 0
  <2>1. ASSUME NEW K PROVE At(c, K)' = At(c, K) - (IF "Closed" \in K THEN 1 ELSE 0) + (IF "Unref" \in K THEN 1 ELSE 0)
    BY <1>1, <1>2, MovesAt DEF SInv
  <2>2. ASSUME NEW K, "Closed" \in K PROVE At(c, K) > 0
    BY <1>1, <1>2, <2>2, Numbers DEF SInv
  <2> QED
    BY <1>3, <2>1, <2>2 DEF Known, Sized, Holding, Twice, InSession, PollHands, PollResults, Arriving, Counted,
                              WriteResults, Keeping, Locking, AtRequest, AtClosed, AtReply, AtUnkeep
<1>8. /\ Live(c) /\ At(c, Locking) = 0
  BY <1>3, <1>7, Unlocked DEF Known, Sized, Conn, Counts, Replying, Live
<1>9. /\ Poll(c)' = Poll(c) /\ Requested(c)' = Requested(c) /\ Begun(c)' = Begun(c) /\ Arrived(c)' = Arrived(c)
      /\ (Live(c)' <=> Live(c))
  <2>1. Requested(c)' = Requested(c) /\ Arrived(c)' = Arrived(c) /\ (Live(c)' <=> Live(c))
    BY <1>3, <1>5, <1>6, <1>7, <1>8 DEF Requested, Arrived, Live, Known, Sized
  <2>2. Poll(c)' = Poll(c)
    BY <1>3, <1>5, <1>6, <1>7, <1>8, <2>1 DEF Poll, Bit, Known, Sized
  <2>3. Begun(c)' = Begun(c)
    BY <1>3, <1>5, <1>6, <1>7, <1>8, <2>2 DEF Begun, Bit, Known, Sized
  <2> QED
    BY <2>1, <2>2, <2>3
<1>10. Counts(c)'
  BY <1>3, <1>5, <1>7, <1>8, <1>9 DEF Known, Sized, Conn, Counts, Bit
<1>11. Single(c)'
  BY <1>3, <1>5, <1>7, <1>8, <1>9 DEF Known, Sized, Conn, Single
<1>12. Watching(c)'
  BY <1>3, <1>5, <1>7, <1>8, <1>9 DEF Known, Sized, Conn, Watching, Linked
<1>13. Replying(c)'
  BY <1>3, <1>5, <1>6, <1>7, <1>8, <1>9 DEF Known, Sized, Conn, Replying, Linked
<1>14. Locked(c)'
  BY <1>1, <1>2, <1>3, <1>5, LockMoves DEF Locking, Keeping
<1>15. Listed(c)'
  BY <1>3, <1>5, <1>7, <1>8, <1>9 DEF Known, Sized, Conn, Listed, Linked
<1>16. Heard(c)'
  BY <1>3, <1>5, <1>8 DEF Known, Conn, Heard, Unanswered, Replying, Bit
<1>17. TypeOK'
  <2>1. pc' \in [Threads -> OwnerPCs \cup HandlerPCs] /\ conn' \in [Threads -> Conns \cup {NoConn}]
    BY <1>2 DEF SInv, TypeOK, Moves, HandlerPCs, Results
  <2> QED
    BY <2>1, <1>4 DEF SInv, TypeOK, Quiet
<1>18. Conn(c)'
  BY <1>10, <1>11, <1>12, <1>13, <1>14, <1>15, <1>16 DEF Conn
<1>19. Stays(c)
  BY <1>3, <1>5, <1>8, <1>9 DEF Stays, Known
<1>20. IsInjective(keep_alive_list')
  BY <1>4 DEF SInv, Draining
<1> QED
  BY <1>1, <1>2, <1>4, <1>5, <1>17, <1>18, <1>19, <1>20, ThreadStep, CommAssumption DEF HandlerPCs, Results, Counted, Ending

\* The session ends ...
LEMMA EndSessionKeeps ==
  ASSUME SInv, NEW t \in Handlers, EndSession(t), UNCHANGED lifeVars, pc[t] # "WriteFailed"
  PROVE  SInv'
<1>1. PICK c \in Conns : c = conn[t]
  BY DEF EndSession, Goto, SInv, Placed, TypeOK, Threads, Ending
<1>2. \/ pc[t] = "Replied" /\ Moves(t, "UnrefReplied", c)
      \/ pc[t] = "EndSession" /\ Moves(t, "Unref", c)
  BY <1>1 DEF EndSession, Goto, Moves, SInv, TypeOK, Threads
<1>3. Known(c) /\ tref[c] > 1
  <2>1. Known(c)
    BY KnownAll
  <2>2. At(c, InSession) > 0 /\ At(c, Holding) > 0
    BY <1>1, <1>2, Numbers DEF SInv, InSession, Holding, Twice, PollHands, PollResults, WriteResults
  <2> QED
    BY <2>1, <2>2 DEF Known, Sized, Conn, Counts, Bit
<1>4. /\ Quiet /\ UNCHANGED listening /\ UNCHANGED <<victim, keep_alive_list, idle, premature, state, eref, tmutex, node, pipe, reading, unread, sent, answered, queue>>
      /\ tref' = Set(tref, c, tref[c] - 1)
  BY <1>1, <1>2, <1>3 DEF EndSession, serviceVars, drainVars, entryVars, pollVars, peerVars, lifeVars, Quiet, Goto, TargetDecref
<1>5. /\ Touches(c) /\ UNCHANGED <<victim, keep_alive_list, idle, premature, state, eref, tmutex, node, pipe, reading, unread, sent, answered, queue>>
      /\ tref'[c] = tref[c] - 1
  BY <1>4 DEF Set, SInv, TypeOK, Touches, Same, Quiet
<1>6. \A K : Waiting(c, K)' = Waiting(c, K)
  BY <1>4, SameWaiting
<1>7. /\ At(c, Holding)' = At(c, Holding) /\ At(c, Twice)' = At(c, Twice)
      /\ At(c, InSession)' = At(c, InSession) - 1 /\ At(c, PollHands)' = At(c, PollHands)
      /\ At(c, AtRequest)' = At(c, AtRequest) /\ At(c, Arriving)' = At(c, Arriving)
      /\ At(c, AtClosed)' = At(c, AtClosed) /\ At(c, WriteResults)' = At(c, WriteResults)
      /\ At(c, Keeping)' = At(c, Keeping) /\ At(c, AtReply)' = At(c, AtReply)
      /\ At(c, AtUnkeep)' = At(c, AtUnkeep) /\ At(c, Locking)' = At(c, Locking)
      /\ At(c, Holding) > 0 /\ At(c, InSession) > 0
  <2>1. CASE pc[t] = "Replied"
    <3>1. ASSUME NEW K PROVE At(c, K)' = At(c, K) - (IF "Replied" \in K THEN 1 ELSE 0) + (IF "UnrefReplied" \in K THEN 1 ELSE 0)
      BY <1>1, <1>2, <2>1, MovesAt DEF SInv
    <3>2. ASSUME NEW K, "Replied" \in K PROVE At(c, K) > 0
      BY <1>1, <2>1, <3>2, Numbers DEF SInv
    <3> QED
      BY <1>3, <3>1, <3>2 DEF Known, Sized, Holding, Twice, InSession, PollHands, PollResults, Arriving, Counted,
                              WriteResults, Keeping, Locking, AtRequest, AtClosed, AtReply, AtUnkeep
  <2>2. CASE pc[t] = "EndSession"
    <3>1. ASSUME NEW K PROVE At(c, K)' = At(c, K) - (IF "EndSession" \in K THEN 1 ELSE 0) + (IF "Unref" \in K THEN 1 ELSE 0)
      BY <1>1, <1>2, <2>2, MovesAt DEF SInv
    <3>2. ASSUME NEW K, "EndSession" \in K PROVE At(c, K) > 0
      BY <1>1, <2>2, <3>2, Numbers DEF SInv
    <3> QED
      BY <1>3, <3>1, <3>2 DEF Known, Sized, Holding, Twice, InSession, PollHands, PollResults, Arriving, Counted,
                              WriteResults, Keeping, Locking, AtRequest, AtClosed, AtReply, AtUnkeep
  <2> QED
    BY <1>2, <2>1, <2>2
<1>8. /\ Live(c)
  BY <1>3, <1>7 DEF Known, Sized, Conn, Counts, Replying, Live
<1>9. /\ Poll(c)' = Poll(c) /\ Requested(c)' = Requested(c) /\ Begun(c)' = Begun(c) /\ Arrived(c)' = Arrived(c)
      /\ (Live(c)' <=> Live(c))
  <2>1. Requested(c)' = Requested(c) /\ Arrived(c)' = Arrived(c) /\ (Live(c)' <=> Live(c))
    BY <1>3, <1>5, <1>6, <1>7, <1>8 DEF Requested, Arrived, Live, Known, Sized
  <2>2. Poll(c)' = Poll(c)
    BY <1>3, <1>5, <1>6, <1>7, <1>8, <2>1 DEF Poll, Bit, Known, Sized
  <2>3. Begun(c)' = Begun(c)
    BY <1>3, <1>5, <1>6, <1>7, <1>8, <2>2 DEF Begun, Bit, Known, Sized
  <2> QED
    BY <2>1, <2>2, <2>3
<1>10. Counts(c)'
  BY <1>3, <1>5, <1>7, <1>8, <1>9 DEF Known, Sized, Conn, Counts, Bit
<1>11. Single(c)'
  BY <1>3, <1>5, <1>7, <1>8, <1>9 DEF Known, Sized, Conn, Single
<1>12. Watching(c)'
  BY <1>3, <1>5, <1>7, <1>8, <1>9 DEF Known, Sized, Conn, Watching, Linked
<1>13. Replying(c)'
  BY <1>3, <1>5, <1>6, <1>7, <1>8, <1>9 DEF Known, Sized, Conn, Replying, Linked
<1>14. Locked(c)'
  BY <1>1, <1>2, <1>3, <1>5, LockMoves DEF Locking, Keeping
<1>15. Listed(c)'
  BY <1>3, <1>5, <1>7, <1>8, <1>9 DEF Known, Sized, Conn, Listed, Linked
<1>16. Heard(c)'
  BY <1>3, <1>5, <1>8 DEF Known, Conn, Heard, Unanswered, Replying, Bit
<1>17. TypeOK'
  <2>1. pc' \in [Threads -> OwnerPCs \cup HandlerPCs] /\ conn' \in [Threads -> Conns \cup {NoConn}]
    BY <1>2 DEF SInv, TypeOK, Moves, HandlerPCs, Results
  <2>2. tref[c] - 1 \in Nat
    BY <1>3 DEF Known
  <2>3. tref' \in [Conns -> Nat]
    BY <1>4, <2>2, SetIn DEF SInv, TypeOK
  <2> QED
    BY <2>1, <2>3, <1>4 DEF SInv, TypeOK, Quiet
<1>18. Conn(c)'
  BY <1>10, <1>11, <1>12, <1>13, <1>14, <1>15, <1>16 DEF Conn
<1>19. Stays(c)
  BY <1>3, <1>5, <1>8, <1>9 DEF Stays, Known
<1>20. IsInjective(keep_alive_list')
  BY <1>4 DEF SInv, Draining
<1>21. CASE pc[t] = "Replied"
  BY <1>1, <1>2, <1>4, <1>5, <1>17, <1>18, <1>19, <1>20, <1>21, ThreadStep, CommAssumption DEF HandlerPCs, Results, Counted, Ending
<1>22. CASE pc[t] = "EndSession"
  BY <1>1, <1>2, <1>4, <1>5, <1>17, <1>18, <1>19, <1>20, <1>22, ThreadStep, CommAssumption DEF HandlerPCs, Results, Counted, Ending
<1> QED
  BY <1>2, <1>21, <1>22

\* ... also after the poller could not write.
LEMMA EndSessionFailed ==
  ASSUME SInv, NEW t \in Handlers, EndSession(t), UNCHANGED lifeVars, pc[t] = "WriteFailed"
  PROVE  SInv'
<1>1. PICK c \in Conns : c = conn[t]
  BY DEF EndSession, Goto, SInv, Placed, TypeOK, Threads, Ending
<1>2. pc[t] = "WriteFailed" /\ Moves(t, "Unref", c)
  BY <1>1 DEF EndSession, Goto, Moves, SInv, TypeOK, Threads
<1>3. Known(c) /\ tref[c] > 1
  <2>1. Known(c)
    BY KnownAll
  <2>2. At(c, InSession) > 0 /\ At(c, Holding) > 0
    BY <1>1, <1>2, Numbers DEF SInv, InSession, Holding, Twice, PollHands, PollResults, WriteResults
  <2> QED
    BY <2>1, <2>2 DEF Known, Sized, Conn, Counts, Bit
<1>4. /\ Quiet /\ UNCHANGED listening /\ UNCHANGED <<victim, keep_alive_list, idle, premature, state, eref, tmutex, node, pipe, reading, unread, sent, answered, queue>>
      /\ tref' = Set(tref, c, tref[c] - 1)
  BY <1>1, <1>2, <1>3 DEF EndSession, serviceVars, drainVars, entryVars, pollVars, peerVars, lifeVars, Quiet, Goto, TargetDecref
<1>5. /\ Touches(c) /\ UNCHANGED <<victim, keep_alive_list, idle, premature, state, eref, tmutex, node, pipe, reading, unread, sent, answered, queue>>
      /\ tref'[c] = tref[c] - 1
  BY <1>4 DEF Set, SInv, TypeOK, Touches, Same, Quiet
<1>6. \A K : Waiting(c, K)' = Waiting(c, K)
  BY <1>4, SameWaiting
<1>7. /\ At(c, Holding)' = At(c, Holding) /\ At(c, Twice)' = At(c, Twice)
      /\ At(c, InSession)' = At(c, InSession) - 1 /\ At(c, PollHands)' = At(c, PollHands) - 1
      /\ At(c, AtRequest)' = At(c, AtRequest) /\ At(c, Arriving)' = At(c, Arriving)
      /\ At(c, AtClosed)' = At(c, AtClosed) /\ At(c, WriteResults)' = At(c, WriteResults) - 1
      /\ At(c, Keeping)' = At(c, Keeping) /\ At(c, AtReply)' = At(c, AtReply)
      /\ At(c, AtUnkeep)' = At(c, AtUnkeep) /\ At(c, Locking)' = At(c, Locking)
      /\ At(c, Holding) > 0 /\ At(c, InSession) > 0 /\ At(c, PollHands) > 0 /\ At(c, WriteResults) > 0
  <2>1. ASSUME NEW K PROVE At(c, K)' = At(c, K) - (IF "WriteFailed" \in K THEN 1 ELSE 0) + (IF "Unref" \in K THEN 1 ELSE 0)
    BY <1>1, <1>2, MovesAt DEF SInv
  <2>2. ASSUME NEW K, "WriteFailed" \in K PROVE At(c, K) > 0
    BY <1>1, <1>2, <2>2, Numbers DEF SInv
  <2> QED
    BY <1>3, <2>1, <2>2 DEF Known, Sized, Holding, Twice, InSession, PollHands, PollResults, Arriving, Counted,
                              WriteResults, Keeping, Locking, AtRequest, AtClosed, AtReply, AtUnkeep
<1>8. /\ Live(c) /\ state[c] = "Idle" /\ c \notin idle /\ At(c, Keeping) = 0
  <2>1. Live(c)
    BY <1>3, <1>7 DEF Known, Sized, Conn, Counts, Live
  <2>2. state[c] = "Idle"
    BY <1>3, <1>7, <2>1 DEF Known, Sized, Conn, Replying
  <2>3. c \notin idle
    BY <1>3, <1>7, <2>1, <2>2 DEF Known, Sized, Conn, Replying
  <2>4. At(c, Keeping) = 0
    BY <1>3, <1>7, <2>1, <2>2, <2>3 DEF Known, Sized, Conn, Replying
  <2> QED
    BY <2>1, <2>2, <2>3, <2>4
<1>9. /\ Poll(c)' = Poll(c) /\ Requested(c)' = Requested(c) /\ Begun(c)' = Begun(c) /\ Arrived(c)' = Arrived(c)
      /\ (Live(c)' <=> Live(c))
  <2>1. Requested(c)' = Requested(c) /\ Arrived(c)' = Arrived(c) /\ (Live(c)' <=> Live(c))
    BY <1>3, <1>5, <1>6, <1>7, <1>8 DEF Requested, Arrived, Live, Known, Sized
  <2>2. Poll(c)' = Poll(c)
    BY <1>3, <1>5, <1>6, <1>7, <1>8, <2>1 DEF Poll, Bit, Known, Sized
  <2>3. Begun(c)' = Begun(c)
    BY <1>3, <1>5, <1>6, <1>7, <1>8, <2>2 DEF Begun, Bit, Known, Sized
  <2> QED
    BY <2>1, <2>2, <2>3
<1>10. Counts(c)'
  BY <1>3, <1>5, <1>7, <1>8, <1>9 DEF Known, Sized, Conn, Counts, Bit
<1>11. Single(c)'
  BY <1>3, <1>5, <1>7, <1>8, <1>9 DEF Known, Sized, Conn, Single
<1>12. Watching(c)'
  BY <1>3, <1>5, <1>7, <1>8, <1>9 DEF Known, Sized, Conn, Watching, Linked
<1>13. Replying(c)'
  BY <1>3, <1>5, <1>6, <1>7, <1>8, <1>9 DEF Known, Sized, Conn, Replying, Linked
<1>14. Locked(c)'
  BY <1>1, <1>2, <1>3, <1>5, LockMoves DEF Locking, Keeping
<1>15. Listed(c)'
  BY <1>3, <1>5, <1>7, <1>8, <1>9 DEF Known, Sized, Conn, Listed, Linked
<1>16. Heard(c)'
  BY <1>3, <1>5, <1>8 DEF Known, Conn, Heard, Unanswered, Replying, Bit
<1>17. TypeOK'
  <2>1. pc' \in [Threads -> OwnerPCs \cup HandlerPCs] /\ conn' \in [Threads -> Conns \cup {NoConn}]
    BY <1>2 DEF SInv, TypeOK, Moves, HandlerPCs, Results
  <2>2. tref[c] - 1 \in Nat
    BY <1>3 DEF Known
  <2>3. tref' \in [Conns -> Nat]
    BY <1>4, <2>2, SetIn DEF SInv, TypeOK
  <2> QED
    BY <2>1, <2>3, <1>4 DEF SInv, TypeOK, Quiet
<1>18. Conn(c)'
  BY <1>10, <1>11, <1>12, <1>13, <1>14, <1>15, <1>16 DEF Conn
<1>19. Stays(c)
  BY <1>3, <1>5, <1>8, <1>9 DEF Stays, Known
<1>20. IsInjective(keep_alive_list')
  BY <1>4 DEF SInv, Draining
<1> QED
  BY <1>1, <1>2, <1>4, <1>5, <1>17, <1>18, <1>19, <1>20, ThreadStep, CommAssumption DEF HandlerPCs, Results, Counted, Ending

\* A thread that replied gives back the first of its two references.
LEMMA UnrefTwice ==
  ASSUME SInv, NEW t \in Handlers, Unref(t), UNCHANGED lifeVars, pc[t] = "UnrefReplied"
  PROVE  SInv'
<1>1. PICK c \in Conns : c = conn[t]
  BY DEF Unref, Goto, SInv, Placed, TypeOK, Threads, Ending
<1>2. pc[t] = "UnrefReplied" /\ Moves(t, "Unref", c)
  BY <1>1 DEF Unref, Goto, Moves, SInv, TypeOK, Threads
<1>3. Known(c) /\ eref[c] > 1
  <2>1. Known(c)
    BY KnownAll
  <2>2. At(c, Holding) > 0 /\ At(c, Twice) > 0
    BY <1>1, <1>2, Numbers DEF SInv, Holding, Twice
  <2> QED
    BY <1>1, <2>1, <2>2 DEF Known, Sized, Conn, Counts
<1>4. /\ Quiet /\ UNCHANGED listening /\ UNCHANGED <<victim, keep_alive_list, idle, premature, state, tref, tmutex, node, pipe, reading, unread, sent, answered, queue>>
      /\ eref' = Set(eref, c, eref[c] - 1)
  BY <1>1, <1>2, <1>3 DEF Unref, serviceVars, drainVars, entryVars, pollVars, peerVars, lifeVars, Quiet, Goto
<1>5. /\ Touches(c) /\ UNCHANGED <<victim, keep_alive_list, idle, premature, state, tref, tmutex, node, pipe, reading, unread, sent, answered, queue>>
      /\ eref'[c] = eref[c] - 1
  BY <1>4 DEF Set, SInv, TypeOK, Touches, Same, Quiet
<1>6. \A K : Waiting(c, K)' = Waiting(c, K)
  BY <1>4, SameWaiting
<1>7. /\ At(c, Holding)' = At(c, Holding) /\ At(c, Twice)' = At(c, Twice) - 1
      /\ At(c, InSession)' = At(c, InSession) /\ At(c, PollHands)' = At(c, PollHands)
      /\ At(c, AtRequest)' = At(c, AtRequest) /\ At(c, Arriving)' = At(c, Arriving)
      /\ At(c, AtClosed)' = At(c, AtClosed) /\ At(c, WriteResults)' = At(c, WriteResults)
      /\ At(c, Keeping)' = At(c, Keeping) /\ At(c, AtReply)' = At(c, AtReply)
      /\ At(c, AtUnkeep)' = At(c, AtUnkeep) /\ At(c, Locking)' = At(c, Locking)
      /\ At(c, Holding) > 0 /\ At(c, Twice) > 0
  <2>1. ASSUME NEW K PROVE At(c, K)' = At(c, K) - (IF "UnrefReplied" \in K THEN 1 ELSE 0) + (IF "Unref" \in K THEN 1 ELSE 0)
    BY <1>1, <1>2, MovesAt DEF SInv
  <2>2. ASSUME NEW K, "UnrefReplied" \in K PROVE At(c, K) > 0
    BY <1>1, <1>2, <2>2, Numbers DEF SInv
  <2> QED
    BY <1>3, <2>1, <2>2 DEF Known, Sized, Holding, Twice, InSession, PollHands, PollResults, Arriving, Counted,
                              WriteResults, Keeping, Locking, AtRequest, AtClosed, AtReply, AtUnkeep
<1>8. /\ Live(c)
  BY <1>3, <1>7 DEF Known, Sized, Conn, Counts, Replying, Live
<1>9. /\ Poll(c)' = Poll(c) /\ Requested(c)' = Requested(c) /\ Begun(c)' = Begun(c) /\ Arrived(c)' = Arrived(c)
      /\ (Live(c)' <=> Live(c))
  <2>1. Requested(c)' = Requested(c) /\ Arrived(c)' = Arrived(c) /\ (Live(c)' <=> Live(c))
    BY <1>3, <1>5, <1>6, <1>7, <1>8 DEF Requested, Arrived, Live, Known, Sized
  <2>2. Poll(c)' = Poll(c)
    BY <1>3, <1>5, <1>6, <1>7, <1>8, <2>1 DEF Poll, Bit, Known, Sized
  <2>3. Begun(c)' = Begun(c)
    BY <1>3, <1>5, <1>6, <1>7, <1>8, <2>2 DEF Begun, Bit, Known, Sized
  <2> QED
    BY <2>1, <2>2, <2>3
<1>10. Counts(c)'
  BY <1>3, <1>5, <1>7, <1>8, <1>9 DEF Known, Sized, Conn, Counts, Bit
<1>11. Single(c)'
  BY <1>3, <1>5, <1>7, <1>8, <1>9 DEF Known, Sized, Conn, Single
<1>12. Watching(c)'
  BY <1>3, <1>5, <1>7, <1>8, <1>9 DEF Known, Sized, Conn, Watching, Linked
<1>13. Replying(c)'
  BY <1>3, <1>5, <1>6, <1>7, <1>8, <1>9 DEF Known, Sized, Conn, Replying, Linked
<1>14. Locked(c)'
  BY <1>1, <1>2, <1>3, <1>5, LockMoves DEF Locking, Keeping
<1>15. Listed(c)'
  BY <1>3, <1>5, <1>7, <1>8, <1>9 DEF Known, Sized, Conn, Listed, Linked
<1>16. Heard(c)'
  BY <1>3, <1>5, <1>8 DEF Known, Conn, Heard, Unanswered, Replying, Bit
<1>17. TypeOK'
  <2>1. pc' \in [Threads -> OwnerPCs \cup HandlerPCs] /\ conn' \in [Threads -> Conns \cup {NoConn}]
    BY <1>2 DEF SInv, TypeOK, Moves, HandlerPCs, Results
  <2>2. eref[c] - 1 \in Nat
    BY <1>3 DEF Known
  <2>3. eref' \in [Conns -> Nat]
    BY <1>4, <2>2, SetIn DEF SInv, TypeOK
  <2> QED
    BY <2>1, <2>3, <1>4 DEF SInv, TypeOK, Quiet
<1>18. Conn(c)'
  BY <1>10, <1>11, <1>12, <1>13, <1>14, <1>15, <1>16 DEF Conn
<1>19. Stays(c)
  BY <1>3, <1>5, <1>8, <1>9 DEF Stays, Known
<1>20. IsInjective(keep_alive_list')
  BY <1>4 DEF SInv, Draining
<1> QED
  BY <1>1, <1>2, <1>4, <1>5, <1>17, <1>18, <1>19, <1>20, ThreadStep, CommAssumption DEF HandlerPCs, Results, Counted, Ending

\* A reference to the entry is given back that is not the last.
LEMMA UnrefOne ==
  ASSUME SInv, NEW t \in Handlers, Unref(t), UNCHANGED lifeVars, pc[t] = "Unref", eref[conn[t]] # 1
  PROVE  SInv'
<1>1. PICK c \in Conns : c = conn[t]
  BY DEF Unref, Goto, SInv, Placed, TypeOK, Threads, Ending
<1>2. pc[t] = "Unref" /\ Moves(t, "Ready", NoConn)
  BY <1>1 DEF Unref, Goto, Moves, SInv, TypeOK, Threads, Leave
<1>3. Known(c) /\ eref[c] > 1
  <2>1. Known(c)
    BY KnownAll
  <2>2. At(c, Holding) > 0 
    BY <1>1, <1>2, Numbers DEF SInv, Holding, Twice
  <2> QED
    BY <1>1, <2>1, <2>2 DEF Known, Sized, Conn, Counts
<1>4. /\ Quiet /\ UNCHANGED listening /\ UNCHANGED <<victim, keep_alive_list, idle, premature, state, tref, tmutex, node, pipe, reading, unread, sent, answered, queue>>
      /\ eref' = Set(eref, c, eref[c] - 1)
  BY <1>1, <1>2, <1>3 DEF Unref, serviceVars, drainVars, entryVars, pollVars, peerVars, lifeVars, Quiet, Goto
<1>5. /\ Touches(c) /\ UNCHANGED <<victim, keep_alive_list, idle, premature, state, tref, tmutex, node, pipe, reading, unread, sent, answered, queue>>
      /\ eref'[c] = eref[c] - 1
  BY <1>4 DEF Set, SInv, TypeOK, Touches, Same, Quiet
<1>6. \A K : Waiting(c, K)' = Waiting(c, K)
  BY <1>4, SameWaiting
<1>7. /\ At(c, Holding)' = At(c, Holding) - 1 /\ At(c, Twice)' = At(c, Twice)
      /\ At(c, InSession)' = At(c, InSession) /\ At(c, PollHands)' = At(c, PollHands)
      /\ At(c, AtRequest)' = At(c, AtRequest) /\ At(c, Arriving)' = At(c, Arriving)
      /\ At(c, AtClosed)' = At(c, AtClosed) /\ At(c, WriteResults)' = At(c, WriteResults)
      /\ At(c, Keeping)' = At(c, Keeping) /\ At(c, AtReply)' = At(c, AtReply)
      /\ At(c, AtUnkeep)' = At(c, AtUnkeep) /\ At(c, Locking)' = At(c, Locking)
      /\ At(c, Holding) > 0
  <2>1. ASSUME NEW K PROVE At(c, K)' = At(c, K) - (IF "Unref" \in K THEN 1 ELSE 0)
    <3>1. NoConn # c /\ TypeOK /\ At(c, K) \in Nat
      BY CommAssumption, Numbers DEF SInv
    <3> QED
      BY <1>1, <1>2, <3>1, MovesAt
  <2>2. ASSUME NEW K, "Unref" \in K PROVE At(c, K) > 0
    BY <1>1, <1>2, <2>2, Numbers DEF SInv
  <2> QED
    BY <1>3, <2>1, <2>2 DEF Known, Sized, Holding, Twice, InSession, PollHands, PollResults, Arriving, Counted,
                              WriteResults, Keeping, Locking, AtRequest, AtClosed, AtReply, AtUnkeep
<1>8. /\ Live(c)
  BY <1>3, <1>7 DEF Known, Sized, Conn, Counts, Replying, Live
<1>9. /\ Poll(c)' = Poll(c) /\ Requested(c)' = Requested(c) /\ Begun(c)' = Begun(c) /\ Arrived(c)' = Arrived(c)
      /\ (Live(c)' <=> Live(c))
  <2>1. Requested(c)' = Requested(c) /\ Arrived(c)' = Arrived(c) /\ (Live(c)' <=> Live(c))
    BY <1>3, <1>5, <1>6, <1>7, <1>8 DEF Requested, Arrived, Live, Known, Sized
  <2>2. Poll(c)' = Poll(c)
    BY <1>3, <1>5, <1>6, <1>7, <1>8, <2>1 DEF Poll, Bit, Known, Sized
  <2>3. Begun(c)' = Begun(c)
    BY <1>3, <1>5, <1>6, <1>7, <1>8, <2>2 DEF Begun, Bit, Known, Sized
  <2> QED
    BY <2>1, <2>2, <2>3
<1>10. Counts(c)'
  BY <1>3, <1>5, <1>7, <1>8, <1>9 DEF Known, Sized, Conn, Counts, Bit
<1>11. Single(c)'
  BY <1>3, <1>5, <1>7, <1>8, <1>9 DEF Known, Sized, Conn, Single
<1>12. Watching(c)'
  BY <1>3, <1>5, <1>7, <1>8, <1>9 DEF Known, Sized, Conn, Watching, Linked
<1>13. Replying(c)'
  BY <1>3, <1>5, <1>6, <1>7, <1>8, <1>9 DEF Known, Sized, Conn, Replying, Linked
<1>14. Locked(c)'
  BY <1>1, <1>2, <1>3, <1>5, LockMoves DEF Locking, Keeping
<1>15. Listed(c)'
  BY <1>3, <1>5, <1>7, <1>8, <1>9 DEF Known, Sized, Conn, Listed, Linked
<1>16. Heard(c)'
  BY <1>3, <1>5, <1>8 DEF Known, Conn, Heard, Unanswered, Replying, Bit
<1>17. TypeOK'
  <2>1. pc' \in [Threads -> OwnerPCs \cup HandlerPCs] /\ conn' \in [Threads -> Conns \cup {NoConn}]
    BY <1>2 DEF SInv, TypeOK, Moves, HandlerPCs, Results
  <2>2. eref[c] - 1 \in Nat
    BY <1>3 DEF Known
  <2>3. eref' \in [Conns -> Nat]
    BY <1>4, <2>2, SetIn DEF SInv, TypeOK
  <2> QED
    BY <2>1, <2>3, <1>4 DEF SInv, TypeOK, Quiet
<1>18. Conn(c)'
  BY <1>10, <1>11, <1>12, <1>13, <1>14, <1>15, <1>16 DEF Conn
<1>19. Stays(c)
  BY <1>3, <1>5, <1>8, <1>9 DEF Stays, Known
<1>20. IsInjective(keep_alive_list')
  BY <1>4 DEF SInv, Draining
<1> QED
  BY <1>1, <1>2, <1>4, <1>5, <1>17, <1>18, <1>19, <1>20, ThreadStep, CommAssumption DEF HandlerPCs, Results, Counted, Ending

-----------------------------------------------------------------------------
(***************************************************************************)
(* Steps that begin or end a connection.                                   *)
(***************************************************************************)
LEMMA SetsMove ==
  ASSUME NEW c \in Conns, Touches(c)
  PROVE  /\ Cardinality(Targets) \in Nat /\ Cardinality(Opened) \in Nat /\ Cardinality(Active) \in Nat
         /\ Cardinality(Targets)' = Cardinality(Targets) - (IF tref[c] > 0 THEN 1 ELSE 0) + (IF tref'[c] > 0 THEN 1 ELSE 0)
         /\ Cardinality(Opened)' = Cardinality(Opened) - (IF Live(c) THEN 1 ELSE 0) + (IF Live(c)' THEN 1 ELSE 0)
         /\ Cardinality(Active)' = Cardinality(Active)
              - (IF state[c] \notin {"None", "Closing", "Freed"} THEN 1 ELSE 0)
              + (IF state'[c] \notin {"None", "Closing", "Freed"} THEN 1 ELSE 0)
<1>1. ASSUME NEW S, NEW T, S \subseteq Conns, S \ {c} = T \ {c}
      PROVE  /\ Cardinality(S) \in Nat
             /\ Cardinality(T) = Cardinality(S) - (IF c \in S THEN 1 ELSE 0) + (IF c \in T THEN 1 ELSE 0)
  <2>1. IsFiniteSet(S)
    BY <1>1, FS_Subset, CommAssumption
  <2> QED
    BY <1>1, <2>1, Toggle DEF Bit
<1>2. Targets \subseteq Conns /\ Targets \ {c} = Targets' \ {c} /\ (c \in Targets <=> tref[c] > 0) /\ (c \in Targets' <=> tref'[c] > 0)
  BY DEF Touches, Same, Targets
<1>3. Opened \subseteq Conns /\ Opened \ {c} = Opened' \ {c} /\ (c \in Opened <=> Live(c)) /\ (c \in Opened' <=> Live(c)')
  BY DEF Touches, Same, Opened, Live
<1>4. /\ Active \subseteq Conns /\ Active \ {c} = Active' \ {c}
      /\ (c \in Active <=> state[c] \notin {"None", "Closing", "Freed"})
      /\ (c \in Active' <=> state'[c] \notin {"None", "Closing", "Freed"})
  BY DEF Touches, Same, Active
<1>5. /\ Cardinality(Targets) \in Nat
      /\ Cardinality(Targets') = Cardinality(Targets) - (IF c \in Targets THEN 1 ELSE 0) + (IF c \in Targets' THEN 1 ELSE 0)
  BY <1>1, <1>2
<1>6. /\ Cardinality(Opened) \in Nat
      /\ Cardinality(Opened') = Cardinality(Opened) - (IF c \in Opened THEN 1 ELSE 0) + (IF c \in Opened' THEN 1 ELSE 0)
  BY <1>1, <1>3
<1>7. /\ Cardinality(Active) \in Nat
      /\ Cardinality(Active') = Cardinality(Active) - (IF c \in Active THEN 1 ELSE 0) + (IF c \in Active' THEN 1 ELSE 0)
  BY <1>1, <1>4
<1> QED
  BY <1>2, <1>3, <1>4, <1>5, <1>6, <1>7

\* The numbers behind the limit.
LEMMA LimitNumbers ==
  /\ Hands({"Enter"}) \in Nat /\ Hands(Counted) \in Nat /\ Hands({"Enter"}) <= Hands(Counted)
  /\ Cardinality(Active) \in Nat /\ Cardinality(Opened) \in Nat /\ Cardinality(Active) <= Cardinality(Opened)
<1>1. ASSUME NEW S, NEW T, S \subseteq T, IsFiniteSet(T)
      PROVE  Cardinality(S) \in Nat /\ Cardinality(T) \in Nat /\ Cardinality(S) <= Cardinality(T)
  BY <1>1, FS_Subset, FS_CardinalityType
<1>2. Active \subseteq Opened /\ Opened \subseteq Conns
  BY DEF Active, Opened, Live
<1>3. IsFiniteSet(Opened)
  BY <1>2, FS_Subset, CommAssumption
<1> DEFINE S == {t \in Handlers : pc[t] \in {"Enter"}}
           T == {t \in Handlers : pc[t] \in Counted}
<1>4. S \subseteq T /\ T \subseteq Handlers /\ Hands({"Enter"}) = Cardinality(S) /\ Hands(Counted) = Cardinality(T)
  BY DEF Hands, Counted
<1> HIDE DEF S, T
<1>5. IsFiniteSet(T)
  BY <1>4, FS_Subset, CommAssumption
<1> QED
  BY <1>1, <1>2, <1>3, <1>4, <1>5

\* What the move of a thread that has a connection leaves alone.
LEMMA OwnerApart ==
  ASSUME SInv, NEW t \in Handlers, NEW b, NEW x, Moves(t, b, x), conn[t] # NoConn, x # NoConn \/ b \notin Ending
  PROVE  /\ pc'[Owner] = pc[Owner] /\ pc' = [pc EXCEPT ![t] = b]
         /\ At(NoConn, Ending)' = At(NoConn, Ending) /\ At(NoConn, Ending) \in Nat
<1>1. TypeOK /\ At(NoConn, Ending) \in Nat
  BY Numbers DEF SInv
<1>2. At(NoConn, Ending)' = At(NoConn, Ending) - (IF conn[t] = NoConn /\ pc[t] \in Ending THEN 1 ELSE 0)
                              + (IF x = NoConn /\ b \in Ending THEN 1 ELSE 0)
  BY <1>1, MovesAt
<1>3. pc'[Owner] = pc[Owner]
  BY CommAssumption DEF Moves, SInv, TypeOK, Threads
<1> QED
  BY <1>1, <1>2, <1>3 DEF Moves

\* The end of a connection: of one that was never entered, or of the last reference.
LEMMA DropKeeps ==
  ASSUME SInv, TypeOK', NEW t \in Handlers, NEW c \in Conns, conn[t] = c, Moves(t, "Ready", NoConn),
         Drop(t), tref[c] = 1, UNCHANGED <<listener, smutex, victim, queue, keep_alive_list, stop_requested, destroying>>,
         Touches(c), Conn(c)',
         \/ pc[t] \in {"DrainOne", "Enter"} /\ state[c] = "None"
         \/ pc[t] = "Unref" /\ Live(c)
  PROVE  SInv'
<1>1. Elsewhere(c)
  BY QueueElsewhere
<1>2. \A d \in Conns : Conn(d)'
  BY <1>1, OthersMove
<1>3. Placed'
  <2>1. "Ready" \in HandlerPCs /\ (NoConn = NoConn <=> "Ready" \in Ending \cup {"Ready", "ListenFailed"})
    BY DEF HandlerPCs
  <2> QED
    BY <2>1, PlacedMoves DEF lifeVars
<1>4. Draining'
  <2>1. IsInjective(keep_alive_list')
    BY DEF SInv, Draining
  <2>2. t \in Threads /\ pc' = [pc EXCEPT ![t] = "Ready"] /\ UNCHANGED <<smutex, victim>>
    BY DEF Moves, Threads
  <2>3. pc[t] \notin Drained \cup {"DrainAll"} /\ "Ready" \notin Drained
    BY DEF Drained
  <2> QED
    BY ONLY SInv, <2>1, <2>2, <2>3, DrainingMoves
<1>5. /\ state'[c] = "Freed" /\ tref'[c] = 0 /\ ref' = ref - 1 /\ (unbind_finish' <=> unbind_finish \/ ref = 1)
      /\ conn_count' = conn_count - 1
  <2>1. ref' = ref - 1 /\ unbind_finish' = (unbind_finish \/ ref = 1)
    BY DEF Drop, TargetDecref, ServiceDecref
  <2>2. unbind_finish' <=> unbind_finish \/ ref = 1
    BY <2>1, ZenonT(40)
  <2> QED
    BY <2>1, <2>2 DEF Drop, TargetDecref, Set, SInv, TypeOK
<1>6. Service'
  <2>1. /\ pc'[Owner] = pc[Owner] /\ At(NoConn, Ending)' = At(NoConn, Ending) /\ At(NoConn, Ending) \in Nat
    BY OwnerApart, CommAssumption DEF Ending
  <2>2. Waiting(NoConn, {"Unlisten"})' = Waiting(NoConn, {"Unlisten"}) /\ Waiting(NoConn, {"Unlisten"}) \in Nat
    BY SameWaiting, Numbers DEF SInv
  <2>3. Pending' = Pending /\ Pending \in Nat
    BY <2>1, <2>2 DEF Pending, Bit
  <2>4. Bound' = Bound /\ Bound \in Nat
    BY <2>1, <2>3 DEF Bound, Bit
  <2>5. Cardinality(Targets)' = Cardinality(Targets) - 1 /\ Cardinality(Targets) \in Nat /\ Cardinality(Targets)' \in Nat
    <3>1. Cardinality(Targets)' = Cardinality(Targets) - 1 /\ Cardinality(Targets) \in Nat
      BY <1>5, SetsMove
    <3>2. Targets' \subseteq Conns
      BY DEF Targets
    <3>3. Cardinality(Targets)' \in Nat
      BY <3>2, FS_Subset, FS_CardinalityType, CommAssumption
    <3> QED
      BY <3>1, <3>3
  <2>6. ref' = Bound' + Cardinality(Targets)' /\ ref > 0 /\ ref \in Nat /\ ~unbind_finish
    <3>1. ref = Bound + Cardinality(Targets) /\ (unbind_finish => ref = 0)
      BY DEF SInv, Service
    <3>2. ref' = ref - 1
      BY <1>5
    <3> QED
      BY <2>4, <2>5, <3>1, <3>2
  <2>7. pc[Owner] \notin {"Off", "Stopped", "Starting"}
    BY <2>6 DEF SInv, Service
  <2>8. ref = 1 => pc[Owner] = "WaitFinish"
    <3>1. ref = 1 => Bound = 0
      BY <1>5, <2>4, <2>5, <2>6
    <3>2. Bound = 0 => pc[Owner] \notin Ending \cup {"Up"}
      BY <2>3 DEF Bound, Bit
    <3> QED
      BY <2>7, <3>1, <3>2 DEF SInv, Placed, OwnerPCs, Ending
  <2>9. unbind_finish' => pc'[Owner] = "WaitFinish" /\ ref' = 0
    BY <1>5, <2>1, <2>6, <2>8
  <2> QED
    BY <2>1, <2>3, <2>4, <2>6, <2>7, <2>9 DEF SInv, Service
<1>7. Limits'
  <2>1. TypeOK /\ pc' = [pc EXCEPT ![t] = "Ready"]
    BY DEF SInv, Moves
  <2>2. /\ Hands(Counted)' = Hands(Counted) - (IF pc[t] \in Counted THEN 1 ELSE 0)
        /\ Hands({"Enter"})' = Hands({"Enter"}) - (IF pc[t] \in {"Enter"} THEN 1 ELSE 0)
    <3>1. ASSUME NEW K, "Ready" \notin K PROVE Hands(K)' = Hands(K) - (IF pc[t] \in K THEN 1 ELSE 0)
      <4>1. Hands(K) \in Nat /\ Hands(K)' = Hands(K) - (IF pc[t] \in K THEN 1 ELSE 0) + (IF "Ready" \in K THEN 1 ELSE 0)
        BY ONLY <2>1, HandsMove, t \in Handlers
      <4> QED
        BY <3>1, <4>1
    <3> QED
      BY <3>1 DEF Counted
  <2>3. /\ Cardinality(Opened)' = Cardinality(Opened) - (IF Live(c) THEN 1 ELSE 0)
        /\ Cardinality(Active)' <= Cardinality(Active) /\ Cardinality(Active)' \in Int
    BY <1>5, SetsMove DEF Live
  <2>4. MaxConnections \in Nat
    BY CommAssumption
  <2>5. pc[t] \in Counted <=> ~Live(c)
    BY DEF Live, Counted
  <2> QED
    BY <1>5, <2>2, <2>3, <2>4, <2>5, LimitNumbers DEF SInv, Limits
<1> QED
  BY <1>2, <1>3, <1>4, <1>6, <1>7 DEF SInv

\* A connection that is gone, and what is then left of it.
Nothing(c) ==
  /\ Poll(c) = 0 /\ Requested(c) = 0 /\ Begun(c) = 0 /\ Arrived(c) = 0
  /\ At(c, Holding) = 0 /\ At(c, Twice) = 0 /\ At(c, InSession) = 0 /\ At(c, PollHands) = 0
  /\ At(c, Keeping) = 0 /\ At(c, WriteResults) = 0 /\ At(c, AtUnkeep) = 0 /\ At(c, Locking) = 0
  /\ Waiting(c, WriteResults) = 0 /\ node[c] = "none" /\ ~pipe[c] /\ reading[c] = "no"
  /\ c \notin idle /\ ~Contains(keep_alive_list, c) /\ victim # c

\* That is all the invariant asks of it.
LEMMA FreedConn ==
  ASSUME NEW c \in Conns, Nothing(c)', state'[c] = "Freed", eref'[c] = 0, tref'[c] = 0,
         sent'[c] = 0, answered'[c] = 0, unread'[c] = 0, Locked(c)'
  PROVE  Conn(c)'
<1>1. Counts(c)' /\ Single(c)' /\ Watching(c)'
  BY DEF Nothing, Counts, Single, Watching, Bit, Live
<1>2. Replying(c)' /\ Listed(c)' /\ Heard(c)'
  BY DEF Nothing, Replying, Listed, Heard, Unanswered, Bit
<1> QED
  BY <1>1, <1>2 DEF Conn

\* The counts of the service do not go below zero.
LEMMA DropTypes ==
  ASSUME SInv, NEW t \in Handlers, NEW c \in Conns, conn[t] = c, Drop(t), tref[c] = 1, Live(c) \/ pc[t] \in Counted
  PROVE  ref' \in Nat /\ conn_count' \in Nat /\ unbind_finish' \in BOOLEAN
<1>1. ASSUME NEW S, NEW x \in S, IsFiniteSet(S) PROVE Cardinality(S) \in Nat /\ Cardinality(S) > 0
  BY <1>1, FS_EmptySet, FS_CardinalityType
<1>2. Cardinality(Targets) \in Nat /\ Cardinality(Targets) > 0
  <2>1. c \in Targets /\ Targets \subseteq Conns
    BY DEF Targets
  <2>2. IsFiniteSet(Targets)
    BY <2>1, FS_Subset, CommAssumption
  <2> QED
    BY <1>1, <2>1, <2>2
<1>3. Bound \in Nat
  <2>1. Waiting(NoConn, {"Unlisten"}) \in Nat /\ At(NoConn, Ending) \in Nat
    BY Numbers DEF SInv
  <2> QED
    BY <2>1 DEF Bound, Pending, Bit
<1>4. conn_count > 0
  <2>1. CASE Live(c)
    <3>1. c \in Opened /\ Opened \subseteq Conns
      BY <2>1 DEF Opened
    <3>2. IsFiniteSet(Opened)
      BY <3>1, FS_Subset, CommAssumption
    <3>3. Cardinality(Opened) \in Nat /\ Cardinality(Opened) > 0
      BY <1>1, <3>1, <3>2
    <3> QED
      BY <3>3, LimitNumbers DEF SInv, Limits
  <2>2. CASE pc[t] \in Counted
    <3> DEFINE S == {u \in Handlers : pc[u] \in Counted}
    <3>1. t \in S /\ S \subseteq Handlers /\ Hands(Counted) = Cardinality(S)
      BY <2>2 DEF Hands
    <3> HIDE DEF S
    <3>2. IsFiniteSet(S)
      BY <3>1, FS_Subset, CommAssumption
    <3>3. Cardinality(S) \in Nat /\ Cardinality(S) > 0
      BY <1>1, <3>1, <3>2
    <3> QED
      BY <3>1, <3>3, LimitNumbers DEF SInv, Limits
  <2> QED
    BY <2>1, <2>2
<1>5. ref' = ref - 1 /\ conn_count' = conn_count - 1 /\ unbind_finish' = (unbind_finish \/ ref = 1)
  BY DEF Drop, TargetDecref, ServiceDecref
<1>6. ref \in Nat /\ conn_count \in Nat /\ ref = Bound + Cardinality(Targets)
  BY DEF SInv, TypeOK, Service
<1>7. unbind_finish' \in BOOLEAN
  BY <1>5, ZenonT(40)
<1> QED
  BY <1>2, <1>3, <1>4, <1>5, <1>6, <1>7

\* The last reference to the entry is given back: __release_conn.
LEMMA UnrefLast ==
  ASSUME SInv, NEW t \in Handlers, Unref(t), UNCHANGED lifeVars, pc[t] = "Unref", eref[conn[t]] = 1
  PROVE  SInv'
<1>1. PICK c \in Conns : c = conn[t]
  BY DEF SInv, Placed, TypeOK, Threads, Ending
<1>2. Moves(t, "Ready", NoConn) /\ eref[c] = 1 /\ Drop(t)
  BY <1>1 DEF Unref, Goto, Moves, Leave
<1>3. Known(c) /\ Parts(c)
  BY KnownAll, PartsAll
<1>4. At(c, Holding) > 0 /\ At(c, AtUnref) > 0
  BY <1>1, Numbers DEF SInv, Holding, AtUnref
<1>5. Poll(c) = 0 /\ At(c, Holding) = 1 /\ At(c, Twice) = 0 /\ Live(c)
  BY <1>2, <1>3, <1>4 DEF Known, Sized, Conn, Counts
<1>6. /\ At(c, PollHands) = 0 /\ At(c, AtReply) = 0 /\ At(c, Keeping) = 0 /\ At(c, WriteResults) = 0
      /\ At(c, AtUnkeep) = 0 /\ At(c, AtClosed) = 0 /\ At(c, Locking) = 0 /\ At(c, InSession) = At(c, AtRequest)
  <2>1. At(c, PollHands) = 0 /\ At(c, AtReply) = 0 /\ At(c, AtKeepWritten) = 0 /\ At(c, AtEndSession) = 0
    <3>1. ASSUME NEW i \in Nat, NEW j \in Nat, NEW k \in Nat, NEW l \in Nat, NEW m \in Nat, m > 0, 0 + i + j + k + l + m = 1
          PROVE  i = 0 /\ j = 0 /\ k = 0 /\ l = 0
      BY <3>1
    <3>2. /\ At(c, PollHands) \in Nat /\ At(c, AtReply) \in Nat /\ At(c, AtKeepWritten) \in Nat
          /\ At(c, AtEndSession) \in Nat /\ At(c, AtUnref) \in Nat
      BY <1>3 DEF Known, Sized, Parts
    <3>3. 0 + At(c, PollHands) + At(c, AtReply) + At(c, AtKeepWritten) + At(c, AtEndSession) + At(c, AtUnref) = 1
      BY <1>3, <1>5 DEF Parts
    <3> QED
      BY ONLY <1>4, <3>1, <3>2, <3>3
  <2>2. At(c, AtKeepReplied) = 0 /\ At(c, AtReplied) = 0
    BY <1>3, <1>5 DEF Parts
  <2>3. At(c, AtClosed) = 0 /\ At(c, WriteResults) = 0 /\ At(c, AtUnkeep) = 0
    BY <1>3, <2>1 DEF Known, Sized, Parts
  <2>4. At(c, Keeping) = 0
    BY <1>3, <2>1, <2>2 DEF Parts
  <2>5. At(c, Locking) = 0
    BY <1>3, <2>3, <2>4 DEF Parts
  <2>6. At(c, InSession) = At(c, AtRequest)
    BY <1>3, <2>1, <2>2, <2>3, <2>4 DEF Known, Sized, Parts
  <2> QED
    BY <2>1, <2>3, <2>4, <2>5, <2>6
<1>7. node[c] = "none" /\ ~pipe[c] /\ Waiting(c, PollResults) = 0 /\ Waiting(c, WriteResults) = 0
  BY <1>3, <1>5 DEF Known, Sized, Poll, Bit
<1>8. ~Linked(c)
  BY <1>5, <1>6 DEF Linked
<1>9. Requested(c) = 0
  <2>1. state[c] # "Success"
    BY <1>3, <1>8 DEF Known, Conn, Watching
  <2>2. state[c] = "Closing" => Requested(c) = 0
    BY <1>3, <1>5, <1>7 DEF Known, Poll, Bit
  <2> QED
    BY <1>3, <2>1, <2>2 DEF Known, Conn, Watching, Single
<1>10. Waiting(c, AtRequest) = 0 /\ At(c, AtRequest) = 0 /\ At(c, InSession) = 0
  BY <1>3, <1>6, <1>9 DEF Requested, Known, Sized
<1>11. Arrived(c) = 0 /\ Begun(c) = 0
  BY <1>3, <1>5, <1>6, <1>7, <1>10 DEF Known, Conn, Single, Live, Begun, Bit
<1>12. tref[c] = 1
  BY <1>3, <1>5, <1>10, <1>11 DEF Known, Conn, Counts, Bit
<1>13. reading[c] = "no" /\ c \notin idle /\ ~Contains(keep_alive_list, c) /\ victim # c
  BY <1>3, <1>6, <1>7, <1>8 DEF Known, Conn, Watching, Replying, Listed
<1>14. /\ UNCHANGED <<listener, smutex, victim, keep_alive_list, stop_requested, destroying, idle, tmutex, node, pipe, reading, queue, listening>>
       /\ eref' = Set(eref, c, 0) /\ tref' = Set(tref, c, 0) /\ state' = Set(state, c, "Freed") /\ unread' = Set(unread, c, 0)
       /\ sent' = Set(sent, c, 0) /\ answered' = Set(answered, c, 0) /\ premature' = premature \ {c}
  BY <1>1, <1>2, <1>12 DEF Unref, Drop, TargetDecref, drainVars, pollVars, lifeVars
<1>15. /\ Touches(c) /\ state'[c] = "Freed" /\ eref'[c] = 0 /\ tref'[c] = 0
       /\ sent'[c] = 0 /\ answered'[c] = 0 /\ unread'[c] = 0
  BY <1>14 DEF Set, SInv, TypeOK, Touches, Same
<1>16. \A K : Waiting(c, K)' = Waiting(c, K)
  BY <1>14, SameWaiting
<1>17. /\ At(c, Holding)' = 0 /\ At(c, Twice)' = 0 /\ At(c, InSession)' = 0 /\ At(c, PollHands)' = 0
       /\ At(c, Keeping)' = 0 /\ At(c, WriteResults)' = 0 /\ At(c, AtUnkeep)' = 0 /\ At(c, Locking)' = 0
       /\ At(c, AtRequest)' = 0 /\ At(c, AtClosed)' = 0 /\ At(c, Arriving)' = At(c, Arriving)
  <2>1. ASSUME NEW K PROVE At(c, K)' = At(c, K) - (IF "Unref" \in K THEN 1 ELSE 0)
    <3>1. NoConn # c /\ TypeOK /\ At(c, K) \in Nat
      BY CommAssumption, Numbers DEF SInv
    <3> QED
      BY <1>1, <1>2, <3>1, MovesAt
  <2> QED
    BY <1>3, <1>5, <1>6, <1>10, <2>1 DEF Known, Sized, Holding, Twice, InSession, PollHands, PollResults,
         Arriving, Counted, WriteResults, Keeping, Locking, AtRequest, AtClosed, AtUnkeep
<1>18. Nothing(c)'
  <2>1. Requested(c)' = 0 /\ Arrived(c)' = 0
    BY <1>10, <1>11, <1>16, <1>17 DEF Requested, Arrived
  <2>2. Poll(c)' = 0
    BY <1>7, <1>14, <1>15, <1>16 DEF Poll, Bit
  <2>3. Begun(c)' = 0
    BY <1>7, <1>10, <1>14, <1>15, <1>16 DEF Begun, Bit
  <2> QED
    BY <1>7, <1>13, <1>14, <1>16, <1>17, <2>1, <2>2, <2>3 DEF Nothing
<1>19. Locked(c)'
  BY <1>1, <1>2, <1>14, LockMoves DEF Locking, Keeping
<1>20. Conn(c)'
  BY <1>15, <1>18, <1>19, FreedConn
<1>21. TypeOK'
  <2>1. pc' \in [Threads -> OwnerPCs \cup HandlerPCs] /\ conn' \in [Threads -> Conns \cup {NoConn}]
    BY <1>2 DEF SInv, TypeOK, Moves, HandlerPCs, Results
  <2>2. eref' \in [Conns -> Nat] /\ tref' \in [Conns -> Nat] /\ state' \in [Conns -> States] /\ unread' \in [Conns -> Nat]
    BY <1>14, SetIn DEF SInv, TypeOK, States
  <2>3. sent' \in [Conns -> Nat] /\ answered' \in [Conns -> Nat] /\ premature' \subseteq Conns
    BY <1>14, SetIn DEF SInv, TypeOK
  <2>4. ref' \in Nat /\ conn_count' \in Nat /\ unbind_finish' \in BOOLEAN
    BY <1>1, <1>2, <1>5, <1>12, DropTypes
  <2> QED
    BY <2>1, <2>2, <2>3, <2>4, <1>14 DEF SInv, TypeOK
<1> QED
  BY <1>1, <1>2, <1>5, <1>12, <1>14, <1>15, <1>20, <1>21, DropKeeps

\* A connection that was accepted and has no entry yet.
Unborn(c) ==
  /\ state[c] = "None" /\ eref[c] = 0 /\ tref[c] = 1
  /\ Poll(c) = 0 /\ Requested(c) = 0 /\ Begun(c) = 0 /\ Arrived(c) = 1
  /\ At(c, Holding) = 0 /\ At(c, Twice) = 0 /\ At(c, InSession) = 0 /\ At(c, PollHands) = 0
  /\ At(c, Keeping) = 0 /\ At(c, WriteResults) = 0 /\ At(c, AtUnkeep) = 0 /\ At(c, Locking) = 0
  /\ At(c, AtReply) = 0 /\ At(c, AtClosed) = 0 /\ At(c, AtRequest) = 0 /\ At(c, Arriving) = 1
  /\ Waiting(c, WriteResults) = 0 /\ Waiting(c, PollResults) = 0 /\ Waiting(c, AtRequest) = 0
  /\ Waiting(c, AtAccepted) = 0 /\ node[c] = "none" /\ ~pipe[c] /\ reading[c] = "no"
  /\ c \notin idle /\ ~Contains(keep_alive_list, c) /\ victim # c

\* The thread that brings in a connection is the only one that knows it.
LEMMA Fresh ==
  ASSUME SInv, NEW t \in Handlers, NEW c \in Conns, conn[t] = c, pc[t] \in Arriving
  PROVE  Known(c) /\ Unborn(c)
<1>1. Known(c) /\ Parts(c)
  BY KnownAll, PartsAll
<1>2. At(c, Arriving) > 0
  BY Numbers DEF SInv
<1>3. Arrived(c) = 1 /\ At(c, Arriving) = 1 /\ Waiting(c, AtAccepted) = 0 /\ state[c] = "None"
  BY <1>1, <1>2 DEF Known, Sized, Conn, Single, Arrived
<1>4. eref[c] = 0 /\ ~Live(c)
  BY <1>1, <1>3 DEF Known, Conn, Counts, Live
<1>5. Poll(c) = 0 /\ At(c, Holding) = 0 /\ At(c, Twice) = 0
  BY <1>1, <1>4 DEF Known, Sized, Conn, Counts
<1>6. /\ At(c, PollHands) = 0 /\ At(c, AtReply) = 0 /\ At(c, AtKeepWritten) = 0 /\ At(c, AtEndSession) = 0
  <2>1. ASSUME NEW K, K \subseteq Holding PROVE At(c, K) = 0
    <3>1. At(c, K) \in Nat /\ At(c, K) <= At(c, Holding)
      BY <2>1, Numbers DEF SInv
    <3> QED
      BY <1>5, <3>1
  <2> QED
    BY <2>1 DEF Holding, AtReply, AtKeepWritten, AtEndSession
<1>7. At(c, AtKeepReplied) = 0 /\ At(c, AtReplied) = 0
  BY <1>1, <1>5 DEF Parts
<1>8. At(c, AtClosed) = 0 /\ At(c, WriteResults) = 0 /\ At(c, AtUnkeep) = 0
  BY <1>1, <1>6 DEF Known, Sized, Parts
<1>9. At(c, Keeping) = 0
  BY <1>1, <1>6, <1>7 DEF Parts
<1>10. At(c, Locking) = 0
  BY <1>1, <1>8, <1>9 DEF Parts
<1>11. At(c, InSession) = At(c, AtRequest)
  BY <1>1, <1>6, <1>7, <1>8, <1>9 DEF Known, Sized, Parts
<1>12. node[c] = "none" /\ ~pipe[c] /\ Waiting(c, PollResults) = 0 /\ Waiting(c, WriteResults) = 0
  BY <1>1, <1>5 DEF Known, Sized, Poll, Bit
<1>13. Requested(c) = 0 /\ Waiting(c, AtRequest) = 0 /\ At(c, AtRequest) = 0
  <2>1. Requested(c) = 0
    BY <1>1, <1>3 DEF Known, Conn, Single, Watching
  <2> QED
    BY <1>1, <2>1 DEF Known, Sized, Requested
<1>14. Begun(c) = 0
  BY <1>3, <1>12, <1>13 DEF Begun, Bit
<1>15. tref[c] = 1
  BY <1>1, <1>3, <1>4, <1>11, <1>13, <1>14 DEF Known, Conn, Counts, Bit
<1>16. reading[c] = "no" /\ c \notin idle /\ ~Contains(keep_alive_list, c) /\ victim # c
  BY <1>1, <1>3, <1>12 DEF Known, Conn, Watching, Replying, Listed
<1> QED
  BY <1>1, <1>3, <1>4, <1>5, <1>6, <1>8, <1>9, <1>10, <1>11, <1>12, <1>13, <1>14, <1>15, <1>16 DEF Unborn

\* handle_listen_result gives a connection up.
LEMMA ArrivalDropped ==
  ASSUME SInv, NEW t \in Handlers, pc[t] \in {"DrainOne", "Enter"}, Moves(t, "Ready", NoConn), Drop(t),
         UNCHANGED <<listening, listener, smutex, victim, keep_alive_list, eref, idle, tmutex, node, pipe, reading,
                     queue, stop_requested, destroying>>
  PROVE  SInv'
<1>1. PICK c \in Conns : c = conn[t]
  BY DEF SInv, Placed, TypeOK, Threads, Ending
<1>2. Known(c) /\ Unborn(c)
  BY <1>1, Fresh DEF Arriving, Counted
<1>3. /\ tref' = Set(tref, c, 0) /\ state' = Set(state, c, "Freed") /\ unread' = Set(unread, c, 0)
      /\ sent' = Set(sent, c, 0) /\ answered' = Set(answered, c, 0) /\ premature' = premature \ {c}
  BY <1>1, <1>2 DEF Drop, TargetDecref, Unborn
<1>4. /\ Touches(c) /\ state'[c] = "Freed" /\ eref'[c] = 0 /\ tref'[c] = 0
      /\ sent'[c] = 0 /\ answered'[c] = 0 /\ unread'[c] = 0
  BY <1>2, <1>3 DEF Set, SInv, TypeOK, Touches, Same, Unborn
<1>5. \A K : Waiting(c, K)' = Waiting(c, K)
  BY SameWaiting
<1>6. /\ At(c, Holding)' = 0 /\ At(c, Twice)' = 0 /\ At(c, InSession)' = 0 /\ At(c, PollHands)' = 0
      /\ At(c, Keeping)' = 0 /\ At(c, WriteResults)' = 0 /\ At(c, AtUnkeep)' = 0 /\ At(c, Locking)' = 0
      /\ At(c, AtRequest)' = 0 /\ At(c, AtClosed)' = 0 /\ At(c, Arriving)' = 0
  <2>1. ASSUME NEW K PROVE At(c, K)' = At(c, K) - (IF pc[t] \in K THEN 1 ELSE 0)
    <3>1. NoConn # c /\ TypeOK /\ At(c, K) \in Nat
      BY CommAssumption, Numbers DEF SInv
    <3> QED
      BY <1>1, <3>1, MovesAt
  <2> QED
    BY <1>2, <2>1 DEF Unborn, Holding, Twice, InSession, PollHands, PollResults,
         Arriving, Counted, WriteResults, Keeping, Locking, AtRequest, AtClosed, AtUnkeep
<1>7. Nothing(c)'
  <2>1. Requested(c)' = 0 /\ Arrived(c)' = 0
    BY <1>2, <1>5, <1>6 DEF Requested, Arrived, Unborn
  <2>2. Poll(c)' = 0
    BY <1>2, <1>4, <1>5 DEF Poll, Bit, Unborn
  <2>3. Begun(c)' = 0
    BY <1>2, <1>4, <1>5 DEF Begun, Bit, Unborn
  <2> QED
    BY <1>2, <1>5, <1>6, <2>1, <2>2, <2>3 DEF Nothing, Unborn
<1>8. Locked(c)'
  BY <1>1, LockMoves DEF Locking, Keeping
<1>9. Conn(c)'
  BY <1>4, <1>7, <1>8, FreedConn
<1>10. tref[c] = 1 /\ state[c] = "None" /\ pc[t] \in Counted
  BY <1>2 DEF Unborn, Counted
<1>11. TypeOK'
  <2>1. pc' \in [Threads -> OwnerPCs \cup HandlerPCs] /\ conn' \in [Threads -> Conns \cup {NoConn}]
    BY DEF SInv, TypeOK, Moves, HandlerPCs, Results
  <2>2. tref' \in [Conns -> Nat] /\ state' \in [Conns -> States] /\ unread' \in [Conns -> Nat]
    BY <1>3, SetIn DEF SInv, TypeOK, States
  <2>3. sent' \in [Conns -> Nat] /\ answered' \in [Conns -> Nat] /\ premature' \subseteq Conns
    BY <1>3, SetIn DEF SInv, TypeOK
  <2>4. ref' \in Nat /\ conn_count' \in Nat /\ unbind_finish' \in BOOLEAN
    BY <1>1, <1>10, DropTypes
  <2> QED
    BY <2>1, <2>2, <2>3, <2>4 DEF SInv, TypeOK
<1> QED
  BY <1>1, <1>4, <1>9, <1>10, <1>11, DropKeeps

\* new_connection refuses.
LEMMA NoRoomKeeps ==
  ASSUME SInv, NEW t \in Handlers, NoRoom(t), UNCHANGED lifeVars
  PROVE  SInv'
<1>1. pc[t] = "DrainOne" /\ Moves(t, "Ready", NoConn) /\ Drop(t)
  BY DEF NoRoom, Goto, Moves, Leave
<1>2. UNCHANGED <<listening, listener, smutex, victim, keep_alive_list, eref, idle, tmutex, node, pipe, reading,
                  queue, stop_requested, destroying>>
  BY DEF NoRoom, drainVars, pollVars, lifeVars
<1> QED
  BY <1>1, <1>2, ArrivalDropped

\* accept_conn makes the entry, and its socket is watched, or the connection is given up.
LEMMA EnterKeeps ==
  ASSUME SInv, NEW t \in Handlers, Enter(t), UNCHANGED lifeVars
  PROVE  SInv'
<1>1. PICK c \in Conns : c = conn[t]
  BY DEF Enter, Goto, SInv, Placed, TypeOK, Threads, Ending
<1>2. pc[t] = "Enter" /\ Moves(t, "Ready", NoConn)
  BY DEF Enter, Goto, Moves, Leave
<1>3. CASE Drop(t) /\ UNCHANGED <<eref, node>>
  <2>1. UNCHANGED <<listening, listener, smutex, victim, keep_alive_list, eref, idle, tmutex, node, pipe, reading,
                    queue, stop_requested, destroying>>
    BY <1>3 DEF Enter, drainVars, pollVars, lifeVars
  <2> QED
    BY <1>2, <1>3, <2>1, ArrivalDropped
<1>4. CASE /\ state' = Set(state, conn[t], "Connected") /\ eref' = Set(eref, conn[t], 1)
           /\ node' = Set(node, conn[t], "read") /\ UNCHANGED <<conn_count, tref, ref, unbind_finish, peerVars>>
  <2>1. Known(c) /\ Unborn(c)
    BY <1>1, <1>2, Fresh DEF Arriving, Counted
  <2>2. /\ UNCHANGED <<listening, listener, ref, unbind_finish, conn_count, smutex, victim, keep_alive_list, tref, idle,
                       tmutex, pipe, reading, queue, unread, sent, answered, premature, stop_requested, destroying>>
        /\ state' = Set(state, c, "Connected") /\ eref' = Set(eref, c, 1) /\ node' = Set(node, c, "read")
    BY <1>1, <1>4 DEF Enter, drainVars, peerVars, lifeVars
  <2>3. Touches(c) /\ state'[c] = "Connected" /\ eref'[c] = 1 /\ node'[c] = "read"
    BY <2>2 DEF Set, SInv, TypeOK, Touches, Same
  <2>4. \A K : Waiting(c, K)' = Waiting(c, K)
    BY <2>2, SameWaiting
  <2>5. /\ At(c, Holding)' = 0 /\ At(c, Twice)' = 0 /\ At(c, InSession)' = 0 /\ At(c, PollHands)' = 0
        /\ At(c, Keeping)' = 0 /\ At(c, WriteResults)' = 0 /\ At(c, AtUnkeep)' = 0 /\ At(c, Locking)' = 0
        /\ At(c, AtRequest)' = 0 /\ At(c, AtClosed)' = 0 /\ At(c, Arriving)' = 0
    <3>1. ASSUME NEW K PROVE At(c, K)' = At(c, K) - (IF pc[t] \in K THEN 1 ELSE 0)
      <4>1. NoConn # c /\ TypeOK /\ At(c, K) \in Nat
        BY CommAssumption, Numbers DEF SInv
      <4> QED
        BY <1>1, <1>2, <4>1, MovesAt
    <3> QED
      BY <1>2, <2>1, <3>1 DEF Unborn, Holding, Twice, InSession, PollHands, PollResults,
           Arriving, Counted, WriteResults, Keeping, Locking, AtRequest, AtClosed, AtUnkeep
  <2>6. Requested(c)' = 0 /\ Arrived(c)' = 0 /\ Poll(c)' = 1 /\ Live(c)'
    <3>1. Requested(c)' = 0 /\ Arrived(c)' = 0
      BY <2>1, <2>4, <2>5 DEF Requested, Arrived, Unborn
    <3>2. Poll(c)' = 1
      BY <2>1, <2>2, <2>3, <2>4 DEF Poll, Bit, Unborn
    <3> QED
      BY <2>3, <3>1, <3>2 DEF Live
  <2>7. Begun(c)' = 0
    BY <2>1, <2>3, <2>4 DEF Begun, Bit, Unborn
  <2>8. Counts(c)' /\ Single(c)'
    BY <2>1, <2>2, <2>3, <2>5, <2>6, <2>7 DEF Counts, Single, Bit, Unborn
  <2>9. Watching(c)' /\ Listed(c)'
    BY <2>1, <2>2, <2>3, <2>5, <2>6 DEF Watching, Listed, Unborn
  <2>10. Replying(c)'
    BY <2>1, <2>2, <2>3, <2>4, <2>5 DEF Replying, Unborn
  <2>11. Heard(c)'
    BY <2>1, <2>2, <2>3 DEF Known, Conn, Heard, Unanswered, Unborn, Bit
  <2>12. Locked(c)'
    BY <1>1, <1>2, <2>2, LockMoves DEF Locking, Keeping
  <2>13. Conn(c)'
    BY <2>8, <2>9, <2>10, <2>11, <2>12 DEF Conn
  <2>14. \A d \in Conns : Conn(d)'
    <3>1. Elsewhere(c)
      BY <2>2, QueueElsewhere
    <3> QED
      BY <1>1, <1>2, <2>3, <2>13, <3>1, OthersMove
  <2>15. TypeOK'
    <3>1. pc' \in [Threads -> OwnerPCs \cup HandlerPCs] /\ conn' \in [Threads -> Conns \cup {NoConn}]
      BY <1>2 DEF SInv, TypeOK, Moves, HandlerPCs, Results
    <3>2. eref' \in [Conns -> Nat] /\ state' \in [Conns -> States] /\ node' \in [Conns -> {"none", "read", "write"}]
      BY <2>2, SetIn DEF SInv, TypeOK, States
    <3> QED
      BY <2>2, <3>1, <3>2 DEF SInv, TypeOK
  <2>16. Placed'
    <3>1. "Ready" \in HandlerPCs /\ (NoConn = NoConn <=> "Ready" \in Ending \cup {"Ready", "ListenFailed"})
      BY DEF HandlerPCs
    <3> QED
      BY <1>2, <2>2, <3>1, PlacedMoves DEF lifeVars
  <2>17. Draining'
    <3>1. IsInjective(keep_alive_list')
      BY <2>2 DEF SInv, Draining
    <3> QED
      BY <1>2, <2>2, <3>1, DrainingMoves DEF Moves, Drained, Threads
  <2>18. Service'
    <3>1. pc'[Owner] = pc[Owner] /\ At(NoConn, Ending)' = At(NoConn, Ending)
      BY <1>1, <1>2, OwnerApart, CommAssumption DEF Ending
    <3>2. Waiting(NoConn, {"Unlisten"})' = Waiting(NoConn, {"Unlisten"})
      BY <2>2, SameWaiting
    <3>3. Targets' = Targets
      BY <2>2 DEF Targets
    <3> QED
      BY <2>2, <3>1, <3>2, <3>3, ServiceMoves
  <2>19. Limits'
    <3>1. TypeOK /\ pc' = [pc EXCEPT ![t] = "Ready"]
      BY <1>2 DEF SInv, Moves
    <3>2. Hands(Counted)' = Hands(Counted) - 1 /\ Hands({"Enter"})' = Hands({"Enter"}) - 1
      <4>1. ASSUME NEW K, "Ready" \notin K, "Enter" \in K PROVE Hands(K)' = Hands(K) - 1
        <5>1. Hands(K) \in Nat /\ Hands(K)' = Hands(K) - (IF pc[t] \in K THEN 1 ELSE 0) + (IF "Ready" \in K THEN 1 ELSE 0)
          BY ONLY <3>1, HandsMove, t \in Handlers
        <5> QED
          BY <1>2, <4>1, <5>1
      <4> QED
        BY <4>1 DEF Counted
    <3>3. Cardinality(Opened)' = Cardinality(Opened) + 1 /\ Cardinality(Active)' = Cardinality(Active) + 1
      BY <2>1, <2>3, SetsMove DEF Live, Unborn
    <3>4. MaxConnections \in Nat
      BY CommAssumption
    <3> QED
      BY <2>2, <3>2, <3>3, <3>4, LimitNumbers DEF SInv, Limits
  <2> QED
    BY <2>14, <2>15, <2>16, <2>17, <2>18, <2>19 DEF SInv
<1> QED
  BY <1>3, <1>4 DEF Enter

\* new_connection counts, and enters the connection or has to make room.
LEMMA NewConnectionKeeps ==
  ASSUME SInv, NEW t \in Handlers, NewConnection(t), UNCHANGED lifeVars
  PROVE  SInv'
<1>1. PICK c \in Conns : c = conn[t]
  BY DEF NewConnection, Goto, SInv, Placed, TypeOK, Threads, Ending
<1>2. PICK b \in {"Enter", "DrainOne"} :
        pc[t] = "Accepted" /\ Moves(t, b, c) /\ (b = "Enter" => conn_count < MaxConnections)
  <2>1. conn' = [conn EXCEPT ![t] = c]
    BY <1>1 DEF NewConnection, SInv, TypeOK, Threads
  <2> QED
    BY <2>1 DEF NewConnection, Goto, Moves
<1>3. /\ conn_count' = conn_count + 1
      /\ UNCHANGED <<listening, listener, ref, unbind_finish, smutex, victim, keep_alive_list, state, eref, tref, idle,
                     tmutex, node, pipe, reading, queue, unread, sent, answered, premature, stop_requested, destroying>>
  BY DEF NewConnection, drainVars, entryVars, pollVars, peerVars, lifeVars
<1>4. Touches(c) /\ Same(c) /\ Elsewhere(c)
  BY <1>3, QueueElsewhere DEF Touches, Same
<1>5. \A d \in Conns : d # c => Conn(d)'
  BY <1>1, <1>2, <1>4, OthersMove
<1>6. Conn(c)'
  <2>1. Known(c) /\ \A K : Waiting(c, K)' = Waiting(c, K)
    BY <1>3, KnownAll, SameWaiting
  <2>2. /\ At(c, Holding)' = At(c, Holding) /\ At(c, Twice)' = At(c, Twice)
        /\ At(c, InSession)' = At(c, InSession) /\ At(c, PollHands)' = At(c, PollHands)
        /\ At(c, AtRequest)' = At(c, AtRequest) /\ At(c, Arriving)' = At(c, Arriving)
        /\ At(c, AtClosed)' = At(c, AtClosed) /\ At(c, WriteResults)' = At(c, WriteResults)
        /\ At(c, Keeping)' = At(c, Keeping) /\ At(c, AtReply)' = At(c, AtReply)
        /\ At(c, AtUnkeep)' = At(c, AtUnkeep) /\ At(c, Locking)' = At(c, Locking)
    <3>1. ASSUME NEW K, "Accepted" \in K <=> b \in K PROVE At(c, K)' = At(c, K)
      <4>1. TypeOK /\ At(c, K) \in Nat
        BY Numbers DEF SInv
      <4>2. At(c, K)' = At(c, K) - (IF "Accepted" \in K THEN 1 ELSE 0) + (IF b \in K THEN 1 ELSE 0)
        BY <1>1, <1>2, <4>1, MovesAt
      <4> QED
        BY <3>1, <4>1, <4>2
    <3> QED
      BY <1>2, <3>1 DEF Holding, Twice, InSession, PollHands, PollResults, Arriving, Counted,
           WriteResults, Keeping, Locking, AtRequest, AtClosed, AtReply, AtUnkeep
  <2>3. Poll(c)' = Poll(c) /\ Requested(c)' = Requested(c)
    BY <1>4, <2>1, <2>2 DEF Poll, Requested, Same
  <2>4. Linked(c)' <=> Linked(c)
    BY <2>2, <2>3 DEF Linked
  <2>5. Begun(c)' = Begun(c) /\ Arrived(c)' = Arrived(c) /\ (Live(c)' <=> Live(c)) /\ Unanswered(c)' = Unanswered(c)
    BY <1>4, <2>1, <2>2, <2>3 DEF Begun, Arrived, Live, Unanswered, Same
  <2>6. Counts(c)' /\ Single(c)'
    BY <1>4, <2>1, <2>2, <2>3, <2>5 DEF Known, Conn, Counts, Single, Same, Bit
  <2>7. Watching(c)' /\ Listed(c)' /\ Heard(c)'
    BY <1>4, <2>1, <2>3, <2>4, <2>5 DEF Known, Conn, Watching, Listed, Heard, Same
  <2>8. Replying(c)'
    BY <1>4, <2>1, <2>2, <2>4 DEF Known, Conn, Replying, Same
  <2>9. Locked(c)'
    BY <1>1, <1>2, <1>4, LockMoves DEF Locking, Keeping, Same
  <2> QED
    BY <2>6, <2>7, <2>8, <2>9 DEF Conn
<1>7. TypeOK'
  <2>1. pc' \in [Threads -> OwnerPCs \cup HandlerPCs] /\ conn' \in [Threads -> Conns \cup {NoConn}]
    BY <1>2 DEF SInv, TypeOK, Moves, HandlerPCs, Results
  <2>2. conn_count' \in Nat
    BY <1>3 DEF SInv, TypeOK
  <2> QED
    BY <1>3, <2>1, <2>2 DEF SInv, TypeOK
<1>8. Placed'
  <2>1. b \in HandlerPCs /\ (c = NoConn <=> b \in Ending \cup {"Ready", "ListenFailed"})
    BY CommAssumption DEF HandlerPCs, Ending
  <2> QED
    BY <1>2, <1>3, <2>1, PlacedMoves DEF lifeVars
<1>9. Draining'
  <2>1. IsInjective(keep_alive_list')
    BY <1>3 DEF SInv, Draining
  <2> QED
    BY <1>2, <1>3, <2>1, DrainingMoves DEF Moves, Drained, Threads
<1>10. Service'
  <2>1. pc'[Owner] = pc[Owner] /\ At(NoConn, Ending)' = At(NoConn, Ending)
    BY <1>1, <1>2, OwnerApart, CommAssumption DEF Ending
  <2>2. Waiting(NoConn, {"Unlisten"})' = Waiting(NoConn, {"Unlisten"})
    BY <1>3, SameWaiting
  <2>3. Targets' = Targets
    BY <1>3 DEF Targets
  <2> QED
    BY <1>3, <2>1, <2>2, <2>3, ServiceMoves
<1>11. Limits'
  <2>1. TypeOK /\ pc' = [pc EXCEPT ![t] = b]
    BY <1>2 DEF SInv, Moves
  <2>2. ASSUME NEW K PROVE /\ Hands(K) \in Nat
                           /\ Hands(K)' = Hands(K) - (IF "Accepted" \in K THEN 1 ELSE 0) + (IF b \in K THEN 1 ELSE 0)
    <3>1. /\ Hands(K) \in Nat
          /\ Hands(K)' = Hands(K) - (IF pc[t] \in K THEN 1 ELSE 0) + (IF b \in K THEN 1 ELSE 0)
      BY ONLY <2>1, HandsMove, t \in Handlers
    <3> QED
      BY <1>2, <3>1
  <2>3. Hands(Counted)' = Hands(Counted) + 1 /\ Hands({"Enter"})' = Hands({"Enter"}) + (IF b = "Enter" THEN 1 ELSE 0)
    BY <2>2 DEF Counted
  <2>4. Cardinality(Opened)' = Cardinality(Opened) /\ Cardinality(Active)' = Cardinality(Active)
    <3>1. Opened' = Opened /\ Active' = Active
      BY <1>3 DEF Opened, Active, Live
    <3> QED
      BY <3>1
  <2>5. MaxConnections \in Nat
    BY CommAssumption
  <2> QED
    BY <1>2, <1>3, <2>3, <2>4, <2>5, LimitNumbers DEF SInv, Limits
<1> QED
  BY <1>5, <1>6, <1>7, <1>8, <1>9, <1>10, <1>11 DEF SInv

\* A thread takes a result: what waited is now in its hands.
LEMMA GetKeeps ==
  ASSUME SInv, NEW t \in Handlers, Get(t), UNCHANGED lifeVars
  PROVE  SInv'
<1>1. /\ queue \in Seq(Entry) /\ queue # <<>> /\ queue' = Tail(queue)
      /\ pc[t] = "Ready" /\ pc' = [pc EXCEPT ![t] = Head(queue).kind]
      /\ conn' = [conn EXCEPT ![t] = Head(queue).conn]
  BY DEF Get, Goto, Set, SInv, TypeOK, Entry
<1>2. /\ UNCHANGED <<listening, listener, ref, unbind_finish, conn_count, smutex, victim, keep_alive_list, state, eref, tref, idle,
                     tmutex, node, pipe, reading, unread, sent, answered, premature, stop_requested, destroying>>
  BY DEF Get, serviceVars, drainVars, entryVars, peerVars, lifeVars
<1>3. /\ Head(queue) \in Entry /\ Tail(queue) \in Seq(Entry) /\ Len(Tail(queue)) = Len(queue) - 1 /\ Len(queue) \in Nat \ {0}
      /\ Head(queue) = queue[1] /\ \A i \in 1..Len(Tail(queue)) : Tail(queue)[i] = queue[i + 1]
  BY <1>1, HeadTailProperties, EmptySeq, LenProperties
<1>4. PICK k \in Results, x \in Conns \cup {NoConn} : k = Head(queue).kind /\ x = Head(queue).conn
  BY <1>3 DEF Entry
<1>5. Moves(t, k, x) /\ conn[t] = NoConn /\ (x = NoConn <=> k \in {"Unlisten", "ListenFailed"})
  <2>1. 1 \in 1..Len(queue)
    BY <1>3
  <2> QED
    BY <1>1, <1>3, <1>4, <2>1 DEF Moves, SInv, Placed
<1>6. ASSUME NEW d, NEW K PROVE Waiting(d, K)' = Waiting(d, K) - (IF x = d /\ k \in K THEN 1 ELSE 0)
  <2>1. Kept(Tail(queue), d, K) = Kept(queue, d, K) - (IF Head(queue).conn = d /\ Head(queue).kind \in K THEN 1 ELSE 0)
    BY <1>1, KeptGet
  <2>2. Waiting(d, K)' = Kept(Tail(queue), d, K) /\ Waiting(d, K) = Kept(queue, d, K)
    BY <1>1 DEF Waiting
  <2> QED
    BY <1>4, <2>1, <2>2
<1>7. ASSUME NEW d, NEW K, "Ready" \notin K PROVE At(d, K)' = At(d, K) + (IF x = d /\ k \in K THEN 1 ELSE 0) /\ At(d, K) \in Nat
  <2>1. TypeOK /\ At(d, K) \in Nat
    BY Numbers DEF SInv
  <2>2. At(d, K)' = At(d, K) - (IF conn[t] = d /\ pc[t] \in K THEN 1 ELSE 0) + (IF x = d /\ k \in K THEN 1 ELSE 0)
    BY <1>5, <2>1, MovesAt
  <2> QED
    BY <1>1, <1>7, <2>1, <2>2
<1>8. TypeOK'
  <2>1. pc' \in [Threads -> OwnerPCs \cup HandlerPCs] /\ conn' \in [Threads -> Conns \cup {NoConn}]
    BY <1>5 DEF SInv, TypeOK, Moves, HandlerPCs
  <2>2. queue' \in Seq([kind : Results, conn : Conns \cup {NoConn}])
    BY <1>1, <1>3 DEF Entry
  <2> QED
    BY <1>2, <2>1, <2>2 DEF SInv, TypeOK
<1>9. Placed'
  <2>1. pc'[Owner] = pc[Owner] /\ ~destroying' /\ pc[Owner] \in OwnerPCs \ {"Gone"}
    BY <1>1, <1>2, CommAssumption DEF SInv, TypeOK, Threads, Placed
  <2>2. ASSUME NEW u \in Handlers
        PROVE  pc'[u] \in HandlerPCs /\ (conn'[u] = NoConn <=> pc'[u] \in Ending \cup {"Ready", "ListenFailed"})
    <3>1. CASE u = t
      <4>1. pc'[t] = k /\ conn'[t] = x
        BY <1>5 DEF Moves, SInv, TypeOK, Threads
      <4>2. k \in HandlerPCs /\ (k \in {"Unlisten", "ListenFailed"} <=> k \in Ending \cup {"Ready", "ListenFailed"})
        BY DEF HandlerPCs, Results, Ending
      <4> QED
        BY <1>5, <3>1, <4>1, <4>2
    <3>2. CASE u # t
      <4>1. pc'[u] = pc[u] /\ conn'[u] = conn[u]
        BY <1>5, <3>2 DEF Moves, SInv, TypeOK, Threads
      <4> QED
        BY <4>1 DEF SInv, Placed
    <3> QED
      BY <3>1, <3>2
  <2>3. ASSUME NEW i \in 1..Len(queue') PROVE queue'[i].conn = NoConn <=> queue'[i].kind \in {"Unlisten", "ListenFailed"}
    <3>1. i + 1 \in 1..Len(queue) /\ queue'[i] = queue[i + 1]
      BY <1>1, <1>3
    <3> QED
      BY <3>1 DEF SInv, Placed
  <2> QED
    BY <2>1, <2>2, <2>3 DEF Placed
<1>10. Draining'
  <2>1. IsInjective(keep_alive_list')
    BY <1>2 DEF SInv, Draining
  <2> QED
    BY <1>1, <1>2, <1>4, <2>1, DrainingMoves DEF Drained, Threads, Results
<1>11. Service'
  <2>1. pc'[Owner] = pc[Owner]
    BY <1>1, CommAssumption DEF SInv, TypeOK, Threads
  <2>2. k \in Ending <=> k \in {"Unlisten"}
    BY DEF Results, Ending
  <2>3. Waiting(NoConn, {"Unlisten"})' = Waiting(NoConn, {"Unlisten"}) - (IF x = NoConn /\ k \in {"Unlisten"} THEN 1 ELSE 0)
    BY <1>6
  <2>4. At(NoConn, Ending)' = At(NoConn, Ending) + (IF x = NoConn /\ k \in Ending THEN 1 ELSE 0) /\ At(NoConn, Ending) \in Nat
    BY <1>7 DEF Ending
  <2>5. Waiting(NoConn, {"Unlisten"}) \in Nat
    BY Numbers DEF SInv
  <2>6. Pending' = Pending
    BY <1>2, <2>2, <2>3, <2>4, <2>5 DEF Pending, Bit
  <2>7. Bound' = Bound
    BY <2>1, <2>6 DEF Bound, Bit
  <2>8. Cardinality(Targets)' = Cardinality(Targets)
    <3>1. Targets' = Targets
      BY <1>2 DEF Targets
    <3> QED
      BY <3>1
  <2> QED
    BY <1>2, <2>1, <2>6, <2>7, <2>8 DEF SInv, Service
<1>12. Limits'
  <2>1. Opened' = Opened /\ Active' \subseteq Active
    BY <1>2 DEF Opened, Active, Live
  <2>2. pc' = [pc EXCEPT ![t] = k] /\ conn_count' = conn_count /\ pc[t] \notin Counted /\ k \notin Counted
    BY <1>1, <1>2, <1>4 DEF Counted, Results
  <2> QED
    BY <2>1, <2>2, LimitsMove
<1>13. ASSUME NEW d \in Conns, d # x PROVE Conn(d)'
  <2>1. Unmoved(d)
    BY <1>5, <1>13, CommAssumption DEF Unmoved, Moves, SInv, TypeOK, Threads
  <2>2. \A K : Waiting(d, K)' = Waiting(d, K)
    <3> SUFFICES ASSUME NEW K PROVE Waiting(d, K)' = Waiting(d, K)
      OBVIOUS
    <3>1. Waiting(d, K) \in Nat
      BY Numbers DEF SInv
    <3> QED
      BY <1>6, <1>13, <3>1
  <2>3. Same(d) /\ Conn(d)
    BY <1>2 DEF Same, SInv
  <2> QED
    BY <2>1, <2>2, <2>3, Framed
<1>14. ASSUME NEW c \in Conns, c = x PROVE Conn(c)'
  <2>1. Known(c) /\ Same(c)
    BY <1>2, KnownAll DEF Same
  <2>2. k # "Unlisten" /\ k # "ListenFailed"
    BY <1>5, <1>14, CommAssumption
  <2>3. /\ At(c, Holding)' = At(c, Holding) + (IF k \in Holding THEN 1 ELSE 0) /\ At(c, Twice)' = At(c, Twice)
        /\ At(c, InSession)' = At(c, InSession) + (IF k \in InSession THEN 1 ELSE 0)
        /\ At(c, PollHands)' = At(c, PollHands) + (IF k \in PollResults THEN 1 ELSE 0)
        /\ At(c, AtRequest)' = At(c, AtRequest) + (IF k \in AtRequest THEN 1 ELSE 0)
        /\ At(c, Arriving)' = At(c, Arriving) + (IF k \in AtAccepted THEN 1 ELSE 0)
        /\ At(c, AtClosed)' = At(c, AtClosed) + (IF k \in AtClosed THEN 1 ELSE 0)
        /\ At(c, WriteResults)' = At(c, WriteResults) + (IF k \in WriteResults THEN 1 ELSE 0)
        /\ At(c, Keeping)' = At(c, Keeping) /\ At(c, AtReply)' = At(c, AtReply)
        /\ At(c, AtUnkeep)' = At(c, AtUnkeep) /\ At(c, Locking)' = At(c, Locking)
    <3>1. ASSUME NEW K, "Ready" \notin K PROVE At(c, K)' = At(c, K) + (IF k \in K THEN 1 ELSE 0) /\ At(c, K) \in Nat
      BY <1>7, <1>14, <3>1
    <3> QED
      BY <3>1 DEF Results, Holding, Twice, InSession, PollHands, PollResults, Arriving, Counted, WriteResults, Keeping,
           Locking, AtRequest, AtClosed, AtReply, AtUnkeep, AtAccepted
  <2>4. \A K : Waiting(c, K)' = Waiting(c, K) - (IF k \in K THEN 1 ELSE 0)
    BY <1>6, <1>14
  <2>5. /\ Waiting(c, PollResults)' = Waiting(c, PollResults) - (IF k \in PollResults THEN 1 ELSE 0)
        /\ Waiting(c, WriteResults)' = Waiting(c, WriteResults) - (IF k \in WriteResults THEN 1 ELSE 0)
        /\ Waiting(c, AtRequest)' = Waiting(c, AtRequest) - (IF k \in AtRequest THEN 1 ELSE 0)
        /\ Waiting(c, AtAccepted)' = Waiting(c, AtAccepted) - (IF k \in AtAccepted THEN 1 ELSE 0)
    BY <2>4
  <2>6. /\ (k \in Holding <=> k \in PollResults) /\ (k \in InSession <=> k \in WriteResults \/ k \in AtRequest)
        /\ (k \in PollResults <=> k \in WriteResults \/ k \in AtClosed) /\ ~(k \in WriteResults /\ k \in AtClosed)
        /\ ~(k \in WriteResults /\ k \in AtRequest) /\ ~(k \in AtClosed /\ k \in AtRequest)
    BY DEF Results, Holding, InSession, PollHands, PollResults, WriteResults, AtRequest, AtClosed, Twice, Keeping
  <2>7. /\ (k \in WriteResults => Waiting(c, WriteResults) > 0) /\ (k \in PollResults => Waiting(c, PollResults) > 0)
        /\ (k \in AtRequest => Waiting(c, AtRequest) > 0)
    <3>1. 1 \in 1..Len(queue) /\ queue[1].conn = c /\ queue[1].kind = k
      BY <1>3, <1>4, <1>14
    <3>2. ASSUME NEW K, k \in K PROVE Waiting(c, K) > 0
      BY <1>1, <3>1, <3>2, KeptFacts DEF Waiting
    <3> QED
      BY <3>2
  <2>8. Requested(c)' = Requested(c) /\ Arrived(c)' = Arrived(c) /\ (Live(c)' <=> Live(c)) /\ Unanswered(c)' = Unanswered(c)
    <3>1. Requested(c)' = Requested(c)
      BY <2>1, <2>3, <2>5 DEF Known, Sized, Requested
    <3>2. Arrived(c)' = Arrived(c)
      BY <2>1, <2>3, <2>5 DEF Known, Sized, Arrived
    <3> QED
      BY <2>1, <3>1, <3>2 DEF Live, Unanswered, Same
  <2>9. Poll(c)' = Poll(c) - (IF k \in PollResults THEN 1 ELSE 0)
    BY <2>1, <2>5, <2>8 DEF Known, Sized, Poll, Same, Bit
  <2>10. k \in WriteResults => state[c] = "Idle"
    BY <2>1, <2>7 DEF Known, Sized, Conn, Replying
  <2>11. Begun(c)' = Begun(c) - (IF k \in WriteResults \/ k \in AtRequest THEN 1 ELSE 0)
    BY <2>1, <2>3, <2>5, <2>6, <2>9, <2>10 DEF Known, Sized, Begun, Same, Bit
  <2>12. Linked(c)' <=> Linked(c)
    BY <2>1, <2>3, <2>9 DEF Linked, Known, Sized
  <2>13. Counts(c)'
    BY <2>1, <2>3, <2>6, <2>8, <2>9, <2>11 DEF Known, Sized, Conn, Counts, Same, Bit
  <2>14. Single(c)'
    BY <2>1, <2>3, <2>8, <2>9 DEF Known, Sized, Conn, Single, Same
  <2>15. Watching(c)' /\ Listed(c)' /\ Heard(c)'
    BY <2>1, <2>8, <2>12 DEF Known, Conn, Watching, Listed, Heard, Same
  <2>16. Replying(c)'
    <3>1. Waiting(c, WriteResults)' + At(c, WriteResults)' = Waiting(c, WriteResults) + At(c, WriteResults)
      BY <2>1, <2>3, <2>5 DEF Known, Sized
    <3> QED
      BY <2>1, <2>3, <2>12, <3>1 DEF Known, Sized, Conn, Replying, Same
  <2>17. Locked(c)'
    BY <1>1, <1>5, <1>14, <2>1, LockMoves DEF Locking, Keeping, Results, Same
  <2> QED
    BY <2>13, <2>14, <2>15, <2>16, <2>17 DEF Conn
<1> QED
  BY <1>8, <1>9, <1>10, <1>11, <1>12, <1>13, <1>14 DEF SInv


-----------------------------------------------------------------------------
(***************************************************************************)
(* The steps of the clients and of the poller.                             *)
(***************************************************************************)
\* A client sends a request.
LEMMA SendKeeps ==
  ASSUME SInv, NEW c \in Conns, Send(c), UNCHANGED lifeVars
  PROVE  SInv'
<1>1. Known(c) /\ state[c] \notin {"None", "Freed"}
  BY KnownAll DEF Send
<1>2. /\ Quiet /\ UNCHANGED listening
      /\ UNCHANGED <<victim, keep_alive_list, idle, state, eref, tref, tmutex, node, pipe, reading, answered, pc, conn, queue>>
      /\ sent' = Set(sent, c, sent[c] + 1) /\ unread' = Set(unread, c, unread[c] + 1)
      /\ premature' = (IF sent[c] > answered[c] THEN premature \cup {c} ELSE premature)
  BY DEF Send, serviceVars, drainVars, entryVars, pollVars, peerVars, lifeVars, Quiet
<1>3. /\ Touches(c) /\ UNCHANGED <<victim, keep_alive_list, idle, state, eref, tref, tmutex, node, pipe, reading, answered>>
      /\ sent'[c] = sent[c] + 1 /\ unread'[c] = unread[c] + 1 /\ (c \in premature' <=> c \in premature \/ sent[c] > answered[c])
  BY <1>2 DEF Set, SInv, TypeOK, Touches, Same, Quiet
<1>4. \A K : At(c, K)' = At(c, K)
  BY <1>2 DEF At
<1>5. \A K : Waiting(c, K)' = Waiting(c, K)
  BY <1>2, SameWaiting
<1>6. /\ Poll(c)' = Poll(c) /\ Requested(c)' = Requested(c) /\ Begun(c)' = Begun(c)
      /\ Arrived(c)' = Arrived(c) /\ (Live(c)' <=> Live(c))
  <2>1. Requested(c)' = Requested(c) /\ Arrived(c)' = Arrived(c) /\ (Live(c)' <=> Live(c))
    BY <1>1, <1>3, <1>4, <1>5 DEF Requested, Arrived, Live, Known, Sized
  <2>2. Poll(c)' = Poll(c)
    BY <1>1, <1>3, <1>4, <1>5, <2>1 DEF Poll, Bit, Known, Sized
  <2>3. Begun(c)' = Begun(c)
    BY <1>1, <1>3, <1>4, <1>5, <2>2 DEF Begun, Bit, Known, Sized
  <2> QED
    BY <2>1, <2>2, <2>3
<1>7. Counts(c)'
  BY <1>1, <1>3, <1>4, <1>5, <1>6 DEF Known, Sized, Conn, Counts, Bit
<1>8. Single(c)'
  BY <1>1, <1>3, <1>4, <1>5, <1>6 DEF Known, Sized, Conn, Single
<1>9. Watching(c)'
  BY <1>1, <1>3, <1>4, <1>5, <1>6 DEF Known, Sized, Conn, Watching, Linked
<1>10. Replying(c)'
  BY <1>1, <1>3, <1>4, <1>5, <1>6 DEF Known, Sized, Conn, Replying, Linked
<1>11. Listed(c)'
  BY <1>1, <1>3, <1>4, <1>5, <1>6 DEF Known, Sized, Conn, Listed, Linked
<1>12. Heard(c)'
  BY <1>1, <1>3, <1>4, <1>5, <1>6 DEF Known, Sized, Conn, Heard, Unanswered, Bit
<1>13. Locked(c)'
  BY <1>1, <1>2, <1>3 DEF Known, Conn, Locked
<1>14. Conn(c)'
  BY <1>7, <1>8, <1>9, <1>10, <1>11, <1>12, <1>13 DEF Conn
<1>15. Elsewhere(c) /\ Placed'
  BY <1>2, QueueElsewhere DEF SInv, Placed, Quiet
<1>16. TypeOK'
  <2>1. sent[c] + 1 \in Nat
    BY <1>1 DEF Known
  <2>2. sent' \in [Conns -> Nat]
    BY <1>2, <2>1, SetIn DEF SInv, TypeOK
  <2>3. unread[c] + 1 \in Nat
    BY <1>1 DEF Known
  <2>4. unread' \in [Conns -> Nat]
    BY <1>2, <2>3, SetIn DEF SInv, TypeOK
  <2>5. premature' \subseteq Conns
    BY <1>2 DEF SInv, TypeOK
  <2> QED
    BY <2>2, <2>4, <2>5, <1>2 DEF SInv, TypeOK, Quiet
<1>17. Stays(c) /\ IsInjective(keep_alive_list')
  <2>1. Stays(c)
    BY <1>1, <1>3, <1>4, <1>5, <1>6 DEF Stays, Known
  <2>2. IsInjective(keep_alive_list')
    BY <1>2 DEF SInv, Draining
  <2> QED
    BY <2>1, <2>2
<1> QED
  BY <1>2, <1>3, <1>14, <1>15, <1>16, <1>17, PollStep

\* The poller hands on the deleted node of a connection.
LEMMA DeletedKeeps ==
  ASSUME SInv, NEW c \in Conns, Deleted(c), UNCHANGED lifeVars
  PROVE  SInv'
<1>1. Known(c) /\ pipe[c] /\ reading[c] # "asked"
  BY KnownAll DEF Deleted
<1>2. /\ Quiet /\ UNCHANGED listening
      /\ UNCHANGED <<victim, keep_alive_list, idle, premature, state, eref, tref, tmutex, node, unread, sent, answered, pc, conn>>
      /\ pipe' = Set(pipe, c, FALSE) /\ reading' = Set(reading, c, "no")
      /\ Put("Closed", c)
  BY DEF Deleted, serviceVars, drainVars, entryVars, pollVars, peerVars, lifeVars, Quiet
<1>3. /\ Touches(c) /\ UNCHANGED <<victim, keep_alive_list, idle, premature, state, eref, tref, tmutex, node, unread, sent, answered>>
      /\ ~pipe'[c] /\ reading'[c] = "no"
  BY <1>2 DEF Set, SInv, TypeOK, Touches, Same, Quiet
<1>4. \A K : At(c, K)' = At(c, K)
  BY <1>2 DEF At
<1>5. /\ Waiting(c, PollResults)' = Waiting(c, PollResults) + 1
      /\ Waiting(c, WriteResults)' = Waiting(c, WriteResults)
      /\ Waiting(c, AtRequest)' = Waiting(c, AtRequest)
      /\ Waiting(c, AtAccepted)' = Waiting(c, AtAccepted)
  <2>1. ASSUME NEW K PROVE Waiting(c, K)' = Waiting(c, K) + (IF "Closed" \in K THEN 1 ELSE 0)
    BY <1>2, PutWaiting DEF SInv, Results
  <2> QED
    BY <1>1, <2>1 DEF Known, Sized, PollResults, WriteResults, AtRequest, AtAccepted
<1>6. state[c] # "Receiving"
  BY <1>1 DEF Known, Sized, Conn, Watching, Listed
<1>7. state[c] \in {"Error", "Closing", "KeepAlive"}
  BY <1>1 DEF Known, Sized, Conn, Watching, Listed
<1>8. /\ Poll(c)' = Poll(c) /\ Requested(c)' = Requested(c) /\ Begun(c)' = Begun(c)
      /\ Arrived(c)' = Arrived(c) /\ (Live(c)' <=> Live(c))
  <2>1. Requested(c)' = Requested(c) /\ Arrived(c)' = Arrived(c) /\ (Live(c)' <=> Live(c))
    BY <1>1, <1>3, <1>4, <1>5, <1>6, <1>7 DEF Requested, Arrived, Live, Known, Sized
  <2>2. Poll(c)' = Poll(c)
    BY <1>1, <1>3, <1>4, <1>5, <1>6, <1>7, <2>1 DEF Poll, Bit, Known, Sized
  <2>3. Begun(c)' = Begun(c)
    BY <1>1, <1>3, <1>4, <1>5, <1>6, <1>7, <2>2 DEF Begun, Bit, Known, Sized
  <2> QED
    BY <2>1, <2>2, <2>3
<1>9. Counts(c)'
  BY <1>1, <1>3, <1>4, <1>5, <1>6, <1>7, <1>8 DEF Known, Sized, Conn, Counts, Bit
<1>10. Single(c)'
  BY <1>1, <1>3, <1>4, <1>5, <1>6, <1>7, <1>8 DEF Known, Sized, Conn, Single
<1>11. Watching(c)'
  BY <1>1, <1>3, <1>4, <1>5, <1>6, <1>7, <1>8 DEF Known, Sized, Conn, Watching, Linked
<1>12. Replying(c)'
  BY <1>1, <1>3, <1>4, <1>5, <1>6, <1>7, <1>8 DEF Known, Sized, Conn, Replying, Linked
<1>13. Listed(c)'
  BY <1>1, <1>3, <1>4, <1>5, <1>6, <1>7, <1>8 DEF Known, Sized, Conn, Listed, Linked
<1>14. Heard(c)'
  BY <1>1, <1>3, <1>4, <1>5, <1>6, <1>7, <1>8 DEF Known, Sized, Conn, Heard, Unanswered, Bit
<1>15. Locked(c)'
  BY <1>1, <1>2, <1>3 DEF Known, Conn, Locked
<1>16. Conn(c)'
  BY <1>9, <1>10, <1>11, <1>12, <1>13, <1>14, <1>15 DEF Conn
<1>17. Elsewhere(c) /\ Placed' /\ queue' \in Seq(Entry)
  <2>1. c # NoConn
    BY CommAssumption
  <2>2. Elsewhere(c)
    BY <1>2, PutElsewhere DEF SInv, Results
  <2>3. Placed' /\ queue' \in Seq(Entry)
    BY <1>2, <2>1, PlacedPut DEF Results, Quiet, lifeVars
  <2> QED
    BY <2>2, <2>3
<1>18. TypeOK'
  <2>1. pipe' \in [Conns -> BOOLEAN]
    BY <1>2, SetIn DEF SInv, TypeOK, States
  <2>2. reading' \in [Conns -> {"no", "asked", "message"}]
    BY <1>2, SetIn DEF SInv, TypeOK, States
  <2> QED
    BY <2>1, <2>2, <1>17, <1>2 DEF SInv, TypeOK, Quiet, Entry
<1>19. Stays(c) /\ IsInjective(keep_alive_list')
  <2>1. Stays(c)
    BY <1>1, <1>3, <1>4, <1>5, <1>6, <1>7, <1>8 DEF Stays, Known
  <2>2. IsInjective(keep_alive_list')
    BY <1>2 DEF SInv, Draining
  <2> QED
    BY <2>1, <2>2
<1> QED
  BY <1>2, <1>3, <1>16, <1>17, <1>18, <1>19, PollStep

\* The poller finds a request; while the connection is replied to, it waits.
LEMMA ReadKeeps ==
  ASSUME SInv, NEW c \in Conns, Read(c), UNCHANGED lifeVars
  PROVE  SInv'
<1>1. Known(c) /\ (node[c] = "read" \/ pipe[c]) /\ reading[c] = "no" /\ unread[c] > 0 /\ (state[c] = "Idle" => tmutex[c] = NoThread)
  BY KnownAll DEF Read
<1>2. /\ Quiet /\ UNCHANGED listening
      /\ UNCHANGED <<victim, keep_alive_list, idle, premature, state, eref, tref, tmutex, node, pipe, unread, sent, answered, pc, conn, queue>>
      /\ reading' = Set(reading, c, "asked")
  BY DEF Read, serviceVars, drainVars, entryVars, pollVars, peerVars, lifeVars, Quiet
<1>3. /\ Touches(c) /\ UNCHANGED <<victim, keep_alive_list, idle, premature, state, eref, tref, tmutex, node, pipe, unread, sent, answered>>
      /\ reading'[c] = "asked"
  BY <1>2 DEF Set, SInv, TypeOK, Touches, Same, Quiet
<1>4. \A K : At(c, K)' = At(c, K)
  BY <1>2 DEF At
<1>5. \A K : Waiting(c, K)' = Waiting(c, K)
  BY <1>2, SameWaiting
<1>6. state[c] # "Receiving"
  BY <1>1 DEF Known, Sized, Conn, Watching
<1>7. state[c] = "Idle" => At(c, Locking) = 0 /\ At(c, Keeping) = 0
  BY <1>1, Unlocked DEF Known, Sized, Conn
<1>8. state[c] = "Idle" => c \in premature
  BY <1>1, <1>7 DEF Known, Sized, Conn, Replying, Watching, Listed, Heard, Unanswered, Bit
<1>9. /\ Poll(c)' = Poll(c) /\ Requested(c)' = Requested(c) /\ Begun(c)' = Begun(c)
      /\ Arrived(c)' = Arrived(c) /\ (Live(c)' <=> Live(c))
  <2>1. Requested(c)' = Requested(c) /\ Arrived(c)' = Arrived(c) /\ (Live(c)' <=> Live(c))
    BY <1>1, <1>3, <1>4, <1>5, <1>6, <1>7, <1>8 DEF Requested, Arrived, Live, Known, Sized
  <2>2. Poll(c)' = Poll(c)
    BY <1>1, <1>3, <1>4, <1>5, <1>6, <1>7, <1>8, <2>1 DEF Poll, Bit, Known, Sized
  <2>3. Begun(c)' = Begun(c)
    BY <1>1, <1>3, <1>4, <1>5, <1>6, <1>7, <1>8, <2>2 DEF Begun, Bit, Known, Sized
  <2> QED
    BY <2>1, <2>2, <2>3
<1>10. Counts(c)'
  BY <1>1, <1>3, <1>4, <1>5, <1>6, <1>7, <1>8, <1>9 DEF Known, Sized, Conn, Counts, Bit
<1>11. Single(c)'
  BY <1>1, <1>3, <1>4, <1>5, <1>6, <1>7, <1>8, <1>9 DEF Known, Sized, Conn, Single
<1>12. Watching(c)'
  BY <1>1, <1>3, <1>4, <1>5, <1>6, <1>7, <1>8, <1>9 DEF Known, Sized, Conn, Watching, Linked
<1>13. Replying(c)'
  BY <1>1, <1>3, <1>4, <1>5, <1>6, <1>7, <1>8, <1>9 DEF Known, Sized, Conn, Replying, Linked
<1>14. Listed(c)'
  BY <1>1, <1>3, <1>4, <1>5, <1>6, <1>7, <1>8, <1>9 DEF Known, Sized, Conn, Listed, Linked
<1>15. Heard(c)'
  BY <1>1, <1>3, <1>4, <1>5, <1>6, <1>7, <1>8, <1>9 DEF Known, Sized, Conn, Heard, Unanswered, Bit
<1>16. Locked(c)'
  BY <1>1, <1>2, <1>3 DEF Known, Conn, Locked
<1>17. Conn(c)'
  BY <1>10, <1>11, <1>12, <1>13, <1>14, <1>15, <1>16 DEF Conn
<1>18. Elsewhere(c) /\ Placed'
  BY <1>2, QueueElsewhere DEF SInv, Placed, Quiet
<1>19. TypeOK'
  <2>1. reading' \in [Conns -> {"no", "asked", "message"}]
    BY <1>2, SetIn DEF SInv, TypeOK, States
  <2> QED
    BY <2>1, <1>2 DEF SInv, TypeOK, Quiet
<1>20. Stays(c) /\ IsInjective(keep_alive_list')
  <2>1. Stays(c)
    BY <1>1, <1>3, <1>4, <1>5, <1>6, <1>7, <1>8, <1>9 DEF Stays, Known
  <2>2. IsInjective(keep_alive_list')
    BY <1>2 DEF SInv, Draining
  <2> QED
    BY <2>1, <2>2
<1> QED
  BY <1>2, <1>3, <1>17, <1>18, <1>19, <1>20, PollStep

\* create_request begins a session.
LEMMA CreateRequestKeeps ==
  ASSUME SInv, NEW c \in Conns, CreateRequest(c), UNCHANGED lifeVars
  PROVE  SInv'
<1>1. Known(c) /\ reading[c] = "asked" /\ smutex = NoThread /\ state[c] \in {"KeepAlive", "Connected"}
  BY KnownAll DEF CreateRequest
<1>2. /\ Quiet /\ UNCHANGED listening
      /\ UNCHANGED <<victim, idle, premature, eref, tmutex, node, pipe, unread, sent, answered, pc, conn, queue>>
      /\ state' = Set(state, c, "Receiving") /\ tref' = Set(tref, c, tref[c] + 1)
      /\ reading' = Set(reading, c, "message") /\ keep_alive_list' = RemoveFirst(keep_alive_list, c)
  BY DEF CreateRequest, serviceVars, drainVars, entryVars, pollVars, peerVars, lifeVars, Quiet
<1>list. /\ keep_alive_list' \in Seq(Conns) /\ IsInjective(keep_alive_list')
         /\ \A e : Contains(keep_alive_list', e) <=> (e # c /\ Contains(keep_alive_list, e))
  BY <1>2, Unlinked DEF SInv, TypeOK, Draining
<1>3. /\ Touches(c) /\ UNCHANGED <<victim, idle, premature, eref, tmutex, node, pipe, unread, sent, answered>>
      /\ state'[c] = "Receiving" /\ tref'[c] = tref[c] + 1 /\ reading'[c] = "message" /\ ~Contains(keep_alive_list', c)
  BY <1>2, <1>list DEF Set, SInv, TypeOK, Touches, Same, Quiet
<1>4. \A K : At(c, K)' = At(c, K)
  BY <1>2 DEF At
<1>5. \A K : Waiting(c, K)' = Waiting(c, K)
  BY <1>2, SameWaiting
<1>6. victim = NoConn /\ victim # c
  BY <1>1, CommAssumption DEF Known, Sized, Conn, SInv, Draining
<1>7. node[c] # "none" /\ ~pipe[c]
  BY <1>1, <1>6 DEF Known, Sized, Conn, Watching
<1>8. node[c] = "read"
  BY <1>1, <1>7 DEF Known, Sized, Conn, Replying
<1>9. Poll(c) = 1 /\ At(c, PollHands) = 0 /\ Waiting(c, PollResults) = 0
  BY <1>1, <1>8 DEF Known, Sized, Conn, Single, Poll, Bit
<1>10. At(c, AtClosed) = 0 /\ Waiting(c, WriteResults) = 0 /\ At(c, WriteResults) = 0 /\ At(c, AtUnkeep) = 0
  BY <1>1, <1>9 DEF Known, Sized, Conn
<1>11. Requested(c) = 0
  BY <1>1 DEF Known, Sized, Conn, Watching, Single
<1>12. At(c, Keeping) = 0
  BY <1>1 DEF Known, Sized, Conn, Replying
<1>13. Arrived(c) = 0 /\ Live(c)
  BY <1>1 DEF Known, Sized, Conn, Single, Live
<1>14. tref[c] > 0
  BY <1>1, <1>13 DEF Known, Sized, Conn, Counts, Bit
<1>15. /\ Poll(c)' = Poll(c) /\ Requested(c)' = Requested(c) /\ Begun(c)' = Begun(c) + 1
      /\ Arrived(c)' = Arrived(c) /\ (Live(c)' <=> Live(c))
  <2>1. Requested(c)' = Requested(c) /\ Arrived(c)' = Arrived(c) /\ (Live(c)' <=> Live(c))
    BY <1>1, <1>3, <1>4, <1>5, <1>6, <1>7, <1>8, <1>9, <1>10, <1>11, <1>12, <1>13, <1>14 DEF Requested, Arrived, Live, Known, Sized
  <2>2. Poll(c)' = Poll(c)
    BY <1>1, <1>3, <1>4, <1>5, <1>6, <1>7, <1>8, <1>9, <1>10, <1>11, <1>12, <1>13, <1>14, <2>1 DEF Poll, Bit, Known, Sized
  <2>3. Begun(c)' = Begun(c) + 1
    BY <1>1, <1>3, <1>4, <1>5, <1>6, <1>7, <1>8, <1>9, <1>10, <1>11, <1>12, <1>13, <1>14, <2>2 DEF Begun, Bit, Known, Sized
  <2> QED
    BY <2>1, <2>2, <2>3
<1>16. Counts(c)'
  BY <1>1, <1>3, <1>4, <1>5, <1>6, <1>7, <1>8, <1>9, <1>10, <1>11, <1>12, <1>13, <1>14, <1>15 DEF Known, Sized, Conn, Counts, Bit
<1>17. Single(c)'
  BY <1>1, <1>3, <1>4, <1>5, <1>6, <1>7, <1>8, <1>9, <1>10, <1>11, <1>12, <1>13, <1>14, <1>15 DEF Known, Sized, Conn, Single
<1>18. Watching(c)'
  BY <1>1, <1>3, <1>4, <1>5, <1>6, <1>7, <1>8, <1>9, <1>10, <1>11, <1>12, <1>13, <1>14, <1>15 DEF Known, Sized, Conn, Watching, Linked
<1>19. Replying(c)'
  BY <1>1, <1>3, <1>4, <1>5, <1>6, <1>7, <1>8, <1>9, <1>10, <1>11, <1>12, <1>13, <1>14, <1>15 DEF Known, Sized, Conn, Replying, Linked
<1>20. Listed(c)'
  BY <1>1, <1>3, <1>4, <1>5, <1>6, <1>7, <1>8, <1>9, <1>10, <1>11, <1>12, <1>13, <1>14, <1>15 DEF Known, Sized, Conn, Listed, Linked
<1>21. Heard(c)'
  BY <1>1, <1>3, <1>4, <1>5, <1>6, <1>7, <1>8, <1>9, <1>10, <1>11, <1>12, <1>13, <1>14, <1>15 DEF Known, Sized, Conn, Heard, Unanswered, Bit
<1>22. Locked(c)'
  BY <1>1, <1>2, <1>3 DEF Known, Conn, Locked
<1>23. Conn(c)'
  BY <1>16, <1>17, <1>18, <1>19, <1>20, <1>21, <1>22 DEF Conn
<1>24. Elsewhere(c) /\ Placed'
  BY <1>2, QueueElsewhere DEF SInv, Placed, Quiet
<1>25. TypeOK'
  <2>1. state' \in [Conns -> States]
    BY <1>2, SetIn DEF SInv, TypeOK, States
  <2>2. tref[c] + 1 \in Nat
    BY <1>1 DEF Known
  <2>3. tref' \in [Conns -> Nat]
    BY <1>2, <2>2, SetIn DEF SInv, TypeOK
  <2>4. reading' \in [Conns -> {"no", "asked", "message"}]
    BY <1>2, SetIn DEF SInv, TypeOK, States
  <2> QED
    BY <2>1, <2>3, <2>4, <1>list, <1>2 DEF SInv, TypeOK, Quiet
<1>26. Stays(c) /\ IsInjective(keep_alive_list')
  <2>1. Stays(c)
    BY <1>1, <1>3, <1>4, <1>5, <1>6, <1>7, <1>8, <1>9, <1>10, <1>11, <1>12, <1>13, <1>14, <1>15 DEF Stays, Known
  <2>2. IsInjective(keep_alive_list')
    BY <1>list
  <2> QED
    BY <2>1, <2>2
<1> QED
  BY <1>2, <1>3, <1>23, <1>24, <1>25, <1>26, PollStep

\* create_request refuses, and the connection is closed.
LEMMA RefuseWatched ==
  ASSUME SInv, NEW c \in Conns, Refuse(c), UNCHANGED lifeVars, node[c] = "read"
  PROVE  SInv'
<1>1. Known(c) /\ reading[c] = "asked" /\ state[c] \notin {"KeepAlive", "Connected"}
  BY KnownAll DEF Refuse
<1>2. /\ Quiet /\ UNCHANGED listening
      /\ UNCHANGED <<victim, keep_alive_list, idle, premature, state, eref, tref, tmutex, pipe, sent, answered, pc, conn>>
      /\ node' = Set(node, c, "none") /\ reading' = Set(reading, c, "no")
      /\ unread' = Set(unread, c, unread[c] - 1) /\ Put("Closed", c)
  BY <1>1 DEF Refuse, serviceVars, drainVars, entryVars, pollVars, peerVars, lifeVars, Quiet
<1>3. /\ Touches(c) /\ UNCHANGED <<victim, keep_alive_list, idle, premature, state, eref, tref, tmutex, pipe, sent, answered>>
      /\ node'[c] = "none" /\ reading'[c] = "no" /\ unread'[c] = unread[c] - 1
  BY <1>2 DEF Set, SInv, TypeOK, Touches, Same, Quiet
<1>4. \A K : At(c, K)' = At(c, K)
  BY <1>2 DEF At
<1>5. /\ Waiting(c, PollResults)' = Waiting(c, PollResults) + 1
      /\ Waiting(c, WriteResults)' = Waiting(c, WriteResults)
      /\ Waiting(c, AtRequest)' = Waiting(c, AtRequest)
      /\ Waiting(c, AtAccepted)' = Waiting(c, AtAccepted)
  <2>1. ASSUME NEW K PROVE Waiting(c, K)' = Waiting(c, K) + (IF "Closed" \in K THEN 1 ELSE 0)
    BY <1>2, PutWaiting DEF SInv, Results
  <2> QED
    BY <1>1, <2>1 DEF Known, Sized, PollResults, WriteResults, AtRequest, AtAccepted
<1>6. state[c] # "Receiving"
  BY <1>1 DEF Known, Sized, Conn, Watching, Replying
<1>7. unread[c] > 0
  BY <1>1 DEF Known, Sized, Conn, Watching
<1>8. /\ Poll(c)' = Poll(c) /\ Requested(c)' = Requested(c) /\ Begun(c)' = Begun(c)
      /\ Arrived(c)' = Arrived(c) /\ (Live(c)' <=> Live(c))
  <2>1. Requested(c)' = Requested(c) /\ Arrived(c)' = Arrived(c) /\ (Live(c)' <=> Live(c))
    BY <1>1, <1>3, <1>4, <1>5, <1>6, <1>7 DEF Requested, Arrived, Live, Known, Sized
  <2>2. Poll(c)' = Poll(c)
    BY <1>1, <1>3, <1>4, <1>5, <1>6, <1>7, <2>1 DEF Poll, Bit, Known, Sized
  <2>3. Begun(c)' = Begun(c)
    BY <1>1, <1>3, <1>4, <1>5, <1>6, <1>7, <2>2 DEF Begun, Bit, Known, Sized
  <2> QED
    BY <2>1, <2>2, <2>3
<1>9. Counts(c)'
  BY <1>1, <1>3, <1>4, <1>5, <1>6, <1>7, <1>8 DEF Known, Sized, Conn, Counts, Bit
<1>10. Single(c)'
  BY <1>1, <1>3, <1>4, <1>5, <1>6, <1>7, <1>8 DEF Known, Sized, Conn, Single
<1>11. Watching(c)'
  BY <1>1, <1>3, <1>4, <1>5, <1>6, <1>7, <1>8 DEF Known, Sized, Conn, Watching, Linked
<1>12. Replying(c)'
  BY <1>1, <1>3, <1>4, <1>5, <1>6, <1>7, <1>8 DEF Known, Sized, Conn, Replying, Linked
<1>13. Listed(c)'
  BY <1>1, <1>3, <1>4, <1>5, <1>6, <1>7, <1>8 DEF Known, Sized, Conn, Listed, Linked
<1>14. Heard(c)'
  BY <1>1, <1>3, <1>4, <1>5, <1>6, <1>7, <1>8 DEF Known, Sized, Conn, Heard, Unanswered, Bit
<1>15. Locked(c)'
  BY <1>1, <1>2, <1>3 DEF Known, Conn, Locked
<1>16. Conn(c)'
  BY <1>9, <1>10, <1>11, <1>12, <1>13, <1>14, <1>15 DEF Conn
<1>17. Elsewhere(c) /\ Placed' /\ queue' \in Seq(Entry)
  <2>1. c # NoConn
    BY CommAssumption
  <2>2. Elsewhere(c)
    BY <1>2, PutElsewhere DEF SInv, Results
  <2>3. Placed' /\ queue' \in Seq(Entry)
    BY <1>2, <2>1, PlacedPut DEF Results, Quiet, lifeVars
  <2> QED
    BY <2>2, <2>3
<1>18. TypeOK'
  <2>1. node' \in [Conns -> {"none", "read", "write"}]
    BY <1>2, SetIn DEF SInv, TypeOK, States
  <2>2. reading' \in [Conns -> {"no", "asked", "message"}]
    BY <1>2, SetIn DEF SInv, TypeOK, States
  <2>3. unread[c] - 1 \in Nat
    BY <1>1, <1>7 DEF Known
  <2>4. unread' \in [Conns -> Nat]
    BY <1>2, <2>3, SetIn DEF SInv, TypeOK
  <2> QED
    BY <2>1, <2>2, <2>4, <1>17, <1>2 DEF SInv, TypeOK, Quiet, Entry
<1>19. Stays(c) /\ IsInjective(keep_alive_list')
  <2>1. Stays(c)
    BY <1>1, <1>3, <1>4, <1>5, <1>6, <1>7, <1>8 DEF Stays, Known
  <2>2. IsInjective(keep_alive_list')
    BY <1>2 DEF SInv, Draining
  <2> QED
    BY <2>1, <2>2
<1> QED
  BY <1>2, <1>3, <1>16, <1>17, <1>18, <1>19, PollStep

\* create_request refuses, and the node was deleted meanwhile.
LEMMA RefuseDeleted ==
  ASSUME SInv, NEW c \in Conns, Refuse(c), UNCHANGED lifeVars, node[c] # "read"
  PROVE  SInv'
<1>1. Known(c) /\ reading[c] = "asked" /\ state[c] \notin {"KeepAlive", "Connected"}
  BY KnownAll DEF Refuse
<1>2. /\ Quiet /\ UNCHANGED listening
      /\ UNCHANGED <<victim, keep_alive_list, idle, premature, state, eref, tref, tmutex, node, pipe, sent, answered, pc, conn, queue>>
      /\ reading' = Set(reading, c, "no") /\ unread' = Set(unread, c, unread[c] - 1)
  BY <1>1 DEF Refuse, serviceVars, drainVars, entryVars, pollVars, peerVars, lifeVars, Quiet
<1>3. /\ Touches(c) /\ UNCHANGED <<victim, keep_alive_list, idle, premature, state, eref, tref, tmutex, node, pipe, sent, answered>>
      /\ reading'[c] = "no" /\ unread'[c] = unread[c] - 1
  BY <1>2 DEF Set, SInv, TypeOK, Touches, Same, Quiet
<1>4. \A K : At(c, K)' = At(c, K)
  BY <1>2 DEF At
<1>5. \A K : Waiting(c, K)' = Waiting(c, K)
  BY <1>2, SameWaiting
<1>6. state[c] # "Receiving"
  BY <1>1 DEF Known, Sized, Conn, Watching, Replying
<1>7. unread[c] > 0
  BY <1>1 DEF Known, Sized, Conn, Watching
<1>8. /\ Poll(c)' = Poll(c) /\ Requested(c)' = Requested(c) /\ Begun(c)' = Begun(c)
      /\ Arrived(c)' = Arrived(c) /\ (Live(c)' <=> Live(c))
  <2>1. Requested(c)' = Requested(c) /\ Arrived(c)' = Arrived(c) /\ (Live(c)' <=> Live(c))
    BY <1>1, <1>3, <1>4, <1>5, <1>6, <1>7 DEF Requested, Arrived, Live, Known, Sized
  <2>2. Poll(c)' = Poll(c)
    BY <1>1, <1>3, <1>4, <1>5, <1>6, <1>7, <2>1 DEF Poll, Bit, Known, Sized
  <2>3. Begun(c)' = Begun(c)
    BY <1>1, <1>3, <1>4, <1>5, <1>6, <1>7, <2>2 DEF Begun, Bit, Known, Sized
  <2> QED
    BY <2>1, <2>2, <2>3
<1>9. Counts(c)'
  BY <1>1, <1>3, <1>4, <1>5, <1>6, <1>7, <1>8 DEF Known, Sized, Conn, Counts, Bit
<1>10. Single(c)'
  BY <1>1, <1>3, <1>4, <1>5, <1>6, <1>7, <1>8 DEF Known, Sized, Conn, Single
<1>11. Watching(c)'
  BY <1>1, <1>3, <1>4, <1>5, <1>6, <1>7, <1>8 DEF Known, Sized, Conn, Watching, Linked
<1>12. Replying(c)'
  BY <1>1, <1>3, <1>4, <1>5, <1>6, <1>7, <1>8 DEF Known, Sized, Conn, Replying, Linked
<1>13. Listed(c)'
  BY <1>1, <1>3, <1>4, <1>5, <1>6, <1>7, <1>8 DEF Known, Sized, Conn, Listed, Linked
<1>14. Heard(c)'
  BY <1>1, <1>3, <1>4, <1>5, <1>6, <1>7, <1>8 DEF Known, Sized, Conn, Heard, Unanswered, Bit
<1>15. Locked(c)'
  BY <1>1, <1>2, <1>3 DEF Known, Conn, Locked
<1>16. Conn(c)'
  BY <1>9, <1>10, <1>11, <1>12, <1>13, <1>14, <1>15 DEF Conn
<1>17. Elsewhere(c) /\ Placed'
  BY <1>2, QueueElsewhere DEF SInv, Placed, Quiet
<1>18. TypeOK'
  <2>1. reading' \in [Conns -> {"no", "asked", "message"}]
    BY <1>2, SetIn DEF SInv, TypeOK, States
  <2>2. unread[c] - 1 \in Nat
    BY <1>1, <1>7 DEF Known
  <2>3. unread' \in [Conns -> Nat]
    BY <1>2, <2>2, SetIn DEF SInv, TypeOK
  <2> QED
    BY <2>1, <2>3, <1>2 DEF SInv, TypeOK, Quiet
<1>19. Stays(c) /\ IsInjective(keep_alive_list')
  <2>1. Stays(c)
    BY <1>1, <1>3, <1>4, <1>5, <1>6, <1>7, <1>8 DEF Stays, Known
  <2>2. IsInjective(keep_alive_list')
    BY <1>2 DEF SInv, Draining
  <2> QED
    BY <2>1, <2>2
<1> QED
  BY <1>2, <1>3, <1>16, <1>17, <1>18, <1>19, PollStep

\* A request is complete.
LEMMA ReceiveKeeps ==
  ASSUME SInv, NEW c \in Conns, Receive(c), UNCHANGED lifeVars
  PROVE  SInv'
<1>1. Known(c) /\ reading[c] = "message"
  BY KnownAll DEF Receive
<1>2. /\ Quiet /\ UNCHANGED listening
      /\ UNCHANGED <<victim, keep_alive_list, idle, premature, eref, tref, tmutex, node, pipe, sent, answered, pc, conn>>
      /\ reading' = Set(reading, c, "no") /\ unread' = Set(unread, c, unread[c] - 1)
      /\ state' = Set(state, c, "Success") /\ Put("Request", c)
  BY DEF Receive, serviceVars, drainVars, entryVars, pollVars, peerVars, lifeVars, Quiet
<1>3. /\ Touches(c) /\ UNCHANGED <<victim, keep_alive_list, idle, premature, eref, tref, tmutex, node, pipe, sent, answered>>
      /\ reading'[c] = "no" /\ unread'[c] = unread[c] - 1 /\ state'[c] = "Success"
  BY <1>2 DEF Set, SInv, TypeOK, Touches, Same, Quiet
<1>4. \A K : At(c, K)' = At(c, K)
  BY <1>2 DEF At
<1>5. /\ Waiting(c, PollResults)' = Waiting(c, PollResults)
      /\ Waiting(c, WriteResults)' = Waiting(c, WriteResults)
      /\ Waiting(c, AtRequest)' = Waiting(c, AtRequest) + 1
      /\ Waiting(c, AtAccepted)' = Waiting(c, AtAccepted)
  <2>1. ASSUME NEW K PROVE Waiting(c, K)' = Waiting(c, K) + (IF "Request" \in K THEN 1 ELSE 0)
    BY <1>2, PutWaiting DEF SInv, Results
  <2> QED
    BY <1>1, <2>1 DEF Known, Sized, PollResults, WriteResults, AtRequest, AtAccepted
<1>6. state[c] = "Receiving" /\ node[c] = "read"
  BY <1>1 DEF Known, Sized, Conn, Watching
<1>7. unread[c] > 0
  BY <1>1 DEF Known, Sized, Conn, Watching
<1>8. Poll(c) = 1 /\ At(c, PollHands) = 0 /\ Waiting(c, PollResults) = 0 /\ ~pipe[c]
  BY <1>1, <1>6 DEF Known, Sized, Conn, Single, Poll, Bit
<1>9. At(c, AtClosed) = 0 /\ Waiting(c, WriteResults) = 0 /\ At(c, WriteResults) = 0 /\ At(c, AtUnkeep) = 0
  BY <1>1, <1>8 DEF Known, Sized, Conn
<1>10. Requested(c) = 0
  BY <1>1, <1>6 DEF Known, Sized, Conn, Watching, Single
<1>11. At(c, Keeping) = 0 /\ c \notin idle
  BY <1>1, <1>6 DEF Known, Sized, Conn, Replying
<1>12. Arrived(c) = 0 /\ Live(c)
  BY <1>1, <1>6 DEF Known, Sized, Conn, Single, Live
<1>13. ~Contains(keep_alive_list, c) /\ victim # c
  BY <1>1, <1>6 DEF Known, Sized, Conn, Listed
<1>14. /\ Poll(c)' = Poll(c) /\ Requested(c)' = Requested(c) + 1 /\ Begun(c)' = Begun(c)
      /\ Arrived(c)' = Arrived(c) /\ (Live(c)' <=> Live(c))
  <2>1. Requested(c)' = Requested(c) + 1 /\ Arrived(c)' = Arrived(c) /\ (Live(c)' <=> Live(c))
    BY <1>1, <1>3, <1>4, <1>5, <1>6, <1>7, <1>8, <1>9, <1>10, <1>11, <1>12, <1>13 DEF Requested, Arrived, Live, Known, Sized
  <2>2. Poll(c)' = Poll(c)
    BY <1>1, <1>3, <1>4, <1>5, <1>6, <1>7, <1>8, <1>9, <1>10, <1>11, <1>12, <1>13, <2>1 DEF Poll, Bit, Known, Sized
  <2>3. Begun(c)' = Begun(c)
    BY <1>1, <1>3, <1>4, <1>5, <1>6, <1>7, <1>8, <1>9, <1>10, <1>11, <1>12, <1>13, <2>2 DEF Begun, Bit, Known, Sized
  <2> QED
    BY <2>1, <2>2, <2>3
<1>15. Counts(c)'
  BY <1>1, <1>3, <1>4, <1>5, <1>6, <1>7, <1>8, <1>9, <1>10, <1>11, <1>12, <1>13, <1>14 DEF Known, Sized, Conn, Counts, Bit
<1>16. Single(c)'
  BY <1>1, <1>3, <1>4, <1>5, <1>6, <1>7, <1>8, <1>9, <1>10, <1>11, <1>12, <1>13, <1>14 DEF Known, Sized, Conn, Single
<1>17. Watching(c)'
  BY <1>1, <1>3, <1>4, <1>5, <1>6, <1>7, <1>8, <1>9, <1>10, <1>11, <1>12, <1>13, <1>14 DEF Known, Sized, Conn, Watching, Linked
<1>18. Replying(c)'
  BY <1>1, <1>3, <1>4, <1>5, <1>6, <1>7, <1>8, <1>9, <1>10, <1>11, <1>12, <1>13, <1>14 DEF Known, Sized, Conn, Replying, Linked
<1>19. Listed(c)'
  BY <1>1, <1>3, <1>4, <1>5, <1>6, <1>7, <1>8, <1>9, <1>10, <1>11, <1>12, <1>13, <1>14 DEF Known, Sized, Conn, Listed, Linked
<1>20. Heard(c)'
  BY <1>1, <1>3, <1>4, <1>5, <1>6, <1>7, <1>8, <1>9, <1>10, <1>11, <1>12, <1>13, <1>14 DEF Known, Sized, Conn, Heard, Unanswered, Bit
<1>21. Locked(c)'
  BY <1>1, <1>2, <1>3 DEF Known, Conn, Locked
<1>22. Conn(c)'
  BY <1>15, <1>16, <1>17, <1>18, <1>19, <1>20, <1>21 DEF Conn
<1>23. Elsewhere(c) /\ Placed' /\ queue' \in Seq(Entry)
  <2>1. c # NoConn
    BY CommAssumption
  <2>2. Elsewhere(c)
    BY <1>2, PutElsewhere DEF SInv, Results
  <2>3. Placed' /\ queue' \in Seq(Entry)
    BY <1>2, <2>1, PlacedPut DEF Results, Quiet, lifeVars
  <2> QED
    BY <2>2, <2>3
<1>24. TypeOK'
  <2>1. reading' \in [Conns -> {"no", "asked", "message"}]
    BY <1>2, SetIn DEF SInv, TypeOK, States
  <2>2. unread[c] - 1 \in Nat
    BY <1>1, <1>7 DEF Known
  <2>3. unread' \in [Conns -> Nat]
    BY <1>2, <2>2, SetIn DEF SInv, TypeOK
  <2>4. state' \in [Conns -> States]
    BY <1>2, SetIn DEF SInv, TypeOK, States
  <2> QED
    BY <2>1, <2>3, <2>4, <1>23, <1>2 DEF SInv, TypeOK, Quiet, Entry
<1>25. Stays(c) /\ IsInjective(keep_alive_list')
  <2>1. Stays(c)
    BY <1>1, <1>3, <1>4, <1>5, <1>6, <1>7, <1>8, <1>9, <1>10, <1>11, <1>12, <1>13, <1>14 DEF Stays, Known
  <2>2. IsInjective(keep_alive_list')
    BY <1>2 DEF SInv, Draining
  <2> QED
    BY <2>1, <2>2
<1> QED
  BY <1>2, <1>3, <1>22, <1>23, <1>24, <1>25, PollStep

\* The poller gives a connection up.
LEMMA ReadFailsKeeps ==
  ASSUME SInv, NEW c \in Conns, ReadFails(c), UNCHANGED lifeVars
  PROVE  SInv'
<1>1. Known(c) /\ node[c] = "read" /\ reading[c] # "asked"
  BY KnownAll DEF ReadFails
<1>2. /\ Quiet /\ UNCHANGED listening
      /\ UNCHANGED <<victim, keep_alive_list, idle, premature, state, eref, tref, tmutex, pipe, unread, sent, answered, pc, conn>>
      /\ node' = Set(node, c, "none") /\ reading' = Set(reading, c, "no")
      /\ Put("Closed", c)
  BY DEF ReadFails, serviceVars, drainVars, entryVars, pollVars, peerVars, lifeVars, Quiet
<1>3. /\ Touches(c) /\ UNCHANGED <<victim, keep_alive_list, idle, premature, state, eref, tref, tmutex, pipe, unread, sent, answered>>
      /\ node'[c] = "none" /\ reading'[c] = "no"
  BY <1>2 DEF Set, SInv, TypeOK, Touches, Same, Quiet
<1>4. \A K : At(c, K)' = At(c, K)
  BY <1>2 DEF At
<1>5. /\ Waiting(c, PollResults)' = Waiting(c, PollResults) + 1
      /\ Waiting(c, WriteResults)' = Waiting(c, WriteResults)
      /\ Waiting(c, AtRequest)' = Waiting(c, AtRequest)
      /\ Waiting(c, AtAccepted)' = Waiting(c, AtAccepted)
  <2>1. ASSUME NEW K PROVE Waiting(c, K)' = Waiting(c, K) + (IF "Closed" \in K THEN 1 ELSE 0)
    BY <1>2, PutWaiting DEF SInv, Results
  <2> QED
    BY <1>1, <2>1 DEF Known, Sized, PollResults, WriteResults, AtRequest, AtAccepted
<1>6. ~pipe[c]
  BY <1>1 DEF Known, Sized, Conn, Single, Poll, Bit
<1>7. /\ Poll(c)' = Poll(c) /\ Requested(c)' = Requested(c) /\ Begun(c)' = Begun(c)
      /\ Arrived(c)' = Arrived(c) /\ (Live(c)' <=> Live(c))
  <2>1. Requested(c)' = Requested(c) /\ Arrived(c)' = Arrived(c) /\ (Live(c)' <=> Live(c))
    BY <1>1, <1>3, <1>4, <1>5, <1>6 DEF Requested, Arrived, Live, Known, Sized
  <2>2. Poll(c)' = Poll(c)
    BY <1>1, <1>3, <1>4, <1>5, <1>6, <2>1 DEF Poll, Bit, Known, Sized
  <2>3. Begun(c)' = Begun(c)
    BY <1>1, <1>3, <1>4, <1>5, <1>6, <2>2 DEF Begun, Bit, Known, Sized
  <2> QED
    BY <2>1, <2>2, <2>3
<1>8. Counts(c)'
  BY <1>1, <1>3, <1>4, <1>5, <1>6, <1>7 DEF Known, Sized, Conn, Counts, Bit
<1>9. Single(c)'
  BY <1>1, <1>3, <1>4, <1>5, <1>6, <1>7 DEF Known, Sized, Conn, Single
<1>10. Watching(c)'
  BY <1>1, <1>3, <1>4, <1>5, <1>6, <1>7 DEF Known, Sized, Conn, Watching, Linked
<1>11. Replying(c)'
  BY <1>1, <1>3, <1>4, <1>5, <1>6, <1>7 DEF Known, Sized, Conn, Replying, Linked
<1>12. Listed(c)'
  BY <1>1, <1>3, <1>4, <1>5, <1>6, <1>7 DEF Known, Sized, Conn, Listed, Linked
<1>13. Heard(c)'
  BY <1>1, <1>3, <1>4, <1>5, <1>6, <1>7 DEF Known, Sized, Conn, Heard, Unanswered, Bit
<1>14. Locked(c)'
  BY <1>1, <1>2, <1>3 DEF Known, Conn, Locked
<1>15. Conn(c)'
  BY <1>8, <1>9, <1>10, <1>11, <1>12, <1>13, <1>14 DEF Conn
<1>16. Elsewhere(c) /\ Placed' /\ queue' \in Seq(Entry)
  <2>1. c # NoConn
    BY CommAssumption
  <2>2. Elsewhere(c)
    BY <1>2, PutElsewhere DEF SInv, Results
  <2>3. Placed' /\ queue' \in Seq(Entry)
    BY <1>2, <2>1, PlacedPut DEF Results, Quiet, lifeVars
  <2> QED
    BY <2>2, <2>3
<1>17. TypeOK'
  <2>1. node' \in [Conns -> {"none", "read", "write"}]
    BY <1>2, SetIn DEF SInv, TypeOK, States
  <2>2. reading' \in [Conns -> {"no", "asked", "message"}]
    BY <1>2, SetIn DEF SInv, TypeOK, States
  <2> QED
    BY <2>1, <2>2, <1>16, <1>2 DEF SInv, TypeOK, Quiet, Entry
<1>18. Stays(c) /\ IsInjective(keep_alive_list')
  <2>1. Stays(c)
    BY <1>1, <1>3, <1>4, <1>5, <1>6, <1>7 DEF Stays, Known
  <2>2. IsInjective(keep_alive_list')
    BY <1>2 DEF SInv, Draining
  <2> QED
    BY <2>1, <2>2
<1> QED
  BY <1>2, <1>3, <1>15, <1>16, <1>17, <1>18, PollStep

\* The rest of a response is written.
LEMMA WriteEnds ==
  ASSUME SInv, NEW c \in Conns, Write(c), UNCHANGED lifeVars, Put("Written", c), answered' = Set(answered, c, answered[c] + 1)
  PROVE  SInv'
<1>1. Known(c) /\ node[c] = "write" /\ reading[c] # "asked"
  BY KnownAll DEF Write
<1>2. /\ Quiet /\ UNCHANGED listening
      /\ UNCHANGED <<victim, keep_alive_list, idle, premature, state, eref, tref, tmutex, pipe, reading, unread, sent, pc, conn>>
      /\ answered' = Set(answered, c, answered[c] + 1) /\ node' = Set(node, c, "none")
      /\ Put("Written", c)
  BY <1>1 DEF Write, serviceVars, drainVars, entryVars, pollVars, peerVars, lifeVars, Quiet
<1>3. /\ Touches(c) /\ UNCHANGED <<victim, keep_alive_list, idle, premature, state, eref, tref, tmutex, pipe, reading, unread, sent>>
      /\ answered'[c] = answered[c] + 1 /\ node'[c] = "none"
  BY <1>2 DEF Set, SInv, TypeOK, Touches, Same, Quiet
<1>4. \A K : At(c, K)' = At(c, K)
  BY <1>2 DEF At
<1>5. /\ Waiting(c, PollResults)' = Waiting(c, PollResults) + 1
      /\ Waiting(c, WriteResults)' = Waiting(c, WriteResults) + 1
      /\ Waiting(c, AtRequest)' = Waiting(c, AtRequest)
      /\ Waiting(c, AtAccepted)' = Waiting(c, AtAccepted)
  <2>1. ASSUME NEW K PROVE Waiting(c, K)' = Waiting(c, K) + (IF "Written" \in K THEN 1 ELSE 0)
    BY <1>2, PutWaiting DEF SInv, Results
  <2> QED
    BY <1>1, <2>1 DEF Known, Sized, PollResults, WriteResults, AtRequest, AtAccepted
<1>6. state[c] = "Idle" /\ c \notin idle
  BY <1>1 DEF Known, Sized, Conn, Replying
<1>7. At(c, Keeping) = 0
  BY <1>1 DEF Known, Sized, Conn, Replying
<1>8. ~pipe[c]
  BY <1>1 DEF Known, Sized, Conn, Single, Poll, Bit
<1>9. /\ Poll(c)' = Poll(c) /\ Requested(c)' = Requested(c) /\ Begun(c)' = Begun(c)
      /\ Arrived(c)' = Arrived(c) /\ (Live(c)' <=> Live(c))
  <2>1. Requested(c)' = Requested(c) /\ Arrived(c)' = Arrived(c) /\ (Live(c)' <=> Live(c))
    BY <1>1, <1>3, <1>4, <1>5, <1>6, <1>7, <1>8 DEF Requested, Arrived, Live, Known, Sized
  <2>2. Poll(c)' = Poll(c)
    BY <1>1, <1>3, <1>4, <1>5, <1>6, <1>7, <1>8, <2>1 DEF Poll, Bit, Known, Sized
  <2>3. Begun(c)' = Begun(c)
    BY <1>1, <1>3, <1>4, <1>5, <1>6, <1>7, <1>8, <2>2 DEF Begun, Bit, Known, Sized
  <2> QED
    BY <2>1, <2>2, <2>3
<1>10. Counts(c)'
  BY <1>1, <1>3, <1>4, <1>5, <1>6, <1>7, <1>8, <1>9 DEF Known, Sized, Conn, Counts, Bit
<1>11. Single(c)'
  BY <1>1, <1>3, <1>4, <1>5, <1>6, <1>7, <1>8, <1>9 DEF Known, Sized, Conn, Single
<1>12. Watching(c)'
  BY <1>1, <1>3, <1>4, <1>5, <1>6, <1>7, <1>8, <1>9 DEF Known, Sized, Conn, Watching, Linked
<1>13. Replying(c)'
  BY <1>1, <1>3, <1>4, <1>5, <1>6, <1>7, <1>8, <1>9 DEF Known, Sized, Conn, Replying, Linked
<1>14. Listed(c)'
  BY <1>1, <1>3, <1>4, <1>5, <1>6, <1>7, <1>8, <1>9 DEF Known, Sized, Conn, Listed, Linked
<1>15. Heard(c)'
  BY <1>1, <1>3, <1>4, <1>5, <1>6, <1>7, <1>8, <1>9 DEF Known, Sized, Conn, Heard, Unanswered, Bit
<1>16. Locked(c)'
  BY <1>1, <1>2, <1>3 DEF Known, Conn, Locked
<1>17. Conn(c)'
  BY <1>10, <1>11, <1>12, <1>13, <1>14, <1>15, <1>16 DEF Conn
<1>18. Elsewhere(c) /\ Placed' /\ queue' \in Seq(Entry)
  <2>1. c # NoConn
    BY CommAssumption
  <2>2. Elsewhere(c)
    BY <1>2, PutElsewhere DEF SInv, Results
  <2>3. Placed' /\ queue' \in Seq(Entry)
    BY <1>2, <2>1, PlacedPut DEF Results, Quiet, lifeVars
  <2> QED
    BY <2>2, <2>3
<1>19. TypeOK'
  <2>1. answered[c] + 1 \in Nat
    BY <1>1 DEF Known
  <2>2. answered' = Set(answered, c, answered[c] + 1) /\ answered \in [Conns -> Nat]
    BY <1>2 DEF SInv, TypeOK
  <2>3. answered' \in [Conns -> Nat]
    BY ONLY <2>1, <2>2 DEF Set
  <2>4. node' \in [Conns -> {"none", "read", "write"}]
    BY <1>2, SetIn DEF SInv, TypeOK, States
  <2> QED
    BY <2>3, <2>4, <1>18, <1>2 DEF SInv, TypeOK, Quiet, Entry
<1>20. Stays(c) /\ IsInjective(keep_alive_list')
  <2>1. Stays(c)
    BY <1>1, <1>3, <1>4, <1>5, <1>6, <1>7, <1>8, <1>9 DEF Stays, Known
  <2>2. IsInjective(keep_alive_list')
    BY <1>2 DEF SInv, Draining
  <2> QED
    BY <2>1, <2>2
<1> QED
  BY <1>2, <1>3, <1>17, <1>18, <1>19, <1>20, PollStep

\* The rest of a response is not written.
LEMMA WriteFails ==
  ASSUME SInv, NEW c \in Conns, Write(c), UNCHANGED lifeVars, Put("WriteFailed", c), UNCHANGED answered
  PROVE  SInv'
<1>1. Known(c) /\ node[c] = "write" /\ reading[c] # "asked"
  BY KnownAll DEF Write
<1>2. /\ Quiet /\ UNCHANGED listening
      /\ UNCHANGED <<victim, keep_alive_list, idle, premature, state, eref, tref, tmutex, pipe, reading, unread, sent, answered, pc, conn>>
      /\ node' = Set(node, c, "none") /\ Put("WriteFailed", c)
  BY <1>1 DEF Write, serviceVars, drainVars, entryVars, pollVars, peerVars, lifeVars, Quiet
<1>3. /\ Touches(c) /\ UNCHANGED <<victim, keep_alive_list, idle, premature, state, eref, tref, tmutex, pipe, reading, unread, sent, answered>>
      /\ node'[c] = "none"
  BY <1>2 DEF Set, SInv, TypeOK, Touches, Same, Quiet
<1>4. \A K : At(c, K)' = At(c, K)
  BY <1>2 DEF At
<1>5. /\ Waiting(c, PollResults)' = Waiting(c, PollResults) + 1
      /\ Waiting(c, WriteResults)' = Waiting(c, WriteResults) + 1
      /\ Waiting(c, AtRequest)' = Waiting(c, AtRequest)
      /\ Waiting(c, AtAccepted)' = Waiting(c, AtAccepted)
  <2>1. ASSUME NEW K PROVE Waiting(c, K)' = Waiting(c, K) + (IF "WriteFailed" \in K THEN 1 ELSE 0)
    BY <1>2, PutWaiting DEF SInv, Results
  <2> QED
    BY <1>1, <2>1 DEF Known, Sized, PollResults, WriteResults, AtRequest, AtAccepted
<1>6. state[c] = "Idle" /\ c \notin idle
  BY <1>1 DEF Known, Sized, Conn, Replying
<1>7. At(c, Keeping) = 0
  BY <1>1 DEF Known, Sized, Conn, Replying
<1>8. ~pipe[c]
  BY <1>1 DEF Known, Sized, Conn, Single, Poll, Bit
<1>9. /\ Poll(c)' = Poll(c) /\ Requested(c)' = Requested(c) /\ Begun(c)' = Begun(c)
      /\ Arrived(c)' = Arrived(c) /\ (Live(c)' <=> Live(c))
  <2>1. Requested(c)' = Requested(c) /\ Arrived(c)' = Arrived(c) /\ (Live(c)' <=> Live(c))
    BY <1>1, <1>3, <1>4, <1>5, <1>6, <1>7, <1>8 DEF Requested, Arrived, Live, Known, Sized
  <2>2. Poll(c)' = Poll(c)
    BY <1>1, <1>3, <1>4, <1>5, <1>6, <1>7, <1>8, <2>1 DEF Poll, Bit, Known, Sized
  <2>3. Begun(c)' = Begun(c)
    BY <1>1, <1>3, <1>4, <1>5, <1>6, <1>7, <1>8, <2>2 DEF Begun, Bit, Known, Sized
  <2> QED
    BY <2>1, <2>2, <2>3
<1>10. Counts(c)'
  BY <1>1, <1>3, <1>4, <1>5, <1>6, <1>7, <1>8, <1>9 DEF Known, Sized, Conn, Counts, Bit
<1>11. Single(c)'
  BY <1>1, <1>3, <1>4, <1>5, <1>6, <1>7, <1>8, <1>9 DEF Known, Sized, Conn, Single
<1>12. Watching(c)'
  BY <1>1, <1>3, <1>4, <1>5, <1>6, <1>7, <1>8, <1>9 DEF Known, Sized, Conn, Watching, Linked
<1>13. Replying(c)'
  BY <1>1, <1>3, <1>4, <1>5, <1>6, <1>7, <1>8, <1>9 DEF Known, Sized, Conn, Replying, Linked
<1>14. Listed(c)'
  BY <1>1, <1>3, <1>4, <1>5, <1>6, <1>7, <1>8, <1>9 DEF Known, Sized, Conn, Listed, Linked
<1>15. Heard(c)'
  BY <1>1, <1>3, <1>4, <1>5, <1>6, <1>7, <1>8, <1>9 DEF Known, Sized, Conn, Heard, Unanswered, Bit
<1>16. Locked(c)'
  BY <1>1, <1>2, <1>3 DEF Known, Conn, Locked
<1>17. Conn(c)'
  BY <1>10, <1>11, <1>12, <1>13, <1>14, <1>15, <1>16 DEF Conn
<1>18. Elsewhere(c) /\ Placed' /\ queue' \in Seq(Entry)
  <2>1. c # NoConn
    BY CommAssumption
  <2>2. Elsewhere(c)
    BY <1>2, PutElsewhere DEF SInv, Results
  <2>3. Placed' /\ queue' \in Seq(Entry)
    BY <1>2, <2>1, PlacedPut DEF Results, Quiet, lifeVars
  <2> QED
    BY <2>2, <2>3
<1>19. TypeOK'
  <2>1. node' \in [Conns -> {"none", "read", "write"}]
    BY <1>2, SetIn DEF SInv, TypeOK, States
  <2> QED
    BY <2>1, <1>18, <1>2 DEF SInv, TypeOK, Quiet, Entry
<1>20. Stays(c) /\ IsInjective(keep_alive_list')
  <2>1. Stays(c)
    BY <1>1, <1>3, <1>4, <1>5, <1>6, <1>7, <1>8, <1>9 DEF Stays, Known
  <2>2. IsInjective(keep_alive_list')
    BY <1>2 DEF SInv, Draining
  <2> QED
    BY <2>1, <2>2
<1> QED
  BY <1>2, <1>3, <1>17, <1>18, <1>19, <1>20, PollStep

\* The numbers behind the reference count of the service.
LEMMA ServiceNumbers ==
  ASSUME TypeOK
  PROVE  /\ Waiting(NoConn, {"Unlisten"}) \in Nat /\ At(NoConn, Ending) \in Nat
         /\ Pending \in Nat /\ Bound \in Nat /\ Cardinality(Targets) \in Nat
         /\ (listener = "deleted" => Pending > 0) /\ (Pending <= Bound)
         /\ (pc[Owner] \in Ending \cup {"Up"} => Bound > 0)
<1>1. Waiting(NoConn, {"Unlisten"}) \in Nat /\ At(NoConn, Ending) \in Nat
  BY Numbers
<1>2. Pending \in Nat /\ (listener = "deleted" => Pending > 0)
  BY <1>1 DEF Pending, Bit
<1>3. Bound \in Nat /\ Pending <= Bound /\ (pc[Owner] \in Ending \cup {"Up"} => Bound > 0)
  BY <1>2 DEF Bound, Bit
<1>4. Targets \subseteq Conns
  BY DEF Targets
<1>5. Cardinality(Targets) \in Nat
  BY <1>4, FS_Subset, FS_CardinalityType, CommAssumption
<1> QED
  BY <1>1, <1>2, <1>3, <1>5

\* The poller accepts a connection: its target holds a reference to the service.
LEMMA AcceptKeeps ==
  ASSUME SInv, NEW c \in Conns, Accept(c), UNCHANGED lifeVars
  PROVE  SInv'
<1>1. Known(c) /\ state[c] = "None" /\ tref[c] = 0 /\ listener # "off"
  BY KnownAll DEF Accept
<1>2. /\ UNCHANGED <<listening, listener, unbind_finish, conn_count, smutex, victim, keep_alive_list, state, eref, idle,
                     tmutex, node, pipe, reading, pc, conn, unread, sent, answered, premature, stop_requested, destroying>>
      /\ tref' = Set(tref, c, 1) /\ ref' = ref + 1 /\ Put("Accepted", c)
  BY DEF Accept, drainVars, peerVars, lifeVars
<1>3. /\ Touches(c) /\ tref'[c] = 1
      /\ UNCHANGED <<victim, keep_alive_list, state, eref, idle, tmutex, node, pipe, reading, unread, sent, answered, premature>>
  BY <1>2 DEF Set, SInv, TypeOK, Touches, Same
<1>4. \A K : At(c, K)' = At(c, K)
  BY <1>2 DEF At
<1>5. /\ Waiting(c, PollResults)' = Waiting(c, PollResults) /\ Waiting(c, WriteResults)' = Waiting(c, WriteResults)
      /\ Waiting(c, AtRequest)' = Waiting(c, AtRequest) /\ Waiting(c, AtAccepted)' = Waiting(c, AtAccepted) + 1
  <2>1. ASSUME NEW K PROVE Waiting(c, K)' = Waiting(c, K) + (IF "Accepted" \in K THEN 1 ELSE 0)
    BY <1>2, PutWaiting DEF SInv, Results
  <2> QED
    BY <1>1, <2>1 DEF Known, Sized, PollResults, WriteResults, AtRequest, AtAccepted
<1>6. Arrived(c) = 0 /\ Begun(c) = 0 /\ At(c, InSession) = 0 /\ ~Live(c)
  BY <1>1 DEF Known, Sized, Conn, Counts, Bit, Live
<1>7. /\ Poll(c)' = Poll(c) /\ Requested(c)' = Requested(c) /\ Begun(c)' = Begun(c)
      /\ Arrived(c)' = 1 /\ ~Live(c)'
  <2>1. Requested(c)' = Requested(c) /\ Arrived(c)' = 1 /\ ~Live(c)'
    BY <1>1, <1>3, <1>4, <1>5, <1>6 DEF Requested, Arrived, Live, Known, Sized
  <2>2. Poll(c)' = Poll(c)
    BY <1>3, <1>5, <2>1 DEF Poll, Bit
  <2>3. Begun(c)' = Begun(c)
    BY <1>3, <1>4, <1>5, <2>2 DEF Begun, Bit
  <2> QED
    BY <2>1, <2>2, <2>3
<1>8. Counts(c)' /\ Single(c)'
  <2>1. Counts(c)'
    BY <1>1, <1>3, <1>4, <1>6, <1>7 DEF Known, Conn, Counts, Bit
  <2>2. Single(c)'
    BY <1>1, <1>3, <1>4, <1>7 DEF Known, Conn, Single
  <2> QED
    BY <2>1, <2>2
<1>9. Linked(c)' <=> Linked(c)
  BY <1>4, <1>7 DEF Linked
<1>10. Watching(c)' /\ Listed(c)'
  BY <1>1, <1>3, <1>7, <1>9 DEF Known, Conn, Watching, Listed
<1>11. Replying(c)'
  BY <1>1, <1>3, <1>4, <1>5, <1>9 DEF Known, Conn, Replying
<1>12. Heard(c)' /\ Locked(c)'
  BY <1>1, <1>2, <1>3 DEF Known, Conn, Heard, Unanswered, Locked
<1>13. c # NoConn /\ Elsewhere(c) /\ Placed' /\ queue' \in Seq(Entry)
  <2>1. c # NoConn
    BY CommAssumption
  <2>2. Elsewhere(c)
    BY <1>2, PutElsewhere DEF SInv, Results
  <2>3. Placed' /\ queue' \in Seq(Entry)
    BY <1>2, <2>1, PlacedPut DEF Results, lifeVars
  <2> QED
    BY <2>1, <2>2, <2>3
<1>14. \A d \in Conns : Conn(d)'
  <2>1. Conn(c)'
    BY <1>8, <1>10, <1>11, <1>12 DEF Conn
  <2> QED
    BY <1>2, <1>3, <1>13, <2>1, OthersStay
<1>15. Draining'
  <2>1. IsInjective(keep_alive_list')
    BY <1>2 DEF SInv, Draining
  <2> QED
    BY <1>2, <2>1, DrainingStays
<1>16. Service'
  <2>1. Pending' = Pending /\ Bound' = Bound
    <3>1. At(NoConn, Ending)' = At(NoConn, Ending)
      BY <1>2 DEF At
    <3>2. Waiting(NoConn, {"Unlisten"})' = Waiting(NoConn, {"Unlisten"})
      BY <1>13 DEF Elsewhere
    <3>3. Pending' = Pending
      BY <1>2, <3>1, <3>2 DEF Pending
    <3> QED
      BY <1>2, <3>3 DEF Bound
  <2>2. Cardinality(Targets)' = Cardinality(Targets) + 1
    BY <1>1, <1>3, SetsMove
  <2>3. TypeOK /\ Service
    BY DEF SInv
  <2>4. listener \in {"on", "deleted"}
    BY <1>1, <2>3 DEF TypeOK
  <2>5. ref # 0
    <3>1. Bound > 0
      BY <2>3, <2>4, ServiceNumbers DEF Service
    <3> QED
      BY <2>3, <3>1, ServiceNumbers DEF Service
  <2>6. ~unbind_finish /\ pc[Owner] \notin {"Off", "Stopped", "Starting"}
    BY <2>3, <2>5 DEF Service
  <2>7. ref' = Bound' + Cardinality(Targets)'
    BY <1>2, <2>1, <2>2, <2>3, ServiceNumbers DEF Service
  <2> QED
    BY <1>2, <2>1, <2>3, <2>6, <2>7 DEF Service
<1>17. Limits'
  <2>1. Opened' = Opened /\ Active' \subseteq Active
    BY <1>2 DEF Opened, Active, Live
  <2> QED
    BY <1>2, <2>1, LimitsStay
<1>18. TypeOK'
  <2>1. tref' \in [Conns -> Nat]
    BY <1>2 DEF SInv, TypeOK, Set
  <2>2. ref' \in Nat
    BY <1>2 DEF SInv, TypeOK
  <2> QED
    BY <1>2, <1>13, <2>1, <2>2 DEF SInv, TypeOK, Entry
<1> QED
  BY <1>13, <1>14, <1>15, <1>16, <1>17, <1>18 DEF SInv

-----------------------------------------------------------------------------
(***************************************************************************)
(* The steps of the owner, and those of shutdown_service.                  *)
(***************************************************************************)
ConnsSame ==
  UNCHANGED <<state, eref, tref, idle, tmutex, node, pipe, reading, unread, sent, answered, premature,
              victim, keep_alive_list, conn_count>>

\* A step that concerns no connection.
LEMMA ConnsStay ==
  ASSUME SInv, ConnsSame, \A d \in Conns : Unmoved(d), Elsewhere(NoConn)
  PROVE  \A d \in Conns : Conn(d)'
<1> SUFFICES ASSUME NEW d \in Conns PROVE Conn(d)'
  OBVIOUS
<1>1. d # NoConn
  BY CommAssumption
<1>2. Same(d) /\ Conn(d)
  BY DEF ConnsSame, Same, SInv
<1> QED
  BY <1>1, <1>2, Framed DEF Elsewhere

\* A step of a thread that works on no connection.
LEMMA ServiceStep ==
  ASSUME SInv, TypeOK', NEW t \in Threads, NEW b, pc' = [pc EXCEPT ![t] = b], UNCHANGED conn,
         t \in Handlers => conn[t] = NoConn, pc[t] \notin Counted, b \notin Counted,
         ConnsSame, Elsewhere(NoConn), Placed', Draining', Service'
  PROVE  SInv'
<1>1. \A u \in Threads : u # t => pc'[u] = pc[u]
  BY DEF SInv, TypeOK
<1>2. ASSUME NEW d \in Conns PROVE Unmoved(d)
  BY <1>1, CommAssumption DEF Unmoved, Threads
<1>3. \A d \in Conns : Conn(d)'
  BY <1>2, ConnsStay
<1>4. Opened' = Opened /\ Active' \subseteq Active /\ UNCHANGED conn_count
  BY DEF ConnsSame, Opened, Active, Live
<1>5. Limits'
  <2>1. CASE t \in Handlers
    BY <1>4, <2>1, LimitsMove
  <2>2. CASE t \notin Handlers
    <3>1. \A u \in Handlers : pc'[u] = pc[u]
      BY <1>1, <2>2 DEF Threads
    <3> QED
      BY <1>4, <3>1, LimitsStay
  <2> QED
    BY <2>1, <2>2
<1> QED
  BY <1>3, <1>5 DEF SInv

\* A step of the owner.
LEMMA OwnerMoves ==
  ASSUME SInv, NEW b \in OwnerPCs \ {"Gone"}, pc' = [pc EXCEPT ![Owner] = b], UNCHANGED <<conn, queue, smutex, destroying>>,
         pc[Owner] \notin Drained \cup {"DrainAll"}, b \notin Drained, ConnsSame,
         listening' \in BOOLEAN, listener' \in {"off", "on", "deleted"}, ref' \in Nat, unbind_finish' \in BOOLEAN,
         stop_requested' \in BOOLEAN, Service'
  PROVE  SInv'
<1>1. \A u \in Handlers : pc'[u] = pc[u]
  BY CommAssumption DEF SInv, TypeOK, Threads
<1>2. pc'[Owner] = b /\ Owner \in Threads /\ Owner \notin Handlers
  BY CommAssumption DEF SInv, TypeOK, Threads
<1>3. TypeOK'
  <2>1. pc' \in [Threads -> OwnerPCs \cup HandlerPCs]
    BY DEF SInv, TypeOK
  <2> QED
    BY <2>1 DEF SInv, TypeOK, ConnsSame
<1>4. Placed'
  BY <1>1, <1>2 DEF SInv, Placed
<1>5. Draining'
  BY <1>2, DrainingMoves DEF ConnsSame, SInv, Draining
<1>6. Elsewhere(NoConn)
  BY QueueElsewhere
<1>7. pc[Owner] \notin Counted /\ b \notin Counted
  BY DEF SInv, Placed, OwnerPCs, Counted
<1> QED
  BY <1>2, <1>3, <1>4, <1>5, <1>6, <1>7, ServiceStep

\* What a step of the owner leaves of the service.
LEMMA OwnerNumbers ==
  ASSUME SInv, NEW b, pc' = [pc EXCEPT ![Owner] = b], UNCHANGED <<conn, queue, tref>>
  PROVE  /\ pc'[Owner] = b /\ At(NoConn, Ending)' = At(NoConn, Ending)
         /\ Waiting(NoConn, {"Unlisten"})' = Waiting(NoConn, {"Unlisten"})
         /\ Cardinality(Targets)' = Cardinality(Targets)
<1>1. pc'[Owner] = b /\ Unmoved(NoConn)
  BY CommAssumption DEF SInv, TypeOK, Threads, Unmoved
<1>2. Targets' = Targets
  BY DEF Targets
<1> QED
  BY <1>1, <1>2, UnmovedAt, SameWaiting

\* start begins.
LEMMA BeginStartKeeps ==
  ASSUME SInv, BeginStart
  PROVE  SInv'
<1>1. /\ pc[Owner] \in {"Off", "Stopped"} /\ pc' = [pc EXCEPT ![Owner] = "Starting"] /\ stop_requested' = FALSE
      /\ UNCHANGED <<conn, queue, smutex, listening, listener, ref, unbind_finish, destroying>> /\ ConnsSame
  BY DEF BeginStart, Goto, serviceVars, drainVars, entryVars, pollVars, peerVars, ConnsSame
<1>num. /\ pc'[Owner] = "Starting" /\ At(NoConn, Ending)' = At(NoConn, Ending)
       /\ Waiting(NoConn, {"Unlisten"})' = Waiting(NoConn, {"Unlisten"})
       /\ Cardinality(Targets)' = Cardinality(Targets)
  BY <1>1, OwnerNumbers DEF ConnsSame
<1>place. "Starting" \in OwnerPCs \ {"Gone"} /\ "Starting" \notin Drained /\ pc[Owner] \notin Drained \cup {"DrainAll"}
  BY <1>1 DEF OwnerPCs, Drained
<1>2. Service'
  <2>1. Pending' = Pending
    BY <1>1, <1>num DEF Pending, ConnsSame
  <2>2. Bound' = Bound
    BY <1>1, <2>1, <1>num DEF Bound, ConnsSame, Ending
  <2> QED
    BY <1>1, <2>1, <2>2, <1>num DEF SInv, Service, ConnsSame
<1>3. listening' \in BOOLEAN /\ listener' \in {"off", "on", "deleted"} /\ ref' \in Nat
  BY <1>1 DEF SInv, Placed, TypeOK
<1>4. unbind_finish' \in BOOLEAN /\ stop_requested' \in BOOLEAN
  BY <1>1 DEF SInv, TypeOK
<1> QED
  BY <1>1, <1>2, <1>3, <1>4, <1>place, OwnerMoves

\* bind succeeds or fails.
LEMMA EndStartKeeps ==
  ASSUME SInv, EndStart
  PROVE  SInv'
<1>1. pc[Owner] = "Starting" /\ UNCHANGED <<conn, queue, smutex, unbind_finish, destroying, stop_requested>> /\ ConnsSame
  BY DEF EndStart, Start, Goto, serviceVars, drainVars, entryVars, pollVars, peerVars, lifeVars, ConnsSame
<1>2. unbind_finish' \in BOOLEAN /\ stop_requested' \in BOOLEAN
  BY <1>1 DEF SInv, Placed, TypeOK
<1>3. TypeOK /\ Service
  BY DEF SInv
<1>4. ref = 0 /\ Pending = 0 /\ Bound = 0 /\ Cardinality(Targets) = 0 /\ ~unbind_finish
  <2>1. ref = 0 /\ ~unbind_finish /\ ref = Bound + Cardinality(Targets)
    BY <1>1, <1>3 DEF Service
  <2> QED
    BY <1>3, <2>1, ServiceNumbers
<1>5. CASE pc' = [pc EXCEPT ![Owner] = "Up"] /\ listening' = TRUE /\ listener' = "on" /\ ref' = 1
  <2>num. /\ pc'[Owner] = "Up" /\ At(NoConn, Ending)' = At(NoConn, Ending)
         /\ Waiting(NoConn, {"Unlisten"})' = Waiting(NoConn, {"Unlisten"})
         /\ Cardinality(Targets)' = Cardinality(Targets)
    BY <1>1, <1>5, OwnerNumbers DEF ConnsSame
  <2>place. "Up" \in OwnerPCs \ {"Gone"} /\ "Up" \notin Drained /\ pc[Owner] \notin Drained \cup {"DrainAll"}
    BY <1>1 DEF OwnerPCs, Drained
  <2>1. Pending' = 0
    <3>1. Waiting(NoConn, {"Unlisten"}) = 0 /\ At(NoConn, Ending) = 0
      BY <1>3, <1>4, ServiceNumbers DEF Pending, Bit
    <3> QED
      BY <1>1, <1>5, <3>1, <2>num DEF Pending, Bit, ConnsSame
  <2>2. Bound' = 1
    BY <1>1, <1>5, <2>1, <2>num DEF Bound, Bit, ConnsSame
  <2>3. Service'
    BY <1>1, <1>4, <1>5, <2>1, <2>2, <2>num DEF Service, ConnsSame
  <2> QED
    BY <1>1, <1>2, <1>5, <2>3, <2>place, OwnerMoves
<1>6. CASE pc' = [pc EXCEPT ![Owner] = "Off"] /\ UNCHANGED <<listening, listener, ref>>
  <2>num. /\ pc'[Owner] = "Off" /\ At(NoConn, Ending)' = At(NoConn, Ending)
         /\ Waiting(NoConn, {"Unlisten"})' = Waiting(NoConn, {"Unlisten"})
         /\ Cardinality(Targets)' = Cardinality(Targets)
    BY <1>1, <1>6, OwnerNumbers DEF ConnsSame
  <2>place. "Off" \in OwnerPCs \ {"Gone"} /\ "Off" \notin Drained /\ pc[Owner] \notin Drained \cup {"DrainAll"}
    BY <1>1 DEF OwnerPCs, Drained
  <2>1. Pending' = Pending
    BY <1>1, <1>6, <2>num DEF Pending, ConnsSame
  <2>2. Bound' = Bound
    BY <1>1, <1>6, <2>1, <2>num DEF Bound, ConnsSame, Ending
  <2>3. Service'
    BY <1>1, <1>3, <1>4, <1>6, <2>1, <2>2, <2>num DEF Service, ConnsSame
  <2>4. listening' \in BOOLEAN /\ listener' \in {"off", "on", "deleted"} /\ ref' \in Nat
    BY <1>3, <1>6 DEF TypeOK
  <2> QED
    BY <1>1, <1>2, <1>6, <2>3, <2>4, <2>place, OwnerMoves
<1> QED
  BY <1>5, <1>6 DEF EndStart, Start, Goto, serviceVars

\* stop begins, with or without a node of the listening socket.
LEMMA StopServerKeeps ==
  ASSUME SInv, StopServer
  PROVE  SInv'
<1>1. /\ pc[Owner] = "Up" /\ ConnsSame
      /\ UNCHANGED <<conn, queue, smutex, listening, ref, unbind_finish, destroying, stop_requested>>
  BY DEF StopServer, Shutdown, Goto, drainVars, entryVars, pollVars, peerVars, lifeVars, ConnsSame
<1>2. unbind_finish' \in BOOLEAN /\ stop_requested' \in BOOLEAN /\ listening' \in BOOLEAN /\ ref' \in Nat
  BY <1>1 DEF SInv, Placed, TypeOK
<1>3. TypeOK /\ Service
  BY DEF SInv
<1>4. Pending = 0 /\ ~unbind_finish
  BY <1>1, <1>3, ServiceNumbers DEF Service
<1>5. CASE listener = "on" /\ listener' = "deleted" /\ pc' = [pc EXCEPT ![Owner] = "WaitFinish"]
  <2>num. /\ pc'[Owner] = "WaitFinish" /\ At(NoConn, Ending)' = At(NoConn, Ending)
         /\ Waiting(NoConn, {"Unlisten"})' = Waiting(NoConn, {"Unlisten"})
         /\ Cardinality(Targets)' = Cardinality(Targets)
    BY <1>1, <1>5, OwnerNumbers DEF ConnsSame
  <2>place. "WaitFinish" \in OwnerPCs \ {"Gone"} /\ "WaitFinish" \notin Drained /\ pc[Owner] \notin Drained \cup {"DrainAll"}
    BY <1>1 DEF OwnerPCs, Drained
  <2>1. Pending' = 1
    BY <1>1, <1>3, <1>4, <1>5, <2>num, ServiceNumbers DEF Pending, Bit, ConnsSame
  <2>2. Bound' = Bound
    <3>1. Bound = 1
      BY <1>1, <1>4 DEF Bound, Bit
    <3>2. Bound' = 1
      BY <1>1, <1>5, <2>1, <2>num DEF Bound, Bit, Ending, ConnsSame
    <3> QED
      BY <3>1, <3>2
  <2>3. Service'
    BY <1>1, <1>3, <1>4, <1>5, <2>1, <2>2, <2>num DEF Service, ConnsSame
  <2> QED
    BY <1>1, <1>2, <1>5, <2>3, <2>place, OwnerMoves
<1>6. CASE listener # "on" /\ pc' = [pc EXCEPT ![Owner] = "Unlisten"] /\ UNCHANGED listener
  <2>num. /\ pc'[Owner] = "Unlisten" /\ At(NoConn, Ending)' = At(NoConn, Ending)
         /\ Waiting(NoConn, {"Unlisten"})' = Waiting(NoConn, {"Unlisten"})
         /\ Cardinality(Targets)' = Cardinality(Targets)
    BY <1>1, <1>6, OwnerNumbers DEF ConnsSame
  <2>place. "Unlisten" \in OwnerPCs \ {"Gone"} /\ "Unlisten" \notin Drained /\ pc[Owner] \notin Drained \cup {"DrainAll"}
    BY <1>1 DEF OwnerPCs, Drained
  <2>1. Pending' = Pending
    BY <1>1, <1>6, <2>num DEF Pending, ConnsSame
  <2>2. Bound' = Bound
    BY <1>1, <1>6, <2>1, <2>num DEF Bound, ConnsSame, Ending
  <2>3. Service'
    BY <1>1, <1>3, <1>4, <1>6, <2>1, <2>2, <2>num DEF Service, ConnsSame
  <2>4. listener' \in {"off", "on", "deleted"}
    BY <1>3, <1>6 DEF TypeOK
  <2> QED
    BY <1>1, <1>2, <1>6, <2>3, <2>4, <2>place, OwnerMoves
<1> QED
  BY <1>5, <1>6 DEF StopServer, Shutdown, Goto

\* stop returns.
LEMMA StopEndsKeeps ==
  ASSUME SInv, StopEnds
  PROVE  SInv'
<1>1. ~destroying /\ TypeOK /\ Service
  BY DEF SInv, Placed
<1>2. /\ pc[Owner] = "WaitFinish" /\ pc' = [pc EXCEPT ![Owner] = "Stopped"] /\ unbind_finish /\ unbind_finish' = FALSE
      /\ UNCHANGED <<conn, queue, smutex, listening, listener, ref, destroying, stop_requested>> /\ ConnsSame
  BY <1>1 DEF StopEnds, WaitFinish, Goto, drainVars, entryVars, pollVars, peerVars, lifeVars, ConnsSame
<1>3. ref = 0 /\ Pending = 0 /\ Bound = 0 /\ listener # "on"
  <2>1. ref = 0 /\ ref = Bound + Cardinality(Targets) /\ listener # "on"
    BY <1>1, <1>2 DEF Service
  <2> QED
    BY <1>1, <2>1, ServiceNumbers
<1>num. /\ pc'[Owner] = "Stopped" /\ At(NoConn, Ending)' = At(NoConn, Ending)
       /\ Waiting(NoConn, {"Unlisten"})' = Waiting(NoConn, {"Unlisten"})
       /\ Cardinality(Targets)' = Cardinality(Targets)
  BY <1>2, OwnerNumbers DEF ConnsSame
<1>place. "Stopped" \in OwnerPCs \ {"Gone"} /\ "Stopped" \notin Drained /\ pc[Owner] \notin Drained \cup {"DrainAll"}
  BY <1>2 DEF OwnerPCs, Drained
<1>4. Pending' = Pending
  BY <1>2, <1>num DEF Pending, ConnsSame
<1>5. Bound' = Bound
  BY <1>2, <1>4, <1>num DEF Bound, ConnsSame, Ending
<1>6. Service'
  BY <1>1, <1>2, <1>3, <1>4, <1>5, <1>num DEF Service, ConnsSame
<1>7. /\ unbind_finish' \in BOOLEAN /\ stop_requested' \in BOOLEAN /\ listening' \in BOOLEAN /\ ref' \in Nat
      /\ listener' \in {"off", "on", "deleted"}
  BY <1>1, <1>2 DEF TypeOK
<1> QED
  BY <1>2, <1>6, <1>7, <1>place, OwnerMoves

\* Another thread requests the stop.
LEMMA RequestStopKeeps ==
  ASSUME SInv, RequestStop
  PROVE  SInv'
<1>1. /\ UNCHANGED <<listening, listener, ref, unbind_finish, conn_count, keep_alive_list, smutex, victim, state, eref,
                     tref, idle, tmutex, node, pipe, reading, queue, pc, conn, unread, sent, answered, premature, destroying>>
      /\ stop_requested' = TRUE
  BY DEF RequestStop, vars, serviceVars, drainVars, entryVars, pollVars, peerVars
<1>2. TypeOK' /\ Placed' /\ Draining' /\ Limits'
  BY <1>1 DEF SInv, TypeOK, Placed, Draining, Limits, Opened, Active, Hands, Live
<1>3. ConnsSame /\ Elsewhere(NoConn) /\ \A d \in Conns : Unmoved(d)
  BY <1>1, QueueElsewhere DEF ConnsSame, Unmoved
<1>4. Service'
  <2>1. At(NoConn, Ending)' = At(NoConn, Ending) /\ Waiting(NoConn, {"Unlisten"})' = Waiting(NoConn, {"Unlisten"})
    BY <1>1 DEF At, Waiting
  <2>2. Targets' = Targets
    BY <1>1 DEF Targets
  <2> QED
    BY <1>1, <2>1, <2>2, ServiceMoves
<1> QED
  BY <1>2, <1>3, <1>4, ConnsStay DEF SInv

\* The poller loses the listening socket.
LEMMA ListenFailsKeeps ==
  ASSUME SInv, ListenFails, UNCHANGED lifeVars
  PROVE  SInv'
<1>1. /\ listener = "on" /\ listener' = "off" /\ Put("ListenFailed", NoConn)
      /\ UNCHANGED <<pc, conn, smutex, listening, ref, unbind_finish, destroying, stop_requested>> /\ ConnsSame
  BY DEF ListenFails, drainVars, entryVars, peerVars, lifeVars, ConnsSame
<1>2. TypeOK /\ Service
  BY DEF SInv
<1>3. Elsewhere(NoConn)
  BY <1>1, <1>2, PutElsewhere DEF Results
<1>4. Placed' /\ queue' \in Seq(Entry)
  BY <1>1, PlacedPut DEF Results, lifeVars
<1>5. Waiting(NoConn, {"Unlisten"})' = Waiting(NoConn, {"Unlisten"}) /\ At(NoConn, Ending)' = At(NoConn, Ending)
  <2>1. /\ Waiting(NoConn, {"Unlisten"})' = Waiting(NoConn, {"Unlisten"}) + (IF NoConn = NoConn /\ "ListenFailed" \in {"Unlisten"} THEN 1 ELSE 0)
        /\ Waiting(NoConn, {"Unlisten"}) \in Nat
    BY <1>1, <1>2, PutWaiting, ServiceNumbers DEF Results
  <2> QED
    BY <1>1, <2>1 DEF At
<1>6. Pending' = Pending
  BY <1>1, <1>2, <1>5, ServiceNumbers DEF Pending, Bit
<1>7. Bound' = Bound
  BY <1>1, <1>6 DEF Bound
<1>8. Targets' = Targets
  BY <1>1 DEF Targets, ConnsSame
<1>9. Service'
  BY <1>1, <1>2, <1>6, <1>7, <1>8 DEF Service
<1>10. TypeOK'
  BY <1>1, <1>2, <1>4 DEF TypeOK, ConnsSame, Entry
<1>11. Draining' /\ Limits'
  BY <1>1 DEF SInv, Draining, Limits, Opened, Active, Hands, Live, ConnsSame
<1>12. \A d \in Conns : Unmoved(d)
  BY <1>1 DEF Unmoved
<1> QED
  BY <1>1, <1>3, <1>4, <1>9, <1>10, <1>11, <1>12, ConnsStay DEF SInv

\* The deletion of the listening socket's node becomes a result.
LEMMA UnlistenedKeeps ==
  ASSUME SInv, Unlistened, UNCHANGED lifeVars
  PROVE  SInv'
<1>1. /\ listener = "deleted" /\ listener' = "off" /\ Put("Unlisten", NoConn)
      /\ UNCHANGED <<pc, conn, smutex, listening, ref, unbind_finish, destroying, stop_requested>> /\ ConnsSame
  BY DEF Unlistened, drainVars, entryVars, peerVars, lifeVars, ConnsSame
<1>2. TypeOK /\ Service
  BY DEF SInv
<1>3. Elsewhere(NoConn)
  BY <1>1, <1>2, PutElsewhere DEF Results
<1>4. Placed' /\ queue' \in Seq(Entry)
  BY <1>1, PlacedPut DEF Results, lifeVars
<1>5. Waiting(NoConn, {"Unlisten"})' = Waiting(NoConn, {"Unlisten"}) + 1 /\ At(NoConn, Ending)' = At(NoConn, Ending)
  <2>1. Waiting(NoConn, {"Unlisten"})' = Waiting(NoConn, {"Unlisten"}) + (IF NoConn = NoConn /\ "Unlisten" \in {"Unlisten"} THEN 1 ELSE 0)
    BY <1>1, <1>2, PutWaiting DEF Results
  <2> QED
    BY <1>1, <2>1 DEF At
<1>6. Pending' = Pending
  BY <1>1, <1>2, <1>5, ServiceNumbers DEF Pending, Bit
<1>7. Bound' = Bound
  BY <1>1, <1>6 DEF Bound
<1>8. Targets' = Targets
  BY <1>1 DEF Targets, ConnsSame
<1>9. Service'
  BY <1>1, <1>2, <1>6, <1>7, <1>8 DEF Service
<1>10. TypeOK'
  BY <1>1, <1>2, <1>4 DEF TypeOK, ConnsSame, Entry
<1>11. Draining' /\ Limits'
  BY <1>1 DEF SInv, Draining, Limits, Opened, Active, Hands, Live, ConnsSame
<1>12. \A d \in Conns : Unmoved(d)
  BY <1>1 DEF Unmoved
<1> QED
  BY <1>1, <1>3, <1>4, <1>9, <1>10, <1>11, <1>12, ConnsStay DEF SInv

\* Whoever runs shutdown_service works on no connection.
LEMMA EndingThread ==
  ASSUME SInv, NEW t \in Threads, pc[t] \in Ending
  PROVE  /\ t \in Handlers => conn[t] = NoConn /\ At(NoConn, Ending) > 0
         /\ t \notin Handlers => t = Owner
<1>1. t \in Handlers => conn[t] = NoConn
  BY DEF SInv, Placed
<1>2. t \in Handlers => At(NoConn, Ending) > 0
  BY <1>1, Numbers DEF SInv
<1> QED
  BY <1>1, <1>2 DEF Threads

\* shutdown_service goes on with the service's socket closed.
LEMMA CloseListenKeeps ==
  ASSUME SInv, NEW t \in Threads, CloseListen(t), UNCHANGED lifeVars
  PROVE  SInv'
<1>1. /\ pc[t] = "Unlisten" /\ pc' = [pc EXCEPT ![t] = "DrainAll"] /\ listening' = FALSE
      /\ UNCHANGED <<conn, queue, smutex, listener, ref, unbind_finish, destroying, stop_requested>> /\ ConnsSame
  BY DEF CloseListen, Goto, drainVars, entryVars, pollVars, peerVars, lifeVars, ConnsSame
<1>2. TypeOK /\ Service
  BY DEF SInv
<1>3. pc[t] \in Ending /\ "DrainAll" \in Ending
  BY <1>1 DEF Ending
<1>4. (t \in Handlers => conn[t] = NoConn) /\ (t \notin Handlers => t = Owner)
  BY <1>3, EndingThread
<1>5. At(NoConn, Ending)' = At(NoConn, Ending)
  <2>1. CASE t \in Handlers
    <3>1. Moves(t, "DrainAll", NoConn)
      BY <1>1, <1>2, <1>4, <2>1 DEF Moves, TypeOK, Threads
    <3>2. At(NoConn, Ending) \in Nat
      BY <1>2, Numbers
    <3>3. At(NoConn, Ending)' = At(NoConn, Ending) - (IF conn[t] = NoConn /\ pc[t] \in Ending THEN 1 ELSE 0)
                                  + (IF NoConn = NoConn /\ "DrainAll" \in Ending THEN 1 ELSE 0)
      BY <1>2, <2>1, <3>1, MovesAt
    <3> QED
      BY <1>3, <1>4, <2>1, <3>2, <3>3
  <2>2. CASE t \notin Handlers
    BY <1>1, <1>4, <2>2, OwnerNumbers DEF ConnsSame
  <2> QED
    BY <2>1, <2>2
<1>6. Pending' = Pending
  BY <1>1, <1>5, SameWaiting DEF Pending
<1>7. pc'[Owner] = pc[Owner] \/ (pc[Owner] = "Unlisten" /\ pc'[Owner] = "DrainAll")
  BY <1>1, <1>2 DEF TypeOK, Threads
<1>8. Bound' = Bound
  BY <1>6, <1>7 DEF Bound, Ending
<1>9. Targets' = Targets
  BY <1>1 DEF Targets, ConnsSame
<1>10. Service'
  BY <1>1, <1>2, <1>6, <1>7, <1>8, <1>9 DEF Service
<1>11. TypeOK'
  <2>1. pc' \in [Threads -> OwnerPCs \cup HandlerPCs]
    BY <1>1, <1>2 DEF TypeOK, OwnerPCs
  <2> QED
    BY <1>1, <1>2, <2>1 DEF TypeOK, ConnsSame
<1>12. Draining'
  <2>1. IsInjective(keep_alive_list')
    BY <1>1 DEF SInv, Draining, ConnsSame
  <2> QED
    BY <1>1, <2>1, DrainingMoves DEF Drained, ConnsSame
<1>13. Placed'
  <2>1. ASSUME NEW u \in Handlers
        PROVE  pc'[u] \in HandlerPCs /\ (conn'[u] = NoConn <=> pc'[u] \in Ending \cup {"Ready", "ListenFailed"})
    <3>1. CASE u = t
      <4>1. pc'[u] = "DrainAll" /\ conn'[u] = NoConn
        BY <1>1, <1>2, <1>4, <2>1, <3>1 DEF TypeOK, Threads
      <4> QED
        BY <4>1 DEF HandlerPCs, Ending
    <3>2. CASE u # t
      <4>1. pc'[u] = pc[u] /\ conn'[u] = conn[u]
        BY <1>1, <1>2, <3>2 DEF TypeOK, Threads
      <4> QED
        BY <4>1 DEF SInv, Placed
    <3> QED
      BY <3>1, <3>2
  <2>2. pc'[Owner] \in OwnerPCs \ {"Gone"}
    BY <1>7 DEF SInv, Placed, OwnerPCs
  <2> QED
    BY <1>1, <2>1, <2>2 DEF SInv, Placed
<1>14. Elsewhere(NoConn) /\ pc[t] \notin Counted /\ "DrainAll" \notin Counted
  BY <1>1, QueueElsewhere DEF Counted
<1> QED
  BY <1>1, <1>4, <1>10, <1>11, <1>12, <1>13, <1>14, ServiceStep

\* The end of shutdown_service: the service loses the reference of its socket.
LEMMA EndShutdownKeeps ==
  ASSUME SInv, NEW t \in Threads, EndShutdown(t), UNCHANGED lifeVars
  PROVE  SInv'
<1>1. PICK b \in {"WaitFinish", "Ready"} : b = (IF t = Owner THEN "WaitFinish" ELSE "Ready")
  OBVIOUS
<1>2. /\ pc[t] = "DrainAll" /\ pc' = [pc EXCEPT ![t] = b] /\ smutex \in {NoThread, t} /\ smutex' = NoThread
      /\ ref' = ref - 1 /\ unbind_finish' = (unbind_finish \/ ref = 1)
      /\ UNCHANGED <<conn, queue, listening, listener, destroying, stop_requested>> /\ ConnsSame
  BY <1>1 DEF EndShutdown, ServiceDecref, Goto, entryVars, pollVars, peerVars, lifeVars, ConnsSame
<1>3. unbind_finish' <=> unbind_finish \/ ref = 1
  BY <1>2, ZenonT(40)
<1>4. TypeOK /\ Service
  BY DEF SInv
<1>5. pc[t] \in Ending /\ b \notin Ending
  BY <1>1, <1>2 DEF Ending
<1>6. (t \in Handlers => conn[t] = NoConn /\ At(NoConn, Ending) > 0) /\ (t \notin Handlers => t = Owner)
  BY <1>5, EndingThread
<1>7. /\ Waiting(NoConn, {"Unlisten"})' = Waiting(NoConn, {"Unlisten"}) /\ Cardinality(Targets)' = Cardinality(Targets)
      /\ listener' = listener
  <2>1. Targets' = Targets
    BY <1>2 DEF Targets, ConnsSame
  <2> QED
    BY <1>2, <2>1, SameWaiting
<1>8. /\ Bound' = Bound - 1 /\ Pending' <= Pending /\ Pending' \in Nat /\ (Pending' = 1 => pc'[Owner] = "WaitFinish")
      /\ Bound > 0 /\ pc'[Owner] = "WaitFinish" /\ listener # "on"
  <2>1. CASE t \in Handlers
    <3>1. Moves(t, b, NoConn) /\ pc'[Owner] = pc[Owner]
      BY <1>2, <1>4, <1>6, <2>1, CommAssumption DEF Moves, TypeOK, Threads
    <3>2. At(NoConn, Ending)' = At(NoConn, Ending) - (IF conn[t] = NoConn /\ pc[t] \in Ending THEN 1 ELSE 0)
                                  + (IF NoConn = NoConn /\ b \in Ending THEN 1 ELSE 0)
      BY <1>4, <2>1, <3>1, MovesAt
    <3>3. At(NoConn, Ending)' = At(NoConn, Ending) - 1
      BY <1>4, <1>5, <1>6, <2>1, <3>2, ServiceNumbers
    <3>4. Pending' = Pending - 1 /\ Pending > 0 /\ Pending \in Nat
      BY <1>4, <1>6, <1>7, <2>1, <3>3, ServiceNumbers DEF Pending, Bit
    <3>5. Bound' = Bound - 1 /\ Bound > 0
      BY <1>4, <3>1, <3>4, ServiceNumbers DEF Bound, Bit
    <3>6. pc[Owner] = "WaitFinish"
      BY <1>4, <3>4 DEF Service
    <3> QED
      BY <1>4, <3>1, <3>4, <3>5, <3>6 DEF Service
  <2>2. CASE t \notin Handlers
    <3>1. t = Owner /\ b = "WaitFinish"
      BY <1>1, <1>6, <2>2
    <3>2. pc'[Owner] = "WaitFinish" /\ At(NoConn, Ending)' = At(NoConn, Ending)
      BY <1>2, <3>1, OwnerNumbers DEF ConnsSame
    <3>3. Pending' = Pending /\ Pending \in Nat
      BY <1>4, <1>7, <3>2, ServiceNumbers DEF Pending
    <3>4. Bound' = Bound - 1 /\ Bound > 0
      BY <1>5, <3>1, <3>2, <3>3 DEF Bound, Bit, Ending
    <3> QED
      BY <1>2, <1>4, <3>1, <3>2, <3>3, <3>4 DEF Service
  <2> QED
    BY <2>1, <2>2
<1>9. ref = Bound + Cardinality(Targets) /\ ref > 0 /\ ref \in Nat /\ Cardinality(Targets) \in Nat /\ Bound \in Nat /\ ~unbind_finish
  <2>1. ref = Bound + Cardinality(Targets) /\ (unbind_finish => ref = 0)
    BY <1>4 DEF Service
  <2> QED
    BY <1>4, <1>8, <2>1, ServiceNumbers
<1>10. Service'
  <2>1. ref' = Bound' + Cardinality(Targets)'
    BY <1>2, <1>7, <1>8, <1>9
  <2>2. unbind_finish' => ref' = 0
    BY <1>2, <1>3, <1>9
  <2>3. Pending' <= 1
    BY <1>4, <1>8, ServiceNumbers DEF Service
  <2> QED
    BY <1>7, <1>8, <2>1, <2>2, <2>3 DEF Service
<1>11. TypeOK'
  <2>1. pc' \in [Threads -> OwnerPCs \cup HandlerPCs]
    BY <1>2, <1>4 DEF TypeOK, OwnerPCs, HandlerPCs
  <2>2. unbind_finish' \in BOOLEAN
    BY <1>2, ZenonT(40)
  <2>3. ref' \in Nat
    BY <1>2, <1>9
  <2> QED
    BY <1>2, <1>4, <2>1, <2>2, <2>3 DEF TypeOK, ConnsSame
<1>12. Draining'
  <2>1. victim = NoConn
    BY <1>2 DEF SInv, Draining, Drained
  <2>2. ASSUME NEW u \in Threads PROVE pc'[u] \notin Drained
    <3>1. NoThread \notin Threads
      BY CommAssumption DEF Threads
    <3>2. CASE u = t
      BY <1>2, <1>4, <3>2 DEF TypeOK, Drained
    <3>3. CASE u # t
      BY <1>2, <1>4, <3>1, <3>3 DEF TypeOK, SInv, Draining
    <3> QED
      BY <3>2, <3>3
  <2>3. IsInjective(keep_alive_list') /\ victim' = victim
    BY <1>2 DEF SInv, Draining, ConnsSame
  <2> QED
    BY <1>2, <2>1, <2>2, <2>3 DEF Draining
<1>13. Placed'
  <2>1. ASSUME NEW u \in Handlers
        PROVE  pc'[u] \in HandlerPCs /\ (conn'[u] = NoConn <=> pc'[u] \in Ending \cup {"Ready", "ListenFailed"})
    <3>1. CASE u = t
      <4>1. t # Owner /\ b = "Ready"
        BY <1>1, <2>1, <3>1, CommAssumption
      <4>2. pc'[u] = "Ready" /\ conn'[u] = NoConn
        BY <1>2, <1>4, <1>6, <2>1, <3>1, <4>1 DEF TypeOK, Threads
      <4> QED
        BY <4>2 DEF HandlerPCs
    <3>2. CASE u # t
      <4>1. pc'[u] = pc[u] /\ conn'[u] = conn[u]
        BY <1>2, <1>4, <3>2 DEF TypeOK, Threads
      <4> QED
        BY <4>1 DEF SInv, Placed
    <3> QED
      BY <3>1, <3>2
  <2>2. pc'[Owner] \in OwnerPCs \ {"Gone"}
    BY <1>8 DEF OwnerPCs
  <2> QED
    BY <1>2, <2>1, <2>2 DEF SInv, Placed
<1>14. Elsewhere(NoConn) /\ pc[t] \notin Counted /\ b \notin Counted /\ (t \in Handlers => conn[t] = NoConn)
  BY <1>2, <1>6, QueueElsewhere DEF Counted
<1> QED
  BY <1>2, <1>10, <1>11, <1>12, <1>13, <1>14, ServiceStep

\* A step of drain: the thread keeps its connection, if it has one, and stays
\* among those that count for it.
Drains(t, b) ==
  /\ pc' = [pc EXCEPT ![t] = b] /\ UNCHANGED conn
  /\ \/ pc[t] = "DrainOne"   /\ b = "DrainedOne"
     \/ pc[t] = "DrainAll"   /\ b = "DrainedAll"
     \/ pc[t] = "DrainedOne" /\ b = "Enter"
     \/ pc[t] = "DrainedAll" /\ b = "DrainAll"

AtSame(d) ==
  /\ At(d, Holding)' = At(d, Holding) /\ At(d, Twice)' = At(d, Twice)
  /\ At(d, InSession)' = At(d, InSession) /\ At(d, PollHands)' = At(d, PollHands)
  /\ At(d, AtRequest)' = At(d, AtRequest) /\ At(d, Arriving)' = At(d, Arriving)
  /\ At(d, AtClosed)' = At(d, AtClosed) /\ At(d, WriteResults)' = At(d, WriteResults)
  /\ At(d, Keeping)' = At(d, Keeping) /\ At(d, AtReply)' = At(d, AtReply)
  /\ At(d, AtUnkeep)' = At(d, AtUnkeep) /\ At(d, Locking)' = At(d, Locking)

\* A connection keeps its part of the invariant while its threads stay among their kind.
LEMMA FramedAt ==
  ASSUME NEW c \in Conns, Conn(c), Same(c), AtSame(c), \A K : Waiting(c, K)' = Waiting(c, K), Locked(c)'
  PROVE  Conn(c)'
<1>1. Poll(c)' = Poll(c) /\ Requested(c)' = Requested(c)
  BY DEF Poll, Requested, Same, AtSame
<1>2. Linked(c)' <=> Linked(c)
  BY <1>1 DEF Linked, AtSame
<1>3. Begun(c)' = Begun(c) /\ Arrived(c)' = Arrived(c) /\ (Live(c)' <=> Live(c)) /\ Unanswered(c)' = Unanswered(c)
  BY <1>1 DEF Begun, Arrived, Live, Unanswered, Same, AtSame
<1>4. Counts(c)' /\ Single(c)'
  BY <1>1, <1>3 DEF Conn, Counts, Single, Same, Bit, AtSame
<1>5. Watching(c)' /\ Listed(c)' /\ Heard(c)'
  BY <1>1, <1>2, <1>3 DEF Conn, Watching, Listed, Heard, Same
<1>6. Replying(c)'
  BY <1>2 DEF Conn, Replying, Same, AtSame
<1> QED
  BY <1>4, <1>5, <1>6 DEF Conn

\* A step of drain moves no thread from one kind of place to another.
LEMMA DrainsAt ==
  ASSUME SInv, NEW t \in Threads, NEW b, Drains(t, b)
  PROVE  /\ \A d : AtSame(d) /\ At(d, Ending)' = At(d, Ending)
         /\ \A u \in Handlers : pc'[u] \in Locking <=> pc[u] \in Locking
         /\ Hands(Counted)' = Hands(Counted)
<1>1. \A u \in Threads : u # t => pc'[u] = pc[u]
  BY DEF Drains, SInv, TypeOK
<1>2. pc'[t] = b
  BY DEF Drains, SInv, TypeOK
<1>3. ASSUME NEW d, NEW K, pc[t] \in K <=> b \in K PROVE At(d, K)' = At(d, K)
  <2>1. \A u \in Handlers : (conn'[u] = d <=> conn[u] = d) /\ (conn[u] = d => (pc'[u] \in K <=> pc[u] \in K))
    BY <1>1, <1>2, <1>3 DEF Drains, Threads
  <2>2. Num(pc', conn', d, K) = Num(pc, conn, d, K)
    BY <2>1, NumSame
  <2> QED
    BY <2>2 DEF At
<1>4. /\ pc[t] \in Holding <=> b \in Holding
      /\ pc[t] \in Twice <=> b \in Twice
      /\ pc[t] \in InSession <=> b \in InSession
      /\ pc[t] \in PollHands <=> b \in PollHands
      /\ pc[t] \in AtRequest <=> b \in AtRequest
      /\ pc[t] \in Arriving <=> b \in Arriving
      /\ pc[t] \in AtClosed <=> b \in AtClosed
      /\ pc[t] \in WriteResults <=> b \in WriteResults
      /\ pc[t] \in Keeping <=> b \in Keeping
      /\ pc[t] \in AtReply <=> b \in AtReply
      /\ pc[t] \in AtUnkeep <=> b \in AtUnkeep
      /\ pc[t] \in Locking <=> b \in Locking
      /\ pc[t] \in Ending <=> b \in Ending
      /\ pc[t] \in Counted <=> b \in Counted
  BY DEF Drains, Holding, Twice, InSession, PollHands, PollResults, Arriving, Counted, WriteResults, Keeping,
       Locking, AtRequest, AtClosed, AtReply, AtUnkeep, Ending
<1>5. ASSUME NEW d PROVE AtSame(d) /\ At(d, Ending)' = At(d, Ending)
  BY <1>3, <1>4 DEF AtSame
<1>6. \A u \in Handlers : pc'[u] \in Locking <=> pc[u] \in Locking
  BY <1>1, <1>2, <1>4 DEF Threads
<1>7. {u \in Handlers : pc'[u] \in Counted} = {u \in Handlers : pc[u] \in Counted}
  BY <1>1, <1>2, <1>4 DEF Threads
<1> QED
  BY <1>5, <1>6, <1>7 DEF Hands

\* It keeps the invariant if it keeps the part of the connection it closes.
LEMMA DrainStep ==
  ASSUME SInv, TypeOK', NEW t \in Threads, NEW b, Drains(t, b), NEW c \in Conns, Touches(c), Conn(c)',
         UNCHANGED <<queue, listener, ref, unbind_finish, destroying, tmutex, tref>>, Draining', Limits'
  PROVE  SInv'
<1>1. \A u \in Threads : u # t => pc'[u] = pc[u]
  BY DEF Drains, SInv, TypeOK
<1>2. pc'[t] = b /\ conn' = conn
  BY DEF Drains, SInv, TypeOK
<1>3. ASSUME NEW d \in Conns, d # c PROVE Conn(d)'
  <2>1. Same(d) /\ Conn(d) /\ AtSame(d) /\ \A K : Waiting(d, K)' = Waiting(d, K)
    BY <1>3, DrainsAt, SameWaiting DEF SInv, Touches
  <2>2. Locked(d)'
    <3>1. \A u \in Handlers : pc'[u] \in Locking <=> pc[u] \in Locking
      BY DrainsAt
    <3> QED
      BY <1>2, <2>1, <3>1 DEF Locked, Conn
  <2> QED
    BY <2>1, <2>2, FramedAt
<1>4. pc'[Owner] = pc[Owner] \/ (pc[Owner] \in Ending /\ pc'[Owner] \in Ending \cap OwnerPCs)
  <2>1. Owner \in Threads /\ pc[Owner] \in OwnerPCs
    BY DEF Threads, SInv, Placed
  <2>2. CASE t = Owner
    BY <1>2, <2>1, <2>2 DEF Drains, OwnerPCs, Ending
  <2> QED
    BY <1>1, <2>1, <2>2
<1>5. Service'
  <2>1. Pending' = Pending
    BY DrainsAt, SameWaiting DEF Pending
  <2>2. Bound' = Bound
    BY <1>4, <2>1 DEF Bound
  <2>3. Targets' = Targets
    BY DEF Targets
  <2>4. pc'[Owner] # pc[Owner] => pc[Owner] # "WaitFinish" /\ pc[Owner] # "Up" /\ pc'[Owner] \notin {"Off", "Stopped", "Starting"}
    BY <1>4 DEF Ending
  <2> QED
    BY <2>1, <2>2, <2>3, <2>4 DEF SInv, Service
<1>6. Placed'
  <2>1. ASSUME NEW u \in Handlers
        PROVE  pc'[u] \in HandlerPCs /\ (conn'[u] = NoConn <=> pc'[u] \in Ending \cup {"Ready", "ListenFailed"})
    <3>1. CASE u = t
      <4>1. b \in HandlerPCs /\ (b \in Ending \cup {"Ready", "ListenFailed"} <=> pc[t] \in Ending \cup {"Ready", "ListenFailed"})
        BY DEF Drains, HandlerPCs, Ending
      <4> QED
        BY <1>2, <3>1, <4>1 DEF SInv, Placed
    <3>2. CASE u # t
      BY <1>1, <1>2, <3>2 DEF SInv, Placed, Threads
    <3> QED
      BY <3>1, <3>2
  <2>2. pc'[Owner] \in OwnerPCs \ {"Gone"}
    BY <1>4 DEF SInv, Placed, Ending
  <2> QED
    BY <1>2, <2>1, <2>2 DEF SInv, Placed
<1> QED
  BY <1>3, <1>5, <1>6 DEF SInv

\* drain takes the connection that was kept alive longest from the list.
LEMMA DrainTakeKeeps ==
  ASSUME SInv, NEW t \in Threads, DrainTake(t), UNCHANGED lifeVars
  PROVE  SInv'
<1>1. PICK b \in {"DrainedOne", "DrainedAll"} : Drains(t, b)
  BY DEF DrainTake, Goto, Drains
<1>list. /\ Last(keep_alive_list) \in Conns /\ Contains(keep_alive_list, Last(keep_alive_list))
         /\ Front(keep_alive_list) \in Seq(Conns) /\ IsInjective(Front(keep_alive_list))
         /\ \A d : Contains(Front(keep_alive_list), d) <=> d # Last(keep_alive_list) /\ Contains(keep_alive_list, d)
  BY LastTaken DEF DrainTake, SInv, TypeOK, Draining
<1>2. PICK c \in Conns : c = Last(keep_alive_list)
  BY <1>list
<1>3. keep_alive_list' = Front(keep_alive_list)
  BY DEF DrainTake
<1>4. /\ keep_alive_list' \in Seq(Conns) /\ IsInjective(keep_alive_list') /\ Contains(keep_alive_list, c)
      /\ \A d : Contains(keep_alive_list', d) <=> d # c /\ Contains(keep_alive_list, d)
  BY <1>list, <1>2, <1>3
<1>5. /\ smutex \in {NoThread, t} /\ smutex' = t /\ victim' = c
      /\ node' = Set(node, c, "none") /\ pipe' = Set(pipe, c, pipe[c] \/ node[c] # "none")
      /\ UNCHANGED <<listening, listener, ref, unbind_finish, conn_count, state, eref, tref, idle, tmutex, reading, queue,
                     unread, sent, answered, premature, stop_requested, destroying>>
  BY <1>2 DEF DrainTake, NodeDel, serviceVars, entryVars, peerVars, lifeVars
<1>6. victim = NoConn /\ \A d \in Conns : victim # d
  BY <1>1, <1>5, CommAssumption DEF Drains, SInv, Draining, Drained
<1>7. Touches(c)
  <2> SUFFICES ASSUME NEW d \in Conns, d # c PROVE Same(d)
    BY DEF Touches
  <2>1. node'[d] = node[d] /\ pipe'[d] = pipe[d] /\ victim' # d /\ victim # d
    BY <1>5, <1>6 DEF Set, SInv, TypeOK
  <2> QED
    BY <1>4, <1>5, <2>1 DEF Same
<1>8. node'[c] = "none" /\ (pipe'[c] <=> pipe[c] \/ node[c] # "none") /\ ~Contains(keep_alive_list', c)
  <2>1. pipe'[c] = (pipe[c] \/ node[c] # "none") /\ node'[c] = "none"
    BY <1>5 DEF Set, SInv, TypeOK
  <2>2. pipe'[c] <=> pipe[c] \/ node[c] # "none"
    BY <2>1, ZenonT(40)
  <2> QED
    BY <1>4, <2>1, <2>2
<1>9. Known(c) /\ state[c] = "KeepAlive" /\ Linked(c)
  BY <1>4, KnownAll DEF Known, Conn, Listed
<1>10. node[c] # "write" /\ c \notin idle /\ reading[c] # "message"
  BY <1>9 DEF Known, Conn, Replying, Watching
<1>11. AtSame(c) /\ \A K : Waiting(c, K)' = Waiting(c, K)
  BY <1>1, <1>5, DrainsAt, SameWaiting
<1>12. /\ Poll(c)' = Poll(c) /\ Requested(c)' = Requested(c) /\ Begun(c)' = Begun(c)
       /\ Arrived(c)' = Arrived(c) /\ (Live(c)' <=> Live(c)) /\ Linked(c)'
  <2>1. Requested(c)' = Requested(c) /\ Arrived(c)' = Arrived(c) /\ (Live(c)' <=> Live(c))
    BY <1>5, <1>11 DEF Requested, Arrived, Live, AtSame
  <2>2. ~(pipe[c] /\ node[c] # "none")
    BY <1>9 DEF Known, Sized, Linked, Poll, Bit
  <2>3. Poll(c)' = Poll(c)
    BY <1>5, <1>8, <1>9, <1>11, <2>1, <2>2 DEF Poll, Bit, Known, Sized
  <2>4. Begun(c)' = Begun(c)
    BY <1>5, <1>8, <1>9, <1>10, <1>11, <2>3 DEF Begun, Bit, Known, Sized
  <2> QED
    BY <1>9, <1>11, <2>1, <2>3, <2>4 DEF Linked, AtSame
<1>13. Conn(c)'
  <2>1. Counts(c)' /\ Single(c)'
    BY <1>5, <1>9, <1>11, <1>12 DEF Known, Conn, Counts, Single, AtSame, Bit
  <2>2. Watching(c)'
    BY <1>5, <1>8, <1>9, <1>10, <1>12 DEF Known, Conn, Watching
  <2>3. Replying(c)'
    BY <1>5, <1>8, <1>9, <1>10, <1>11, <1>12 DEF Known, Conn, Replying, AtSame
  <2>4. Listed(c)' /\ Heard(c)'
    BY <1>5, <1>8, <1>9, <1>12 DEF Known, Conn, Listed, Heard, Unanswered, Bit
  <2>5. Locked(c)'
    <3>1. \A u \in Handlers : pc'[u] \in Locking <=> pc[u] \in Locking
      BY <1>1, DrainsAt
    <3> QED
      BY <1>1, <1>5, <1>9, <3>1 DEF Locked, Known, Conn, Drains
  <2> QED
    BY <2>1, <2>2, <2>3, <2>4, <2>5 DEF Conn
<1>14. TypeOK'
  <2>1. pc' \in [Threads -> OwnerPCs \cup HandlerPCs] /\ conn' \in [Threads -> Conns \cup {NoConn}]
    BY <1>1 DEF SInv, TypeOK, Drains, HandlerPCs
  <2>2. (pipe[c] \/ node[c] # "none") \in BOOLEAN
    OBVIOUS
  <2>3. pipe' \in [Conns -> BOOLEAN] /\ node' \in [Conns -> {"none", "read", "write"}]
    BY <1>5, <2>2, SetIn DEF SInv, TypeOK
  <2> QED
    BY <1>4, <1>5, <2>1, <2>3 DEF SInv, TypeOK
<1>15. Draining'
  <2>1. ASSUME NEW u \in Threads, u # t PROVE pc'[u] \notin Drained
    <3>1. pc'[u] = pc[u] /\ u # NoThread
      BY <1>1, <2>1, CommAssumption DEF Drains, SInv, TypeOK, Threads
    <3> QED
      BY <1>5, <2>1, <3>1 DEF SInv, Draining
  <2>2. pc'[t] \in Drained /\ t # NoThread /\ c # NoConn
    BY <1>1, CommAssumption DEF Drains, SInv, TypeOK, Threads, Drained
  <2> QED
    BY <1>4, <1>5, <2>1, <2>2 DEF Draining
<1>16. Limits'
  <2>1. Opened' = Opened /\ Active' = Active
    BY <1>5 DEF Opened, Active, Live
  <2>2. Hands({"Enter"})' = Hands({"Enter"})
    <3>1. {u \in Handlers : pc'[u] \in {"Enter"}} = {u \in Handlers : pc[u] \in {"Enter"}}
      BY <1>1 DEF Drains, SInv, TypeOK, Threads
    <3> QED
      BY <3>1 DEF Hands
  <2>3. Hands(Counted)' = Hands(Counted)
    BY <1>1, DrainsAt
  <2> QED
    BY <1>5, <2>1, <2>2, <2>3 DEF SInv, Limits
<1> QED
  BY <1>1, <1>5, <1>7, <1>13, <1>14, <1>15, <1>16, DrainStep

\* drain marks the connection it took; a new one may take its place.
LEMMA DrainMarkKeeps ==
  ASSUME SInv, NEW t \in Threads, DrainMark(t), UNCHANGED lifeVars
  PROVE  SInv'
<1>1. PICK b \in {"Enter", "DrainAll"} : Drains(t, b) /\ pc[t] \in Drained /\ (b = "Enter" <=> pc[t] = "DrainedOne")
                                         /\ smutex' = (IF b = "Enter" THEN NoThread ELSE smutex)
  BY DEF DrainMark, Goto, Drains, Drained
<1>2. smutex = t /\ t # NoThread
  BY <1>1, CommAssumption DEF SInv, Draining, Threads
<1>3. PICK c \in Conns : c = victim
  BY <1>1, <1>2 DEF SInv, Draining, TypeOK, Drained
<1>4. /\ state' = Set(state, c, "Closing") /\ victim' = NoConn
      /\ UNCHANGED <<listening, listener, ref, unbind_finish, conn_count, keep_alive_list, eref, tref, idle, tmutex, node, pipe,
                     reading, queue, unread, sent, answered, premature, stop_requested, destroying>>
  BY <1>3 DEF DrainMark, serviceVars, pollVars, peerVars, lifeVars
<1>5. Touches(c) /\ state'[c] = "Closing" /\ victim' # c
  <2>1. \A d \in Conns : d # NoConn
    BY CommAssumption
  <2>2. \A d \in Conns : d # c => state'[d] = state[d]
    BY <1>4 DEF Set, SInv, TypeOK
  <2>3. state'[c] = "Closing"
    BY <1>4 DEF Set, SInv, TypeOK
  <2> QED
    BY <1>3, <1>4, <2>1, <2>2, <2>3 DEF Touches, Same
<1>6. Known(c) /\ state[c] = "KeepAlive" /\ Linked(c) /\ ~Contains(keep_alive_list, c)
  BY <1>3, KnownAll DEF Known, Conn, Listed
<1>7. Requested(c) = 0 /\ reading[c] # "message"
  BY <1>6 DEF Known, Conn, Watching, Single
<1>8. node[c] # "write" /\ c \notin idle /\ At(c, Keeping) = 0 /\ Waiting(c, WriteResults) = 0 /\ At(c, WriteResults) = 0
  <2>1. Replying(c) /\ Sized(c)
    BY <1>6 DEF Known, Conn
  <2>2. ~(Waiting(c, WriteResults) + At(c, WriteResults) + At(c, Keeping) > 0) /\ node[c] # "write" /\ c \notin idle
    BY <1>6, <2>1 DEF Replying
  <2> QED
    BY <2>1, <2>2 DEF Sized
<1>9. AtSame(c) /\ \A K : Waiting(c, K)' = Waiting(c, K)
  BY <1>1, <1>4, DrainsAt, SameWaiting
<1>10. /\ Poll(c)' = Poll(c) /\ Requested(c)' = Requested(c) /\ Begun(c)' = Begun(c)
       /\ Arrived(c)' = Arrived(c) /\ (Live(c)' <=> Live(c)) /\ Linked(c)'
  <2>1. Requested(c)' = Requested(c) /\ Arrived(c)' = Arrived(c) /\ (Live(c)' <=> Live(c))
    BY <1>5, <1>6, <1>9 DEF Requested, Arrived, Live, AtSame
  <2>2. Poll(c)' = Poll(c)
    BY <1>4, <1>5, <1>6, <1>7, <1>9, <2>1 DEF Poll, Bit, Known, Sized
  <2>3. Begun(c)' = Begun(c)
    BY <1>4, <1>5, <1>6, <1>8, <1>9, <2>2 DEF Begun, Bit, Known, Sized
  <2> QED
    BY <1>6, <1>9, <2>1, <2>2, <2>3 DEF Linked, AtSame
<1>11. Conn(c)'
  <2>1. Counts(c)' /\ Single(c)'
    <3>1. Arrived(c) # 1
      BY <1>6 DEF Known, Conn, Single
    <3> QED
      BY <1>4, <1>5, <1>6, <1>9, <1>10, <3>1 DEF Known, Conn, Counts, Single, AtSame, Bit
  <2>2. Watching(c)'
    BY <1>4, <1>5, <1>6, <1>7, <1>10 DEF Known, Conn, Watching
  <2>3. Replying(c)'
    BY <1>4, <1>5, <1>6, <1>8, <1>9, <1>10 DEF Known, Conn, Replying, AtSame
  <2>4. Listed(c)' /\ Heard(c)'
    BY <1>4, <1>5, <1>6, <1>10 DEF Known, Conn, Listed, Heard, Unanswered, Bit
  <2>5. Locked(c)'
    <3>1. \A u \in Handlers : pc'[u] \in Locking <=> pc[u] \in Locking
      BY <1>1, DrainsAt
    <3> QED
      BY <1>1, <1>4, <1>6, <3>1 DEF Locked, Known, Conn, Drains
  <2> QED
    BY <2>1, <2>2, <2>3, <2>4, <2>5 DEF Conn
<1>12. TypeOK'
  <2>1. pc' \in [Threads -> OwnerPCs \cup HandlerPCs] /\ conn' \in [Threads -> Conns \cup {NoConn}]
    BY <1>1 DEF SInv, TypeOK, Drains, HandlerPCs
  <2>2. state' \in [Conns -> States]
    BY <1>4, SetIn DEF SInv, TypeOK, States
  <2>3. smutex' \in Threads \cup {NoThread}
    BY <1>1, <1>2
  <2> QED
    BY <1>4, <2>1, <2>2, <2>3 DEF SInv, TypeOK
<1>13. Draining'
  <2>1. ASSUME NEW u \in Threads PROVE pc'[u] \notin Drained
    <3>1. CASE u = t
      BY <1>1, <3>1 DEF Drains, SInv, TypeOK, Drained
    <3>2. CASE u # t
      BY <1>1, <1>2, <3>2 DEF Drains, SInv, TypeOK, Draining
    <3> QED
      BY <3>1, <3>2
  <2>2. b = "DrainAll" => pc'[t] = "DrainAll"
    BY <1>1 DEF Drains, SInv, TypeOK
  <2>3. IsInjective(keep_alive_list')
    BY <1>4 DEF SInv, Draining
  <2> QED
    BY <1>1, <1>2, <1>4, <2>1, <2>2, <2>3 DEF Draining
<1>14. Limits'
  <2>1. Cardinality(Opened)' = Cardinality(Opened) /\ Cardinality(Active)' = Cardinality(Active) - 1
    BY <1>5, <1>6, SetsMove DEF Live
  <2>2. Hands({"Enter"})' <= Hands({"Enter"}) + 1 /\ Hands({"Enter"})' \in Nat
    <3>1. CASE t \in Handlers
      <4>1. TypeOK /\ pc' = [pc EXCEPT ![t] = b]
        BY <1>1 DEF SInv, Drains
      <4>2. ASSUME NEW K PROVE Hands(K) \in Nat /\ Hands(K)' \in Nat /\ Hands(K)' <= Hands(K) + 1
        <5>1. /\ Hands(K) \in Nat /\ Hands(K)' \in Nat
              /\ Hands(K)' = Hands(K) - (IF pc[t] \in K THEN 1 ELSE 0) + (IF b \in K THEN 1 ELSE 0)
          BY ONLY <4>1, HandsMove, <3>1
        <5> QED
          BY <5>1
      <4> QED
        BY <4>2
    <3>2. CASE t \notin Handlers
      <4>1. {u \in Handlers : pc'[u] \in {"Enter"}} = {u \in Handlers : pc[u] \in {"Enter"}}
        BY <1>1, <3>2 DEF Drains, SInv, TypeOK, Threads
      <4>2. Hands({"Enter"})' = Hands({"Enter"})
        BY <4>1 DEF Hands
      <4> QED
        BY <4>2, LimitNumbers
    <3> QED
      BY <3>1, <3>2
  <2>3. Hands(Counted)' = Hands(Counted)
    BY <1>1, DrainsAt
  <2>4. MaxConnections \in Nat
    BY CommAssumption
  <2> QED
    BY <1>4, <2>1, <2>2, <2>3, <2>4, LimitNumbers DEF SInv, Limits
<1> QED
  BY <1>1, <1>4, <1>5, <1>11, <1>12, <1>13, <1>14, DrainStep

-----------------------------------------------------------------------------
(***************************************************************************)
(* The invariant.                                                          *)
(***************************************************************************)
\* The invariant holds before the server is started.
LEMMA InitSInv == LifeInit => SInv
<1> SUFFICES ASSUME LifeInit PROVE SInv
  OBVIOUS
<1> USE DEF LifeInit, Init
<1>1. \A t \in Handlers : pc[t] = "Ready" /\ conn[t] = NoConn
  BY CommAssumption DEF Threads
<1>2. pc[Owner] = "Off" /\ NoConn \notin Conns
  BY CommAssumption DEF Threads
<1>3. TypeOK
  <2>1. pc \in [Threads -> OwnerPCs \cup HandlerPCs] /\ conn \in [Threads -> Conns \cup {NoConn}]
    BY DEF OwnerPCs, HandlerPCs
  <2>2. /\ state \in [Conns -> States] /\ tmutex \in [Conns -> Handlers \cup {NoThread}]
        /\ node \in [Conns -> {"none", "read", "write"}] /\ reading \in [Conns -> {"no", "asked", "message"}]
    BY DEF States
  <2>3. eref \in [Conns -> Nat] /\ tref \in [Conns -> Nat] /\ unread \in [Conns -> Nat] /\ sent \in [Conns -> Nat]
    OBVIOUS
  <2>4. answered \in [Conns -> Nat] /\ pipe \in [Conns -> BOOLEAN]
    OBVIOUS
  <2>5. listening \in BOOLEAN /\ unbind_finish \in BOOLEAN /\ stop_requested \in BOOLEAN /\ destroying \in BOOLEAN
    OBVIOUS
  <2>6. /\ queue \in Seq([kind : Results, conn : Conns \cup {NoConn}]) /\ keep_alive_list \in Seq(Conns)
        /\ listener \in {"off", "on", "deleted"} /\ ref \in Nat /\ conn_count \in Nat
        /\ smutex \in Threads \cup {NoThread} /\ victim \in Conns \cup {NoConn} /\ idle \subseteq Conns /\ premature \subseteq Conns
    OBVIOUS
  <2> QED
    BY <2>1, <2>2, <2>3, <2>4, <2>5, <2>6 DEF TypeOK
<1>4. Cardinality({}) = 0
  BY FS_EmptySet
<1>5. ASSUME NEW c, NEW K, c # NoConn \/ "Ready" \notin K PROVE At(c, K) = 0
  <2>1. {t \in Handlers : conn[t] = c /\ pc[t] \in K} = {}
    BY <1>1, <1>5
  <2> QED
    BY <1>4, <2>1 DEF At, Num
<1>6. ASSUME NEW c, NEW K PROVE Waiting(c, K) = 0
  <2>1. {i \in 1..Len(queue) : queue[i].conn = c /\ queue[i].kind \in K} = {}
    OBVIOUS
  <2> QED
    BY <1>4, <2>1 DEF Waiting, Kept
<1>7. Placed
  BY <1>1, <1>2 DEF Placed, OwnerPCs, HandlerPCs
<1>8. Draining
  <2>1. \A t \in Threads : pc[t] \notin Drained
    BY DEF Drained
  <2> QED
    BY <2>1 DEF Draining, IsInjective
<1>9. Service
  <2>1. Pending = 0
    BY <1>5, <1>6 DEF Pending, Bit, Ending
  <2>2. Bound = 0
    BY <1>2, <2>1 DEF Bound, Bit, Ending
  <2>3. Targets = {}
    BY DEF Targets
  <2> QED
    BY <1>2, <1>4, <2>1, <2>2, <2>3 DEF Service
<1>10. Limits
  <2>1. Opened = {} /\ Active = {}
    BY DEF Opened, Active, Live
  <2>2. {t \in Handlers : pc[t] \in Counted} = {} /\ {t \in Handlers : pc[t] \in {"Enter"}} = {}
    BY <1>1 DEF Counted
  <2>3. Hands(Counted) = 0 /\ Hands({"Enter"}) = 0
    BY <1>4, <2>2 DEF Hands
  <2>4. Cardinality(Opened) = 0 /\ Cardinality(Active) = 0
    BY <1>4, <2>1, ZenonT(40)
  <2>5. conn_count = 0
    OBVIOUS
  <2> QED
    BY <2>3, <2>4, <2>5, CommAssumption DEF Limits
<1>11. ASSUME NEW c \in Conns PROVE Conn(c)
  <2>1. \A K : At(c, K) = 0 /\ Waiting(c, K) = 0
    BY <1>2, <1>5, <1>6
  <2>2. /\ state[c] = "None" /\ node[c] = "none" /\ pipe[c] = FALSE /\ eref[c] = 0 /\ tref[c] = 0 /\ reading[c] = "no"
        /\ unread[c] = 0 /\ sent[c] = 0 /\ answered[c] = 0 /\ tmutex[c] = NoThread
    OBVIOUS
  <2>3. Requested(c) = 0 /\ Arrived(c) = 0
    BY <2>1 DEF Requested, Arrived
  <2>4. Poll(c) = 0 /\ ~Live(c)
    BY <2>1, <2>2 DEF Poll, Bit, Live
  <2>5. Begun(c) = 0
    BY <2>1, <2>2 DEF Begun, Bit
  <2>6. Counts(c) /\ Single(c)
    BY <2>1, <2>2, <2>3, <2>4, <2>5 DEF Counts, Single, Bit
  <2>7. Watching(c) /\ Replying(c)
    BY <2>1, <2>2, <2>3 DEF Watching, Replying
  <2>8. Locked(c)
    BY <1>1, <1>2, <2>2, CommAssumption DEF Locked
  <2>9. Listed(c) /\ Heard(c)
    BY <1>2, <2>2 DEF Listed, Heard, Unanswered, Bit, Contains
  <2> QED
    BY <2>6, <2>7, <2>8, <2>9 DEF Conn
<1> QED
  BY <1>3, <1>7, <1>8, <1>9, <1>10, <1>11 DEF SInv

\* A thread takes note that the listening socket failed.
LEMMA HandleStopKeeps ==
  ASSUME SInv, NEW t \in Handlers, HandleStop(t), UNCHANGED lifeVars
  PROVE  SInv'
<1>1. /\ pc[t] = "ListenFailed" /\ pc' = [pc EXCEPT ![t] = "Ready"] /\ ConnsSame
      /\ UNCHANGED <<conn, queue, smutex, listening, listener, ref, unbind_finish, destroying, stop_requested>>
  BY DEF HandleStop, Goto, serviceVars, drainVars, entryVars, pollVars, peerVars, lifeVars, ConnsSame
<1>2. TypeOK /\ conn[t] = NoConn
  BY <1>1 DEF SInv, Placed
<1>3. Moves(t, "Ready", NoConn)
  BY <1>1, <1>2 DEF Moves, TypeOK
<1>4. Placed'
  BY <1>1, <1>3, PlacedMoves DEF HandlerPCs, lifeVars
<1>5. Draining'
  <2>1. IsInjective(keep_alive_list') /\ UNCHANGED <<smutex, victim>>
    BY <1>1 DEF SInv, Draining, ConnsSame
  <2>2. "ListenFailed" \notin Drained \cup {"DrainAll"} /\ "Ready" \notin Drained /\ t \in Threads
    BY DEF Drained, Threads
  <2> QED
    BY <1>1, <2>1, <2>2, DrainingMoves
<1>6. Service'
  <2>1. pc'[Owner] = pc[Owner]
    BY <1>1, <1>2, CommAssumption DEF TypeOK, Threads
  <2>2. At(NoConn, Ending)' = At(NoConn, Ending)
    <3>1. At(NoConn, Ending) \in Nat /\ pc[t] \notin Ending /\ "Ready" \notin Ending
      BY <1>1, <1>2, Numbers DEF Ending
    <3>2. At(NoConn, Ending)' = At(NoConn, Ending) - (IF conn[t] = NoConn /\ pc[t] \in Ending THEN 1 ELSE 0)
                                  + (IF NoConn = NoConn /\ "Ready" \in Ending THEN 1 ELSE 0)
      BY <1>2, <1>3, MovesAt
    <3> QED
      BY <3>1, <3>2
  <2>3. Waiting(NoConn, {"Unlisten"})' = Waiting(NoConn, {"Unlisten"}) /\ Targets' = Targets
    BY <1>1, SameWaiting DEF Targets, ConnsSame
  <2> QED
    BY <1>1, <2>1, <2>2, <2>3, ServiceMoves
<1>7. Limits'
  <2>1. Opened' = Opened /\ Active' \subseteq Active /\ UNCHANGED conn_count
    BY <1>1 DEF Opened, Active, Live, ConnsSame
  <2>2. pc[t] \notin Counted /\ "Ready" \notin Counted
    BY <1>1 DEF Counted
  <2> QED
    BY <1>1, <2>1, <2>2, LimitsMove
<1>8. TypeOK'
  <2>1. pc' \in [Threads -> OwnerPCs \cup HandlerPCs]
    BY <1>1, <1>2 DEF TypeOK, HandlerPCs
  <2> QED
    BY <1>1, <1>2, <2>1 DEF TypeOK, ConnsSame
<1>9. \A d \in Conns : Unmoved(d)
  BY <1>2, <1>3, CommAssumption DEF Unmoved, Moves, TypeOK, Threads
<1>10. Elsewhere(NoConn)
  BY <1>1, QueueElsewhere
<1> QED
  BY <1>1, <1>4, <1>5, <1>6, <1>7, <1>8, <1>9, <1>10, ConnsStay DEF SInv

\* What a handler thread does.
LEMMA HandlerKeeps ==
  ASSUME SInv, NEW t \in Handlers, HandlerStep(t), UNCHANGED lifeVars
  PROVE  SInv'
<1> t \in Threads
  BY DEF Threads
<1>1. CASE Get(t) \/ HandleStop(t) \/ NewConnection(t) \/ NoRoom(t) \/ Enter(t)
  BY <1>1, GetKeeps, HandleStopKeeps, NewConnectionKeeps, NoRoomKeeps, EnterKeeps
<1>2. CASE ShutdownStep(t)
  BY <1>2, CloseListenKeeps, DrainTakeKeeps, DrainMarkKeeps, EndShutdownKeeps DEF ShutdownStep
<1>3. CASE ToReply(t)
  BY <1>3, ToReplyKeeps, ToReplyClosed
<1>4. CASE NothingToReply(t) \/ ReplyAll(t) \/ ReplyFails(t) \/ Unkeep(t)
  BY <1>4, NothingToReplyKeeps, ReplyAllKeeps, ReplyFailsKeeps, UnkeepKeeps
<1>5. CASE ReplyPart(t)
  BY <1>5, ReplyPartWatched, ReplyPartUnwatched
<1>6. CASE Keep(t)
  BY <1>6, KeepAlive, KeepClosed
<1>7. CASE Written(t)
  BY <1>7, WrittenWatched, WrittenUnwatched
<1>8. CASE Closed(t)
  <2>1. state[conn[t]] \in {"KeepAlive", "Idle", "Error", "Receiving", "Success", "Connected", "Closing"}
    BY <1>8 DEF Closed
  <2> QED
    BY <1>8, <2>1, ClosedKept, ClosedIdle, ClosedEarly, ClosedRequested, ClosedUnused
<1>9. CASE EndSession(t)
  BY <1>9, EndSessionKeeps, EndSessionFailed
<1>10. CASE Unref(t)
  <2>1. pc[t] \in {"Unref", "UnrefReplied"}
    BY <1>10 DEF Unref, Goto
  <2> QED
    BY <1>10, <2>1, UnrefTwice, UnrefOne, UnrefLast
<1> QED
  BY <1>1, <1>2, <1>3, <1>4, <1>5, <1>6, <1>7, <1>8, <1>9, <1>10 DEF HandlerStep

\* What happens to a connection outside the handler threads.
LEMMA ConnKeeps ==
  ASSUME SInv, NEW c \in Conns, ConnStep(c), UNCHANGED lifeVars
  PROVE  SInv'
<1>1. CASE Send(c) \/ Accept(c) \/ Receive(c) \/ ReadFails(c)
  BY <1>1, SendKeeps, AcceptKeeps, ReceiveKeeps, ReadFailsKeeps
<1>2. CASE Deleted(c) \/ Read(c) \/ CreateRequest(c)
  BY <1>2, DeletedKeeps, ReadKeeps, CreateRequestKeeps
<1>3. CASE Refuse(c)
  BY <1>3, RefuseWatched, RefuseDeleted
<1>4. CASE Write(c)
  BY <1>4, WriteEnds, WriteFails DEF Write
<1> QED
  BY <1>1, <1>2, <1>3, <1>4 DEF ConnStep, PollerStep

\* Nothing happens.
LEMMA StutterKeeps ==
  ASSUME SInv, UNCHANGED allVars
  PROVE  SInv'
<1>1. /\ UNCHANGED <<listening, listener, ref, unbind_finish, conn_count, keep_alive_list, smutex, victim, state, eref,
                     tref, idle, tmutex, node, pipe, reading, queue, pc, conn, unread, sent, answered, premature>>
      /\ UNCHANGED <<stop_requested, destroying>>
  BY DEF allVars, lifeVars, vars, serviceVars, drainVars, entryVars, pollVars, peerVars
<1>2. TypeOK' /\ Placed' /\ Draining' /\ Limits'
  BY <1>1 DEF SInv, TypeOK, Placed, Draining, Limits, Opened, Active, Hands, Live
<1>3. ConnsSame /\ Elsewhere(NoConn) /\ \A d \in Conns : Unmoved(d)
  BY <1>1, QueueElsewhere DEF ConnsSame, Unmoved
<1>4. Service'
  <2>1. At(NoConn, Ending)' = At(NoConn, Ending) /\ Waiting(NoConn, {"Unlisten"})' = Waiting(NoConn, {"Unlisten"})
    BY <1>1 DEF At, Waiting
  <2>2. Targets' = Targets
    BY <1>1 DEF Targets
  <2> QED
    BY <1>1, <2>1, <2>2, ServiceMoves
<1> QED
  BY <1>2, <1>3, <1>4, ConnsStay DEF SInv

\* Every step keeps the invariant.
LEMMA NextSInv == SInv /\ [Next]_allVars => SInv'
<1> SUFFICES ASSUME SInv, [Next]_allVars PROVE SInv'
  OBVIOUS
<1>1. CASE BeginStart \/ RequestStop \/ EndStart \/ StopServer \/ StopEnds
  BY <1>1, BeginStartKeeps, RequestStopKeeps, EndStartKeeps, StopServerKeeps, StopEndsKeeps
<1>2. CASE ShutdownStep(Owner) /\ UNCHANGED lifeVars
  <2>1. Owner \in Threads
    BY DEF Threads
  <2> QED
    BY <1>2, <2>1, CloseListenKeeps, DrainTakeKeeps, DrainMarkKeeps, EndShutdownKeeps DEF ShutdownStep
<1>3. CASE (ListenFails \/ Unlistened) /\ UNCHANGED lifeVars
  BY <1>3, ListenFailsKeeps, UnlistenedKeeps
<1>4. CASE (\E c \in Conns : ConnStep(c)) /\ UNCHANGED lifeVars
  BY <1>4, ConnKeeps
<1>5. CASE (\E t \in Handlers : HandlerStep(t)) /\ UNCHANGED lifeVars
  BY <1>5, HandlerKeeps
<1>6. CASE UNCHANGED allVars
  BY <1>6, StutterKeeps
<1> QED
  BY <1>1, <1>2, <1>3, <1>4, <1>5, <1>6 DEF Next, OwnerStep

\* SInv holds in every state of a SimpleRpcServer: the reference counts of the
\* service, the targets and the entries are what their holders add up to.
THEOREM StructureInvariant == FairSpec => []SInv
  BY InitSInv, NextSInv, PTL DEF FairSpec

-----------------------------------------------------------------------------
(***************************************************************************)
(* What follows from it.                                                   *)
(***************************************************************************)
\* The structure of the entries.
LEMMA SInvSound == SInv => EntriesSound
<1> SUFFICES ASSUME SInv PROVE EntriesSound
  OBVIOUS
<1>1. TypeOK /\ IsInjective(keep_alive_list)
  BY DEF SInv, Draining
<1>2. ASSUME NEW i \in 1..Len(keep_alive_list) PROVE state[keep_alive_list[i]] = "KeepAlive"
  <2>1. keep_alive_list[i] \in Conns
    BY <1>1 DEF TypeOK
  <2>2. Contains(keep_alive_list, keep_alive_list[i])
    BY DEF Contains
  <2> QED
    BY <2>1, <2>2 DEF SInv, Conn, Listed
<1>3. ASSUME NEW c \in idle PROVE state[c] = "Idle"
  <2>1. c \in Conns
    BY <1>1 DEF TypeOK
  <2> QED
    BY <2>1 DEF SInv, Conn, Replying
<1> QED
  BY <1>1, <1>2, <1>3 DEF EntriesSound, ListsAgree

\* A connection that is gone has left no reference, result or thread behind.
LEMMA FreedLeft ==
  ASSUME SInv, NEW c \in Conns, state[c] = "Freed"
  PROVE  Nothing(c) /\ eref[c] = 0 /\ tref[c] = 0 /\ Known(c)
<1>1. Known(c) /\ Parts(c)
  BY KnownAll, PartsAll
<1>2. eref[c] = 0 /\ ~Live(c)
  BY <1>1 DEF Known, Conn, Counts, Live
<1>3. Poll(c) = 0 /\ At(c, Holding) = 0 /\ At(c, Twice) = 0
  BY <1>1, <1>2 DEF Known, Sized, Conn, Counts
<1>4. At(c, PollHands) = 0 /\ At(c, AtReply) = 0 /\ At(c, AtKeepWritten) = 0 /\ At(c, AtEndSession) = 0
  <2>1. ASSUME NEW K, K \subseteq Holding PROVE At(c, K) = 0
    <3>1. At(c, K) \in Nat /\ At(c, K) <= At(c, Holding)
      BY <2>1, Numbers DEF SInv
    <3> QED
      BY <1>3, <3>1
  <2> QED
    BY <2>1 DEF Holding, AtReply, AtKeepWritten, AtEndSession
<1>5. At(c, AtKeepReplied) = 0 /\ At(c, AtReplied) = 0
  BY <1>1, <1>3 DEF Parts
<1>6. At(c, AtClosed) = 0 /\ At(c, WriteResults) = 0 /\ At(c, AtUnkeep) = 0
  BY <1>1, <1>4 DEF Known, Sized, Parts
<1>7. At(c, Keeping) = 0
  BY <1>1, <1>4, <1>5 DEF Parts
<1>8. At(c, Locking) = 0
  BY <1>1, <1>6, <1>7 DEF Parts
<1>9. At(c, InSession) = At(c, AtRequest)
  BY <1>1, <1>4, <1>5, <1>6, <1>7 DEF Known, Sized, Parts
<1>10. node[c] = "none" /\ ~pipe[c] /\ Waiting(c, PollResults) = 0 /\ Waiting(c, WriteResults) = 0
  <2>1. Waiting(c, PollResults) \in Nat /\ Waiting(c, WriteResults) \in Nat /\ Waiting(c, WriteResults) <= Waiting(c, PollResults)
    BY <1>1 DEF Known, Sized
  <2>2. (IF node[c] # "none" THEN 1 ELSE 0) + (IF pipe[c] THEN 1 ELSE 0) + Waiting(c, PollResults) = 0
    BY <1>3, <2>1 DEF Poll, Bit
  <2>3. ASSUME pipe[c] PROVE FALSE
    BY <2>1, <2>2, <2>3
  <2>4. node[c] = "none" /\ Waiting(c, PollResults) = 0
    BY <2>1, <2>2
  <2> QED
    BY <2>1, <2>3, <2>4
<1>11. Requested(c) = 0 /\ Waiting(c, AtRequest) = 0 /\ At(c, AtRequest) = 0
  <2>1. Requested(c) = 0
    BY <1>1 DEF Known, Conn, Single, Watching
  <2> QED
    BY <1>1, <2>1 DEF Known, Sized, Requested
<1>12. Begun(c) = 0 /\ Arrived(c) = 0
  <2>1. Begun(c) = 0
    BY <1>10, <1>11 DEF Begun, Bit
  <2>2. Arrived(c) = 0
    BY <1>1 DEF Known, Conn, Single
  <2> QED
    BY <2>1, <2>2
<1>13. tref[c] = 0
  BY <1>1, <1>2, <1>9, <1>11, <1>12 DEF Known, Conn, Counts, Bit
<1>14. reading[c] = "no" /\ c \notin idle /\ ~Contains(keep_alive_list, c) /\ victim # c
  BY <1>1, <1>10 DEF Known, Conn, Watching, Replying, Listed
<1> QED
  BY <1>1, <1>2, <1>3, <1>4, <1>6, <1>7, <1>8, <1>9, <1>10, <1>11, <1>12, <1>13, <1>14 DEF Nothing

\* Nobody works on a connection whose target has no reference, and no result is
\* about it.
LEMMA NobodyLeft ==
  ASSUME SInv, NEW c \in Conns, eref[c] = 0, tref[c] = 0
  PROVE  /\ \A t \in Handlers : conn[t] # c
         /\ \A i \in 1..Len(queue) : queue[i].conn # c
<1>1. Known(c)
  BY KnownAll
<1>2. /\ At(c, Holding) = 0 /\ At(c, InSession) = 0 /\ At(c, Arriving) = 0
      /\ Waiting(c, PollResults) = 0 /\ Waiting(c, AtRequest) = 0 /\ Waiting(c, AtAccepted) = 0
  <2>1. Poll(c) = 0 /\ At(c, Holding) = 0
    BY <1>1 DEF Known, Sized, Conn, Counts
  <2>2. Arrived(c) = 0 /\ Begun(c) = 0 /\ At(c, InSession) = 0
    <3>1. Bit(Live(c)) \in Nat
      BY DEF Bit
    <3>2. tref[c] = Bit(Live(c)) + Arrived(c) + Begun(c) + At(c, InSession)
      BY <1>1 DEF Known, Conn, Counts
    <3>3. Arrived(c) \in Nat /\ Begun(c) \in Nat /\ At(c, InSession) \in Nat
      BY <1>1 DEF Known, Sized
    <3> QED
      BY <3>1, <3>2, <3>3
  <2>3. Waiting(c, PollResults) = 0
    BY <1>1, <2>1 DEF Known, Sized, Poll, Bit
  <2>4. Waiting(c, AtRequest) = 0
    BY <1>1, <2>2 DEF Known, Sized, Begun, Bit
  <2>5. Waiting(c, AtAccepted) = 0 /\ At(c, Arriving) = 0
    BY <1>1, <2>2 DEF Known, Sized, Arrived
  <2> QED
    BY <2>1, <2>2, <2>3, <2>4, <2>5
<1>3. c # NoConn /\ TypeOK
  BY CommAssumption DEF SInv
<1>4. ASSUME NEW t \in Handlers, conn[t] = c PROVE FALSE
  <2>1. pc[t] \in HandlerPCs /\ pc[t] \notin Ending \cup {"Ready", "ListenFailed"}
    BY <1>3, <1>4 DEF SInv, Placed
  <2>2. pc[t] \in Holding \/ pc[t] \in InSession \/ pc[t] \in Arriving
    BY <2>1 DEF HandlerPCs, Results, Ending, Holding, Twice, PollHands, PollResults, InSession, Keeping, WriteResults, Arriving, Counted
  <2>3. \A K : pc[t] \in K => At(c, K) > 0
    BY <1>3, <1>4, Numbers
  <2> QED
    BY <1>2, <2>2, <2>3
<1>5. ASSUME NEW i \in 1..Len(queue), queue[i].conn = c PROVE FALSE
  <2>1. queue \in Seq(Entry)
    BY <1>3 DEF TypeOK, Entry
  <2>2. queue[i] \in Entry
    BY <2>1
  <2>3. queue[i].kind \in Results /\ queue[i].kind \notin {"Unlisten", "ListenFailed"}
    BY <1>3, <1>5, <2>2 DEF SInv, Placed, Entry
  <2>4. queue[i].kind \in PollResults \/ queue[i].kind \in AtRequest \/ queue[i].kind \in AtAccepted
    BY <2>3 DEF Results, PollResults, AtRequest, AtAccepted
  <2>5. \A K : queue[i].kind \in K => Waiting(c, K) > 0
    BY <1>5, <2>1, KeptFacts DEF Waiting
  <2> QED
    BY <1>2, <2>4, <2>5
<1> QED
  BY <1>4, <1>5

\* A connection that is gone is used by nobody.
LEMMA SInvNoUse == SInv => NoUseAfterFree
<1> SUFFICES ASSUME SInv, NEW c \in Conns, state[c] = "Freed"
             PROVE  /\ c \notin idle /\ ~Contains(keep_alive_list, c) /\ victim # c
                    /\ node[c] = "none" /\ ~pipe[c] /\ reading[c] = "no" /\ tmutex[c] = NoThread
                    /\ \A i \in 1..Len(queue) : queue[i].conn # c
                    /\ \A t \in Handlers : Busy(t) => conn[t] # c
                    /\ eref[c] = 0 /\ tref[c] = 0
  BY DEF NoUseAfterFree
<1>1. Nothing(c) /\ eref[c] = 0 /\ tref[c] = 0
  BY FreedLeft
<1>2. (\A t \in Handlers : conn[t] # c) /\ \A i \in 1..Len(queue) : queue[i].conn # c
  BY <1>1, NobodyLeft
<1>3. tmutex[c] = NoThread
  <2>1. tmutex[c] \in Handlers \cup {NoThread} /\ Locked(c)
    BY DEF SInv, TypeOK, Conn
  <2> QED
    BY <1>2, <2>1 DEF Locked
<1> QED
  BY <1>1, <1>2, <1>3 DEF Nothing

\* When ref is 0, there is no target left, so no thread and no result but that of
\* a listening socket that failed.
LEMMA SInvUnbound == SInv => UnboundLast
<1> SUFFICES ASSUME SInv, unbind_finish \/ pc[Owner] \in {"Off", "Stopped", "Starting"}
             PROVE  /\ ref = 0 /\ conn_count = 0
                    /\ \A c \in Conns : state[c] \in {"None", "Freed"} /\ tref[c] = 0
                    /\ \A i \in 1..Len(queue) : queue[i].kind = "ListenFailed"
                    /\ \A t \in Handlers : Busy(t) => pc[t] = "ListenFailed"
  BY DEF UnboundLast
<1>1. TypeOK /\ Service /\ Placed
  BY DEF SInv
<1>2. ref = 0 /\ Bound = 0 /\ Pending = 0 /\ Cardinality(Targets) = 0
  <2>1. ref = 0 /\ ref = Bound + Cardinality(Targets)
    BY <1>1 DEF Service
  <2> QED
    BY <1>1, <2>1, ServiceNumbers
<1>3. Targets = {}
  <2>1. Targets \subseteq Conns
    BY DEF Targets
  <2>2. IsFiniteSet(Targets)
    BY <2>1, FS_Subset, CommAssumption
  <2> QED
    BY <1>2, <2>2, FS_EmptySet
<1>4. ASSUME NEW c \in Conns PROVE state[c] \in {"None", "Freed"} /\ tref[c] = 0 /\ eref[c] = 0
  <2>1. tref[c] = 0
    BY <1>1, <1>3 DEF Targets, TypeOK
  <2>2. Known(c)
    BY KnownAll
  <2>3. ~Live(c)
    BY <2>1, <2>2 DEF Known, Sized, Conn, Counts, Bit
  <2> QED
    BY <2>1, <2>2, <2>3 DEF Known, Conn, Counts, Live
<1>5. /\ \A t \in Handlers : conn[t] \notin Conns
      /\ \A i \in 1..Len(queue) : queue[i].conn \notin Conns
  BY <1>4, NobodyLeft
<1>6. Waiting(NoConn, {"Unlisten"}) = 0 /\ At(NoConn, Ending) = 0
  BY <1>1, <1>2, ServiceNumbers DEF Pending, Bit
<1>7. ASSUME NEW t \in Handlers PROVE pc[t] \in {"Ready", "ListenFailed"}
  <2>1. conn[t] = NoConn
    BY <1>1, <1>5 DEF TypeOK, Threads
  <2>2. pc[t] \in Ending => At(NoConn, Ending) > 0
    BY <1>1, <2>1, Numbers
  <2> QED
    BY <1>1, <1>6, <2>1, <2>2 DEF Placed
<1>8. ASSUME NEW i \in 1..Len(queue) PROVE queue[i].kind = "ListenFailed"
  <2>1. queue \in Seq(Entry)
    BY <1>1 DEF TypeOK, Entry
  <2>2. queue[i] \in Entry
    BY <2>1
  <2>3. queue[i].conn = NoConn /\ queue[i].kind \in {"Unlisten", "ListenFailed"}
    BY <1>1, <1>5, <2>2 DEF Entry, Placed
  <2>4. ASSUME queue[i].kind = "Unlisten" PROVE FALSE
    <3>1. Waiting(NoConn, {"Unlisten"}) > 0
      BY <2>1, <2>3, <2>4, KeptFacts DEF Waiting
    <3> QED
      BY <1>6, <3>1
  <2> QED
    BY <2>3, <2>4
<1>9. conn_count = 0
  <2>1. Opened = {}
    BY <1>4 DEF Opened, Live
  <2>2. {t \in Handlers : pc[t] \in Counted} = {}
    BY <1>7 DEF Counted
  <2>3. Cardinality({}) = 0
    BY FS_EmptySet
  <2>4. Hands(Counted) = 0
    BY <2>2, <2>3 DEF Hands
  <2>5. Cardinality(Opened) = 0
    BY <2>1, <2>3, ZenonT(40)
  <2> QED
    BY <2>4, <2>5 DEF SInv, Limits
<1> QED
  BY <1>2, <1>4, <1>7, <1>8, <1>9 DEF Busy

\* The limit, counted with the threads that may enter a connection.
LEMMA SInvLimit == SInv => ConnLimit
<1> SUFFICES ASSUME SInv PROVE Cardinality(Active) <= MaxConnections
  BY DEF ConnLimit, Active
<1>1. MaxConnections \in Nat
  BY CommAssumption
<1> QED
  BY <1>1, LimitNumbers DEF SInv, Limits

\* Only create_request turns a request away, and when it does so to a client that
\* waited for its response, the server has marked the connection.
LEMMA RefusedLate ==
  ASSUME SInv, [Next]_allVars, NEW c \in Conns, reading[c] = "asked", reading'[c] = "no", c \notin premature
  PROVE  state[c] = "Closing"
<1>1. Known(c) /\ reading' # reading
  BY KnownAll
<1>2. PICK d \in Conns : reading' # reading /\ ConnStep(d)
  <2>1. ASSUME NEW t, HandlerStep(t) PROVE reading' = reading
    <3>1. CASE Get(t) \/ HandleStop(t) \/ NewConnection(t) \/ NoRoom(t) \/ Enter(t) \/ ShutdownStep(t)
      BY <3>1 DEF Get, HandleStop, NewConnection, NoRoom, Enter, ShutdownStep, CloseListen, DrainTake, DrainMark, EndShutdown, pollVars
    <3>2. CASE ToReply(t) \/ NothingToReply(t) \/ ReplyAll(t) \/ ReplyPart(t) \/ ReplyFails(t) \/ Keep(t)
      BY <3>2 DEF ToReply, NothingToReply, ReplyAll, ReplyPart, ReplyFails, Keep, pollVars
    <3>3. CASE Written(t) \/ Closed(t) \/ Unkeep(t) \/ EndSession(t) \/ Unref(t)
      BY <3>3 DEF Written, Closed, Unkeep, EndSession, Unref, pollVars
    <3> QED
      BY <2>1, <3>1, <3>2, <3>3 DEF HandlerStep
  <2>2. ASSUME BeginStart \/ RequestStop \/ OwnerStep \/ ListenFails \/ Unlistened \/ UNCHANGED allVars PROVE reading' = reading
    <3>1. CASE OwnerStep
      BY <3>1 DEF OwnerStep, EndStart, Start, StopServer, Shutdown, StopEnds, WaitFinish, ShutdownStep, CloseListen,
           DrainTake, DrainMark, EndShutdown, pollVars
    <3>2. CASE BeginStart \/ RequestStop \/ ListenFails \/ Unlistened \/ UNCHANGED allVars
      BY <3>2 DEF BeginStart, RequestStop, ListenFails, Unlistened, allVars, vars, pollVars
    <3> QED
      BY <2>2, <3>1, <3>2
  <2> QED
    BY <1>1, <2>1, <2>2 DEF Next
<1>3. Refuse(c)
  <2>1. ASSUME NEW v PROVE (d # c => Set(reading, d, v)[c] = reading[c]) /\ Set(reading, c, v)[c] = v
    BY DEF Set, SInv, TypeOK
  <2>2. CASE Send(d) \/ Accept(d) \/ Write(d)
    BY <1>2, <2>2 DEF Send, Accept, Write, pollVars
  <2>3. CASE Deleted(d) \/ ReadFails(d) \/ Receive(d)
    BY <2>1, <2>3 DEF Deleted, ReadFails, Receive
  <2>4. CASE Read(d) \/ CreateRequest(d)
    BY <2>1, <2>4 DEF Read, CreateRequest
  <2>5. CASE Refuse(d)
    BY <2>1, <2>5 DEF Refuse
  <2> QED
    BY <1>2, <2>2, <2>3, <2>4, <2>5 DEF ConnStep, PollerStep
<1>4. state[c] \notin {"KeepAlive", "Connected"}
  BY <1>3 DEF Refuse
<1>5. node[c] # "none" \/ pipe[c]
  BY <1>1 DEF Known, Conn, Watching
<1>6. Live(c)
  <2>1. Poll(c) > 0
    BY <1>1, <1>5 DEF Known, Sized, Poll, Bit
  <2> QED
    BY <1>1, <2>1 DEF Known, Sized, Conn, Counts
<1>7. state[c] # "Receiving" /\ unread[c] > 0
  BY <1>1, <1>5 DEF Known, Conn, Watching
<1>8. state[c] \notin {"Success", "Error", "Idle"}
  BY <1>1, <1>7 DEF Known, Conn, Heard, Unanswered, Bit
<1> QED
  BY <1>1, <1>4, <1>6, <1>7, <1>8 DEF Known, Live, States

\* The types hold and the lists agree with the states of the connections: an entry
\* is in one list at most, and in the one its state says.
THEOREM EntriesSoundTheorem == FairSpec => []EntriesSound
  BY StructureInvariant, SInvSound, PTL

\* __release_conn frees an entry only when nothing refers to it any more.
THEOREM NoUseAfterFreeTheorem == FairSpec => []NoUseAfterFree
  BY StructureInvariant, SInvNoUse, PTL

\* handle_unbound comes last: when wait_finish may return, nothing of the service
\* is left but, perhaps, the report that its listening socket failed.
THEOREM UnboundLastTheorem == FairSpec => []UnboundLast
  BY StructureInvariant, SInvUnbound, PTL

\* new_connection keeps the connections that are not being closed within the limit.
THEOREM ConnLimitTheorem == FairSpec => []ConnLimit
  BY StructureInvariant, SInvLimit, PTL

\* create_request refuses no request of a client that waited for the previous
\* response, unless the server is closing the connection.
THEOREM WaitedNotRefusedTheorem == FairSpec => WaitedNotRefused
<1>1. SInv /\ [Next]_allVars =>
        [\A c \in Conns : reading[c] = "asked" /\ reading'[c] = "no" /\ c \notin premature => state[c] = "Closing"]_allVars
  BY RefusedLate
<1> QED
  BY <1>1, StructureInvariant, PTL DEF FairSpec, WaitedNotRefused
=============================================================================
