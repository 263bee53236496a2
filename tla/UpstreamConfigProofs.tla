------------------------ MODULE UpstreamConfigProofs ------------------------
(***************************************************************************)
(* Proofs about UpstreamConfig, in three parts: the operators of the model *)
(* (sums of weights, lists without some members, virtual nodes); the names *)
(* of upstreams, which StartRpcServer and the application share; and the   *)
(* servers of the policies, with the breakers and the tasks that use them. *)
(***************************************************************************)
EXTENDS UpstreamConfig, SequenceTheorems, FiniteSetTheorems, WellFoundedInduction, TLAPS

-----------------------------------------------------------------------------
\* Min and Max of FiniteSetsExt, where they exist.
LEMMA MinIn ==
  ASSUME NEW S \in SUBSET Nat, S # {}
  PROVE  Min(S) \in S /\ \A y \in S : Min(S) <= y
<1>1. PICK x \in S : \A y \in S : ~(<<y, x>> \in OpToRel(<, Nat))
  BY NatLessThanWellFounded, WFMin
<1>2. ASSUME NEW y \in S PROVE x <= y
  <2>1. x \in Nat /\ y \in Nat
    OBVIOUS
  <2>2. ASSUME y < x PROVE FALSE
    BY <1>1, <2>1, <2>2 DEF OpToRel
  <2> QED
    BY <2>1, <2>2
<1> QED
  BY <1>2 DEF Min

\* The least member of a set of numbers, which is what every minimal
\* counterexample below is.
LEMMA Least ==
  ASSUME NEW S \in SUBSET Nat, S # {}
  PROVE  \E m \in S : \A y \in Nat : y < m => y \notin S
<1>1. PICK m \in S : \A y \in S : m <= y
  BY MinIn
<1>2. m \in Nat /\ \A y \in Nat : y < m => y \notin S
  BY <1>1
<1> QED
  BY <1>1, <1>2

\* Max of a set that is bounded.
LEMMA MaxIn ==
  ASSUME NEW n \in Nat, NEW S \in SUBSET (0..n), S # {}
  PROVE  Max(S) \in S /\ \A y \in S : y <= Max(S)
<1> DEFINE T == {n - y : y \in S}
<1>1. T \in SUBSET Nat /\ T # {}
  <2>1. ASSUME NEW y \in S PROVE n - y \in Nat
    <3>1. y \in 0..n
      OBVIOUS
    <3> QED
      BY <3>1
  <2> QED
    BY <2>1
<1>2. Min(T) \in T /\ \A z \in T : Min(T) <= z
  <2> HIDE DEF T
  <2> QED
    BY <1>1, MinIn
<1>3. PICK x \in S : n - x = Min(T)
  BY <1>2
<1>4. ASSUME NEW y \in S PROVE y <= x
  <2>1. n - x <= n - y
    BY <1>2, <1>3
  <2>2. x \in Int /\ y \in Int
    OBVIOUS
  <2> QED
    BY <2>1, <2>2
<1> QED
  BY <1>4 DEF Max

-----------------------------------------------------------------------------
(***************************************************************************)
(* What Without returns: the members it keeps, in their order.             *)
(***************************************************************************)
Keeps(f, list, S, k) ==
  /\ f = [i \in 0..k |-> f[i]]
  /\ f[0] = <<>>
  /\ \A i \in 1..k : f[i] = IF list[i] \in S THEN f[i - 1] ELSE Append(f[i - 1], list[i])

\* kept is what is left of the first k members; at is where they were.
Subsequence(kept, list, S, k, at) ==
  /\ at \in [1..Len(kept) -> 1..k]
  /\ \A i \in 1..Len(kept) : kept[i] = list[at[i]] /\ kept[i] \notin S
  /\ \A i, j \in 1..Len(kept) : i < j => at[i] < at[j]
  /\ \A i \in 1..k : list[i] \notin S => \E j \in 1..Len(kept) : at[j] = i

(***************************************************************************)
(* The recursion of Without is defined up to every k, and what it builds   *)
(* is a subsequence.                                                       *)
(***************************************************************************)
LEMMA KeepsExist ==
  ASSUME NEW X, NEW list \in Seq(X), NEW S, NEW k \in 0..Len(list)
  PROVE  \E f, at : Keeps(f, list, S, k) /\ f[k] \in Seq(X) /\ Subsequence(f[k], list, S, k, at)
<1> DEFINE Good(n) == \E f, at : Keeps(f, list, S, n) /\ f[n] \in Seq(X) /\ Subsequence(f[n], list, S, n, at)
           Bad == {n \in 0..Len(list) : ~Good(n)}
<1>0. Len(list) \in Nat
  BY LenProperties
<1> SUFFICES ASSUME Bad # {} PROVE FALSE
  OBVIOUS
<1>1. PICK n \in Bad : \A y \in Nat : y < n => y \notin Bad
  <2>1. Bad \in SUBSET Nat
    BY <1>0
  <2> HIDE DEF Bad
  <2> QED
    BY <2>1, Least
<1>2. n \in 0..Len(list) /\ ~Good(n) /\ n \in Nat
  BY <1>0
<1>3. n # 0
  <2> DEFINE f == [y \in 0..0 |-> <<>>]
             at == [y \in 1..0 |-> 1]
  <2>1. Keeps(f, list, S, 0)
    BY DEF Keeps
  <2>2. f[0] = <<>> /\ f[0] \in Seq(X) /\ Len(f[0]) = 0
    BY EmptySeq
  <2>3. Subsequence(f[0], list, S, 0, at)
    <3> HIDE DEF f
    <3> QED
      BY <2>2 DEF Subsequence
  <2> QED
    BY <1>2, <2>1, <2>2, <2>3
<1>4. n - 1 \in 0..Len(list) /\ n - 1 < n /\ n - 1 \in Nat
  BY <1>0, <1>2, <1>3
<1>5. n - 1 \notin Bad
  <2> HIDE DEF Bad
  <2> QED
    BY <1>1, <1>2, <1>4
<1>6. PICK f, at : Keeps(f, list, S, n - 1) /\ f[n - 1] \in Seq(X) /\ Subsequence(f[n - 1], list, S, n - 1, at)
  BY <1>4, <1>5
<1> DEFINE old == f[n - 1]
           new == IF list[n] \in S THEN old ELSE Append(old, list[n])
           g == [y \in 0..n |-> IF y = n THEN new ELSE f[y]]
<1>7. Keeps(g, list, S, n)
  <2>1. g[0] = <<>> /\ g = [i \in 0..n |-> g[i]]
    BY <1>2, <1>3, <1>4, <1>6 DEF Keeps
  <2>2. ASSUME NEW y \in 1..n PROVE g[y] = IF list[y] \in S THEN g[y - 1] ELSE Append(g[y - 1], list[y])
    <3>1. y \in 0..n /\ y - 1 \in 0..n /\ y - 1 # n
      BY <1>2
    <3>2. g[y - 1] = f[y - 1]
      BY <3>1
    <3>3. CASE y = n
      BY <3>1, <3>2, <3>3
    <3>4. CASE y # n
      <4>1. y \in 1..(n - 1) /\ g[y] = f[y]
        BY <1>2, <3>1, <3>4
      <4> QED
        BY <1>6, <3>2, <4>1 DEF Keeps
    <3> QED
      BY <3>3, <3>4
  <2> HIDE DEF g
  <2> QED
    BY <2>1, <2>2 DEF Keeps
<1>8. g[n] = new /\ n \in 1..Len(list) /\ list[n] \in X
  BY <1>0, <1>2, <1>3, ElementOfSeq
<1>9. old \in Seq(X) /\ Len(old) \in Nat /\ Subsequence(old, list, S, n - 1, at)
  BY <1>6, LenProperties
<1> HIDE DEF g, old
<1>10. CASE list[n] \in S
  <2>1. new = old
    BY <1>10
  <2>2. Subsequence(old, list, S, n, at)
    <3>1. \A i \in 1..n : i = n \/ i \in 1..(n - 1)
      BY <1>2
    <3>2. \A i \in 1..(n - 1) : i \in 1..n
      BY <1>2
    <3> QED
      BY <1>9, <1>10, <3>1, <3>2 DEF Subsequence
  <2> QED
    BY <1>2, <1>7, <1>8, <1>9, <2>1, <2>2
<1>11. CASE list[n] \notin S
  <2> DEFINE l == Len(old)
             at2 == [i \in 1..(l + 1) |-> IF i = l + 1 THEN n ELSE at[i]]
  <2>1. new \in Seq(X) /\ Len(new) = l + 1 /\ new[l + 1] = list[n] /\ \A i \in 1..l : new[i] = old[i]
    BY <1>8, <1>9, <1>11, AppendProperties
  <2>2. l \in Nat
    BY <1>9
  <2>3. \A i \in 1..(l + 1) : i = l + 1 \/ i \in 1..l
    BY <2>2
  <2>4. /\ l + 1 \in 1..(l + 1) /\ at2[l + 1] = n
        /\ \A i \in 1..l : i \in 1..(l + 1) /\ i # l + 1 /\ at2[i] = at[i] /\ at[i] \in 1..(n - 1)
    BY <1>9, <2>2 DEF Subsequence
  <2> HIDE DEF l, new
  <2>5. at2 \in [1..(l + 1) -> 1..n]
    <3>1. \A i \in 1..(l + 1) : at2[i] \in 1..n
      <4> HIDE DEF at2
      <4>1. n \in 1..n /\ \A y \in 1..(n - 1) : y \in 1..n
        BY <1>2, <1>3
      <4> QED
        BY <2>3, <2>4, <4>1
    <3> QED
      BY <3>1
  <2> HIDE DEF at2
  <2>6. \A i \in 1..(l + 1) : new[i] = list[at2[i]] /\ new[i] \notin S
    BY <1>9, <1>11, <2>1, <2>3, <2>4 DEF Subsequence, l
  <2>7. ASSUME NEW i \in 1..(l + 1), NEW j \in 1..(l + 1), i < j PROVE at2[i] < at2[j]
    <3>1. i \in 1..l
      BY <2>2, <2>7
    <3>2. CASE j = l + 1
      BY <1>2, <2>4, <3>1, <3>2
    <3>3. CASE j \in 1..l
      BY <1>9, <2>4, <2>7, <3>1, <3>3 DEF Subsequence, l
    <3> QED
      BY <2>3, <3>2, <3>3
  <2>8. ASSUME NEW i \in 1..n, list[i] \notin S PROVE \E j \in 1..(l + 1) : at2[j] = i
    <3>1. CASE i = n
      BY <2>4, <3>1
    <3>2. CASE i \in 1..(n - 1)
      BY <1>9, <2>4, <2>8, <3>2 DEF Subsequence, l
    <3> QED
      BY <1>2, <3>1, <3>2
  <2>9. Subsequence(new, list, S, n, at2)
    BY <2>1, <2>5, <2>6, <2>7, <2>8 DEF Subsequence
  <2> QED
    BY <1>2, <1>7, <1>8, <2>1, <2>9
<1> QED
  BY <1>10, <1>11

\* Without returns the members it keeps, each once and in their order.
LEMMA WithoutIs ==
  ASSUME NEW X, NEW list \in Seq(X), NEW S
  PROVE  Without(list, S) \in Seq(X) /\ \E at : Subsequence(Without(list, S), list, S, Len(list), at)
<1>0. Len(list) \in Nat /\ Len(list) \in 0..Len(list)
  BY LenProperties
<1> DEFINE F(g) == [i \in 0..Len(list) |->
        IF i = 0 THEN <<>> ELSE IF list[i] \in S THEN g[i - 1] ELSE Append(g[i - 1], list[i])]
           G == CHOOSE g : g = F(g)
<1>1. PICK f, at : /\ Keeps(f, list, S, Len(list)) /\ f[Len(list)] \in Seq(X)
                   /\ Subsequence(f[Len(list)], list, S, Len(list), at)
  BY <1>0, KeepsExist
<1>2. f = F(f)
  <2>1. f = [i \in 0..Len(list) |-> f[i]]
    BY <1>1 DEF Keeps
  <2>2. ASSUME NEW i \in 0..Len(list) PROVE f[i] = F(f)[i]
    <3>1. CASE i = 0
      BY <1>1, <3>1 DEF Keeps
    <3>2. CASE i \in 1..Len(list)
      <4>1. f[i] = IF list[i] \in S THEN f[i - 1] ELSE Append(f[i - 1], list[i])
        BY <1>1, <3>2 DEF Keeps
      <4> QED
        BY <3>2, <4>1
    <3> QED
      BY <1>0, <3>1, <3>2
  <2> QED
    BY <2>1, <2>2
<1>3. G = F(G)
  BY <1>2
<1>4. Without(list, S) = G[Len(list)]
  BY DEF Without
<1> HIDE DEF G
<1>5. \A i \in 0..Len(list) : G[i] = f[i]
  <2> DEFINE Bad == {n \in 0..Len(list) : G[n] # f[n]}
  <2> SUFFICES ASSUME Bad # {} PROVE FALSE
    OBVIOUS
  <2>1. PICK n \in Bad : \A y \in Nat : y < n => y \notin Bad
    <3>1. Bad \in SUBSET Nat
      BY <1>0
    <3> HIDE DEF Bad
    <3> QED
      BY <3>1, Least
  <2>2. n \in 1..Len(list) /\ n - 1 \in 0..Len(list) /\ n - 1 \in Nat /\ n \in Nat /\ n - 1 < n
    BY <1>0, <1>1, <1>3 DEF Keeps
  <2>3. n - 1 \notin Bad
    <3> HIDE DEF Bad
    <3> QED
      BY <2>1, <2>2
  <2>4. G[n] = f[n]
    BY <1>1, <1>3, <2>2, <2>3 DEF Keeps
  <2> QED
    BY <2>4
<1> QED
  BY <1>0, <1>1, <1>4, <1>5

-----------------------------------------------------------------------------
\* There is a heaviest server (the inner loop of init_virtual_nodes).
LEMMA HeaviestIn ==
  ASSUME NEW n \in Nat \ {0}, NEW cur \in [1..n -> Int]
  PROVE  Heaviest(cur) \in 1..n /\ \A k \in 1..n : cur[Heaviest(cur)] >= cur[k]
<1> DEFINE Good(m) == \E j \in 1..m : \A k \in 1..m : cur[j] >= cur[k]
           Bad == {m \in 1..n : ~Good(m)}
<1>1. Bad = {}
  <2> SUFFICES ASSUME Bad # {} PROVE FALSE
    OBVIOUS
  <2>1. PICK m \in Bad : \A y \in Nat : y < m => y \notin Bad
    <3>1. Bad \in SUBSET Nat
      OBVIOUS
    <3> HIDE DEF Bad
    <3> QED
      BY <3>1, Least
  <2>2. m \in 1..n /\ ~Good(m)
    OBVIOUS
  <2>3. m # 1
    <3>1. ASSUME m = 1 PROVE FALSE
      <4>1. 1 \in 1..1 /\ \A k \in 1..1 : cur[1] >= cur[k]
        BY <2>2, <3>1
      <4> QED
        BY <2>2, <3>1, <4>1
    <3> QED
      BY <3>1
  <2>4. m - 1 \in 1..n /\ m - 1 < m /\ m - 1 \in Nat /\ m \in Nat
    BY <2>2, <2>3
  <2>5. m - 1 \notin Bad
    <3> HIDE DEF Bad
    <3> QED
      BY <2>1, <2>4
  <2>6. PICK j \in 1..(m - 1) : \A k \in 1..(m - 1) : cur[j] >= cur[k]
    BY <2>4, <2>5
  <2>7. cur[j] \in Int /\ cur[m] \in Int /\ \A k \in 1..m : cur[k] \in Int /\ (k = m \/ k \in 1..(m - 1))
    BY <2>2, <2>4, <2>6
  <2>8. CASE cur[j] >= cur[m]
    <3>1. j \in 1..m /\ \A k \in 1..m : cur[j] >= cur[k]
      BY <2>4, <2>6, <2>7, <2>8
    <3> QED
      BY <2>2, <3>1
  <2>9. CASE cur[m] >= cur[j]
    <3>1. ASSUME NEW k \in 1..m PROVE cur[m] >= cur[k]
      <4>1. cur[k] \in Int /\ cur[j] \in Int /\ cur[m] \in Int
        BY <2>7
      <4>2. k # m => cur[j] >= cur[k]
        BY <2>6, <2>7
      <4> QED
        BY ONLY <2>9, <4>1, <4>2
    <3>2. m \in 1..m
      BY <2>2
    <3> QED
      BY <2>2, <3>1, <3>2
  <2> QED
    BY <2>7, <2>8, <2>9
<1>2. PICK j \in 1..n : \A k \in 1..n : cur[j] >= cur[k]
  <2>1. n \in 1..n
    OBVIOUS
  <2>2. n \notin Bad
    BY <1>1, Zenon
  <2> QED
    BY <2>1, <2>2
<1> DEFINE H == {i \in DOMAIN cur : \A k \in DOMAIN cur : cur[i] >= cur[k]}
<1>3. H \in SUBSET Nat /\ H # {} /\ H \subseteq 1..n
  BY <1>2
<1>4. Min(H) \in H
  <2> HIDE DEF H
  <2> QED
    BY <1>3, MinIn
<1> QED
  BY <1>3, <1>4 DEF Heaviest

\* The rounds of init_virtual_nodes, up to the k-th.
Rounds(f, w, total, k) ==
  /\ f = [i \in 1..k |-> f[i]]
  /\ \A i \in 1..k : f[i] = IF i = 1 THEN w ELSE NextRound(f[i - 1], w, total)

\* A round gives integers again.
LEMMA RoundType ==
  ASSUME NEW n \in Nat \ {0}, NEW w \in [1..n -> Int], NEW total \in Int, NEW cur \in [1..n -> Int]
  PROVE  NextRound(cur, w, total) \in [1..n -> Int]
<1>1. \A j \in 1..n : cur[j] + w[j] - (IF j = Heaviest(cur) THEN total ELSE 0) \in Int
  OBVIOUS
<1> QED
  BY <1>1 DEF NextRound

\* The rounds of a cycle, one after the other.
LEMMA RoundsExist ==
  ASSUME NEW n \in Nat \ {0}, NEW w \in [1..n -> Int], NEW total \in Nat, NEW k \in 0..total
  PROVE  \E f : Rounds(f, w, total, k) /\ \A i \in 1..k : f[i] \in [1..n -> Int]
<1> DEFINE Good(m) == \E f : Rounds(f, w, total, m) /\ \A i \in 1..m : f[i] \in [1..n -> Int]
           Bad == {m \in 0..total : ~Good(m)}
<1> SUFFICES ASSUME Bad # {} PROVE FALSE
  OBVIOUS
<1>1. PICK m \in Bad : \A y \in Nat : y < m => y \notin Bad
  <2>1. Bad \in SUBSET Nat
    OBVIOUS
  <2> HIDE DEF Bad
  <2> QED
    BY <2>1, Least
<1>2. m \in 0..total /\ ~Good(m) /\ m \in Nat
  OBVIOUS
<1>3. m # 0
  <2>1. Rounds([i \in 1..0 |-> w], w, total, 0)
    BY DEF Rounds
  <2> QED
    BY <1>2, <2>1
<1>4. m - 1 \in 0..total /\ m - 1 < m /\ m - 1 \in Nat
  BY <1>2, <1>3
<1>5. m - 1 \notin Bad
  <2> HIDE DEF Bad
  <2> QED
    BY <1>1, <1>2, <1>4
<1>6. PICK f : Rounds(f, w, total, m - 1) /\ \A i \in 1..(m - 1) : f[i] \in [1..n -> Int]
  BY <1>4, <1>5
<1> DEFINE new == IF m = 1 THEN w ELSE NextRound(f[m - 1], w, total)
           g == [i \in 1..m |-> IF i = m THEN new ELSE f[i]]
<1>7. new \in [1..n -> Int]
  <2>1. CASE m = 1
    BY <2>1
  <2>2. CASE m # 1
    <3>1. m - 1 \in 1..(m - 1)
      BY <1>2, <1>3, <2>2
    <3>2. PICK c \in [1..n -> Int] : c = f[m - 1]
      BY <1>6, <3>1
    <3>3. total \in Int
      OBVIOUS
    <3> QED
      BY <2>2, <3>2, <3>3, RoundType
  <2> QED
    BY <2>1, <2>2
<1> HIDE DEF new
<1>8. \A i \in 1..m : i = m \/ i \in 1..(m - 1)
  BY <1>2
<1>9. g = [i \in 1..m |-> g[i]] /\ (\A i \in 1..(m - 1) : g[i] = f[i]) /\ g[m] = new
  BY <1>2, <1>3
<1> HIDE DEF g
<1>10. \A i \in 1..m : g[i] \in [1..n -> Int]
  BY <1>6, <1>7, <1>8, <1>9
<1>11. ASSUME NEW i \in 1..m PROVE g[i] = IF i = 1 THEN w ELSE NextRound(g[i - 1], w, total)
  <2>0. i # 1 => i - 1 \in 1..(m - 1)
    BY <1>2
  <2>1. i # 1 => i - 1 \in 1..(m - 1) /\ g[i - 1] = f[i - 1]
    BY <1>9, <2>0
  <2>2. CASE i = m
    BY <1>9, <2>1, <2>2 DEF new
  <2>3. CASE i \in 1..(m - 1)
    BY <1>6, <1>9, <2>1, <2>3 DEF Rounds
  <2> QED
    BY <1>8, <2>2, <2>3
<1> QED
  BY <1>2, <1>9, <1>10, <1>11 DEF Rounds

\* The values of the servers in every round.
RoundsOf(f, n, w, total) ==
  \A i \in 1..total : f[i] \in [1..n -> Int] /\ f[i] = IF i = 1 THEN w ELSE NextRound(f[i - 1], w, total)

\* init_virtual_nodes takes the heaviest server of every round of the cycle.
LEMMA VirtualNodesAre ==
  ASSUME NEW n \in Nat \ {0}, NEW w \in [1..n -> Int], NEW total \in Nat
  PROVE  \E f : RoundsOf(f, n, w, total) /\ VirtualNodes(w, total) = [i \in 1..total |-> Heaviest(f[i])]
<1> DEFINE F(g) == [i \in 1..total |-> IF i = 1 THEN w ELSE NextRound(g[i - 1], w, total)]
           G == CHOOSE g : g = F(g)
<1>1. PICK f : Rounds(f, w, total, total)
  <2>1. total \in 0..total
    OBVIOUS
  <2> QED
    BY <2>1, RoundsExist
<1>2. f = F(f)
  BY <1>1 DEF Rounds
<1>3. G = F(G)
  BY <1>2
<1>4. VirtualNodes(w, total) = [i \in 1..total |-> Heaviest(G[i])]
  BY DEF VirtualNodes
<1> HIDE DEF G
<1>5. \A i \in 1..total : G[i] \in [1..n -> Int]
  <2> DEFINE Bad == {i \in 1..total : G[i] \notin [1..n -> Int]}
  <2> SUFFICES ASSUME Bad # {} PROVE FALSE
    OBVIOUS
  <2>1. PICK m \in Bad : \A y \in Nat : y < m => y \notin Bad
    <3>1. Bad \in SUBSET Nat
      OBVIOUS
    <3> HIDE DEF Bad
    <3> QED
      BY <3>1, Least
  <2>2. m \in 1..total /\ G[m] \notin [1..n -> Int]
    OBVIOUS
  <2>3. m # 1 /\ G[m] = NextRound(G[m - 1], w, total)
    BY <1>3, <2>2
  <2>4. m - 1 \in 1..total /\ m - 1 \in Nat /\ m \in Nat /\ m - 1 < m
    BY <2>2, <2>3
  <2>5. m - 1 \notin Bad
    <3> HIDE DEF Bad
    <3> QED
      BY <2>1, <2>4
  <2>6. PICK c \in [1..n -> Int] : c = G[m - 1]
    BY <2>4, <2>5
  <2>7. total \in Int
    OBVIOUS
  <2>8. NextRound(c, w, total) \in [1..n -> Int]
    BY <2>7, RoundType
  <2> QED
    BY <2>2, <2>3, <2>6, <2>8
<1>6. \A i \in 1..total : G[i] = IF i = 1 THEN w ELSE NextRound(G[i - 1], w, total)
  BY <1>3
<1>7. RoundsOf(G, n, w, total)
  BY <1>5, <1>6 DEF RoundsOf
<1> QED
  BY <1>4, <1>7

\* init_virtual_nodes makes indices of servers and nothing else.
LEMMA VirtualNodesIn ==
  ASSUME NEW n \in Nat \ {0}, NEW w \in [1..n -> Int], NEW total \in Nat
  PROVE  VirtualNodes(w, total) \in Seq(1..n)
<1>1. PICK f : RoundsOf(f, n, w, total) /\ VirtualNodes(w, total) = [i \in 1..total |-> Heaviest(f[i])]
  BY VirtualNodesAre
<1>2. ASSUME NEW i \in 1..total PROVE Heaviest(f[i]) \in 1..n
  <2>1. PICK cur \in [1..n -> Int] : cur = f[i]
    BY <1>1 DEF RoundsOf
  <2> QED
    BY <2>1, HeaviestIn
<1> DEFINE v == [i \in 1..total |-> Heaviest(f[i])]
<1>3. v \in [1..total -> 1..n]
  BY <1>2
<1>4. v \in Seq(1..n)
  <2> HIDE DEF v
  <2> QED
    BY <1>3, SeqDef
<1> QED
  BY <1>1, <1>4

-----------------------------------------------------------------------------
(***************************************************************************)
(* Sums of weights.  MapThenSumSet adds in an order that CHOOSE fixes; the *)
(* sum does not depend on it.                                              *)
(***************************************************************************)
Sum(eps, S) == MapThenSumSet(LAMBDA o : eps[o].weight, S)

Weighed(eps, S) == IsFiniteSet(S) /\ \A o \in S : eps[o].weight \in Int

Some(s) == CHOOSE x \in s : TRUE

\* f is the sum of every subset of S with at most k members.
Upto(S, k) == {s \in SUBSET S : Cardinality(s) <= k}

Summing(f, eps, S, D) ==
  /\ f = [s \in D |-> f[s]]
  /\ \A s \in D : f[s] = IF s = {} THEN 0 ELSE eps[Some(s)].weight + f[s \ {Some(s)}]

\* What MapThenSumSet takes next, and what is left.
LEMMA Smaller ==
  ASSUME NEW S, IsFiniteSet(S), NEW s \in SUBSET S, s # {}
  PROVE  /\ Some(s) \in s /\ s \ {Some(s)} \in SUBSET S
         /\ Cardinality(s) \in Nat /\ Cardinality(s) > 0 /\ Cardinality(s \ {Some(s)}) = Cardinality(s) - 1
<1>1. Some(s) \in s
  BY DEF Some
<1>2. IsFiniteSet(s)
  BY FS_Subset
<1>3. Cardinality(s) \in Nat /\ Cardinality(s) # 0
  BY <1>2, FS_CardinalityType, FS_EmptySet
<1>4. Cardinality(s \ {Some(s)}) = Cardinality(s) - 1
  BY <1>1, <1>2, FS_RemoveElement
<1> QED
  BY <1>1, <1>3, <1>4

\* The sums of all subsets with at most k members exist.
LEMMA SumsAre ==
  ASSUME NEW eps, NEW S, Weighed(eps, S), NEW k \in Nat
  PROVE  \E f : Summing(f, eps, S, Upto(S, k)) /\ \A s \in Upto(S, k) : f[s] \in Int
<1> DEFINE Good(m) == \E f : Summing(f, eps, S, Upto(S, m)) /\ \A s \in Upto(S, m) : f[s] \in Int
           Bad == {m \in Nat : ~Good(m)}
<1> SUFFICES ASSUME Bad # {} PROVE FALSE
  OBVIOUS
<1>1. PICK m \in Bad : \A y \in Nat : y < m => y \notin Bad
  <2>1. Bad \in SUBSET Nat
    OBVIOUS
  <2> HIDE DEF Bad
  <2> QED
    BY <2>1, Least
<1>2. m \in Nat /\ ~Good(m)
  OBVIOUS
<1>0. IsFiniteSet(S) /\ \A o \in S : eps[o].weight \in Int
  BY DEF Weighed
<1>3. m # 0
  <2>1. ASSUME NEW s \in Upto(S, 0) PROVE s = {}
    <3>1. s \in SUBSET S /\ Cardinality(s) <= 0
      BY <2>1 DEF Upto
    <3>2. ASSUME s # {} PROVE FALSE
      <4>1. Cardinality(s) \in Nat /\ Cardinality(s) > 0
        BY <1>0, <3>1, <3>2, Smaller
      <4> QED
        BY <3>1, <4>1
    <3> QED
      BY <3>2
  <2> DEFINE f == [s \in Upto(S, 0) |-> 0]
  <2>2. Summing(f, eps, S, Upto(S, 0)) /\ \A s \in Upto(S, 0) : f[s] \in Int
    BY <2>1 DEF Summing
  <2> QED
    BY <1>2, <2>2
<1>4. m - 1 \in Nat /\ m - 1 < m
  BY <1>2, <1>3
<1>5. m - 1 \notin Bad
  <2> HIDE DEF Bad
  <2> QED
    BY <1>1, <1>2, <1>4
<1>6. PICK f : Summing(f, eps, S, Upto(S, m - 1)) /\ \A s \in Upto(S, m - 1) : f[s] \in Int
  BY <1>4, <1>5
<1> DEFINE new(s) == IF s = {} THEN 0 ELSE eps[Some(s)].weight + f[s \ {Some(s)}]
           g == [s \in Upto(S, m) |-> new(s)]
<1>7. ASSUME NEW s \in Upto(S, m - 1) PROVE s \in Upto(S, m) /\ g[s] = f[s]
  <2>1. s \in SUBSET S /\ Cardinality(s) <= m - 1 /\ IsFiniteSet(s)
    BY <1>0, <1>7, FS_Subset DEF Upto
  <2>2. Cardinality(s) \in Nat
    BY <2>1, FS_CardinalityType
  <2>3. s \in Upto(S, m)
    BY <1>2, <2>1, <2>2 DEF Upto
  <2>4. f[s] = new(s)
    BY <1>6, <1>7 DEF Summing
  <2> QED
    BY <2>3, <2>4
<1>8. ASSUME NEW s \in Upto(S, m), s # {} PROVE s \ {Some(s)} \in Upto(S, m - 1) /\ Some(s) \in S
  <2>1. s \in SUBSET S /\ Cardinality(s) <= m
    BY <1>8 DEF Upto
  <2>2. /\ Some(s) \in s /\ s \ {Some(s)} \in SUBSET S
        /\ Cardinality(s) \in Nat /\ Cardinality(s \ {Some(s)}) = Cardinality(s) - 1
    BY <1>0, <1>8, <2>1, Smaller
  <2> QED
    BY <1>2, <2>1, <2>2 DEF Upto
<1>9. ASSUME NEW s \in Upto(S, m)
      PROVE  g[s] \in Int /\ g[s] = IF s = {} THEN 0 ELSE eps[Some(s)].weight + g[s \ {Some(s)}]
  <2>1. CASE s = {}
    BY <2>1
  <2>2. CASE s # {}
    <3>1. s \ {Some(s)} \in Upto(S, m - 1) /\ eps[Some(s)].weight \in Int
      BY <1>0, <1>8, <2>2
    <3>2. g[s] = eps[Some(s)].weight + f[s \ {Some(s)}]
      BY <2>2
    <3>3. f[s \ {Some(s)}] \in Int /\ g[s \ {Some(s)}] = f[s \ {Some(s)}]
      BY <1>6, <1>7, <3>1
    <3> HIDE DEF g
    <3> QED
      BY <2>2, <3>1, <3>2, <3>3
  <2> QED
    BY <2>1, <2>2
<1>10. g = [s \in Upto(S, m) |-> g[s]]
  OBVIOUS
<1> HIDE DEF g
<1> QED
  BY <1>2, <1>9, <1>10 DEF Summing

\* Two functions that sum the subsets of S and of a part of it agree.
LEMMA SumsSame ==
  ASSUME NEW eps, NEW S, IsFiniteSet(S), NEW T \in SUBSET S, NEW f, NEW g,
         Summing(f, eps, S, SUBSET S), Summing(g, eps, T, SUBSET T)
  PROVE  \A s \in SUBSET T : f[s] = g[s]
<1> DEFINE Bad == {Cardinality(s) : s \in {s \in SUBSET T : f[s] # g[s]}}
<1> SUFFICES ASSUME Bad # {} PROVE FALSE
  OBVIOUS
<1>1. PICK m \in Bad : \A y \in Nat : y < m => y \notin Bad
  <2>1. Bad \in SUBSET Nat
    <3>1. ASSUME NEW s \in SUBSET T PROVE Cardinality(s) \in Nat
      BY FS_Subset, FS_CardinalityType
    <3> QED
      BY <3>1
  <2> HIDE DEF Bad
  <2> QED
    BY <2>1, Least
<1>2. PICK s \in SUBSET T : f[s] # g[s] /\ m = Cardinality(s)
  OBVIOUS
<1>3. /\ f[s] = IF s = {} THEN 0 ELSE eps[Some(s)].weight + f[s \ {Some(s)}]
      /\ g[s] = IF s = {} THEN 0 ELSE eps[Some(s)].weight + g[s \ {Some(s)}]
  BY <1>2 DEF Summing
<1>4. s # {}
  BY <1>2, <1>3
<1> DEFINE r == s \ {Some(s)}
<1>5. r \in SUBSET T /\ Cardinality(s) \in Nat /\ Cardinality(s) > 0 /\ Cardinality(r) = Cardinality(s) - 1
  BY <1>4, FS_Subset, Smaller
<1>6. f[r] # g[r]
  BY <1>2, <1>3, <1>4
<1>7. Cardinality(r) \in Bad
  BY <1>5, <1>6
<1>8. Cardinality(r) < m /\ Cardinality(r) \in Nat /\ m \in Nat
  BY <1>2, <1>5
<1> HIDE DEF Bad, r
<1> QED
  BY <1>1, <1>7, <1>8

\* A sum is the function that its recursion defines.
LEMMA SumIs ==
  ASSUME NEW eps, NEW S, Weighed(eps, S)
  PROVE  \E f : Summing(f, eps, S, SUBSET S) /\ Sum(eps, S) = f[S] /\ f[S] \in Int
<1> DEFINE F(g) == [s \in SUBSET S |-> IF s = {} THEN 0 ELSE eps[Some(s)].weight + g[s \ {Some(s)}]]
           G == CHOOSE g : g = F(g)
<1>0. IsFiniteSet(S)
  BY DEF Weighed
<1>1. Cardinality(S) \in Nat /\ Upto(S, Cardinality(S)) = SUBSET S
  <2>1. Cardinality(S) \in Nat
    BY <1>0, FS_CardinalityType
  <2>2. \A s \in SUBSET S : Cardinality(s) <= Cardinality(S)
    BY <1>0, FS_Subset
  <2> QED
    BY <2>1, <2>2 DEF Upto
<1>2. PICK f : Summing(f, eps, S, SUBSET S) /\ \A s \in SUBSET S : f[s] \in Int
  <2>1. PICK k \in Nat : k = Cardinality(S)
    BY <1>1
  <2>2. \E f : Summing(f, eps, S, Upto(S, k)) /\ \A s \in Upto(S, k) : f[s] \in Int
    BY SumsAre
  <2> QED
    BY <1>1, <2>1, <2>2
<1>3. f = F(f)
  BY <1>2 DEF Summing
<1>4. G = F(G)
  BY <1>3
<1>5. Sum(eps, S) = G[S]
  BY DEF Sum, MapThenSumSet, MapThenFoldSet, Some
<1> HIDE DEF G
<1>6. Summing(G, eps, S, SUBSET S)
  BY <1>4 DEF Summing
<1>7. G[S] = f[S]
  BY <1>0, <1>2, <1>6, SumsSame
<1> QED
  BY <1>2, <1>5, <1>6, <1>7

\* One step of the sum.
LEMMA SumStep ==
  ASSUME NEW eps, NEW S, Weighed(eps, S)
  PROVE  /\ Sum(eps, S) \in Int
         /\ Sum(eps, S) = IF S = {} THEN 0 ELSE eps[Some(S)].weight + Sum(eps, S \ {Some(S)})
<1>1. PICK f : Summing(f, eps, S, SUBSET S) /\ Sum(eps, S) = f[S] /\ f[S] \in Int
  BY SumIs
<1>2. S = {} => f[S] = 0
  BY <1>1 DEF Summing
<1>3. CASE S # {}
  <2> DEFINE T == S \ {Some(S)}
  <2>1. f[S] = eps[Some(S)].weight + f[T]
    BY <1>1, <1>3 DEF Summing
  <2>2. T \in SUBSET S /\ IsFiniteSet(S) /\ Weighed(eps, T)
    BY FS_Subset DEF Weighed
  <2>3. PICK g : Summing(g, eps, T, SUBSET T) /\ Sum(eps, T) = g[T]
    BY <2>2, SumIs
  <2>4. f[T] = g[T]
    BY <1>1, <2>2, <2>3, SumsSame
  <2> QED
    BY <1>1, <1>3, <2>1, <2>3, <2>4
<1> QED
  BY <1>1, <1>2, <1>3

\* Any member may come last.
LEMMA SumRemove ==
  ASSUME NEW eps, NEW S, Weighed(eps, S), NEW x \in S
  PROVE  Sum(eps, S) = eps[x].weight + Sum(eps, S \ {x})
<1> DEFINE Odd == {s \in SUBSET S : \E y \in s : Sum(eps, s) # eps[y].weight + Sum(eps, s \ {y})}
           Bad == {Cardinality(s) : s \in Odd}
<1>0. IsFiniteSet(S) /\ \A s \in SUBSET S : Weighed(eps, s) /\ Cardinality(s) \in Nat
  <2>1. IsFiniteSet(S) /\ \A s \in SUBSET S : IsFiniteSet(s)
    BY FS_Subset DEF Weighed
  <2>2. \A s \in SUBSET S : Cardinality(s) \in Nat
    BY <2>1, FS_CardinalityType
  <2> QED
    BY <2>1, <2>2 DEF Weighed
<1> SUFFICES ASSUME Bad # {} PROVE FALSE
  OBVIOUS
<1>1. PICK m \in Bad : \A y \in Nat : y < m => y \notin Bad
  <2>1. Bad \in SUBSET Nat
    BY <1>0
  <2> HIDE DEF Bad
  <2> QED
    BY <2>1, Least
<1>2. PICK s \in SUBSET S : s \in Odd /\ m = Cardinality(s)
  OBVIOUS
<1>3. PICK y \in s : Sum(eps, s) # eps[y].weight + Sum(eps, s \ {y})
  BY <1>2
<1> DEFINE c == Some(s)
<1>4. c \in s /\ Sum(eps, s) = eps[c].weight + Sum(eps, s \ {c})
  BY <1>0, <1>2, <1>3, SumStep, Smaller
<1> HIDE DEF c
<1>5. c # y
  BY <1>3, <1>4
<1>6. ASSUME NEW z \in s, NEW v \in s, z # v PROVE Sum(eps, s \ {z}) = eps[v].weight + Sum(eps, (s \ {z}) \ {v})
  <2>1. Cardinality(s \ {z}) = m - 1 /\ m \in Nat /\ Cardinality(s \ {z}) \in Nat
    BY <1>0, <1>2, <1>6, FS_RemoveElement DEF Weighed
  <2>2. m - 1 \notin Bad
    <3>1. m - 1 \in Nat /\ m - 1 < m /\ m \in Nat
      BY <2>1
    <3> HIDE DEF Bad
    <3> QED
      BY <1>1, <3>1
  <2>3. s \ {z} \notin Odd /\ s \ {z} \in SUBSET S
    BY <1>2, <2>1, <2>2
  <2> QED
    BY <1>6, <2>3
<1>7. Sum(eps, s \ {c}) = eps[y].weight + Sum(eps, (s \ {c}) \ {y})
  BY <1>4, <1>5, <1>6
<1>8. Sum(eps, s \ {y}) = eps[c].weight + Sum(eps, (s \ {y}) \ {c})
  BY <1>4, <1>5, <1>6
<1>9. (s \ {y}) \ {c} = (s \ {c}) \ {y}
  OBVIOUS
<1>10. eps[y].weight \in Int /\ eps[c].weight \in Int /\ Sum(eps, (s \ {c}) \ {y}) \in Int
  <2>1. (s \ {c}) \ {y} \in SUBSET S
    OBVIOUS
  <2> QED
    BY <1>0, <1>2, <1>4, <2>1, SumStep DEF Weighed
<1> QED
  BY ONLY <1>3, <1>4, <1>7, <1>8, <1>9, <1>10

\* A sum with one server more.
LEMMA SumAdd ==
  ASSUME NEW eps, NEW S, Weighed(eps, S), NEW x, x \notin S, eps[x].weight \in Int
  PROVE  Weighed(eps, S \cup {x}) /\ Sum(eps, S \cup {x}) = Sum(eps, S) + eps[x].weight
<1>1. Weighed(eps, S \cup {x})
  BY FS_AddElement DEF Weighed
<1>2. (S \cup {x}) \ {x} = S
  OBVIOUS
<1>3. Sum(eps, S) \in Int
  BY SumStep
<1>4. Sum(eps, S \cup {x}) = eps[x].weight + Sum(eps, (S \cup {x}) \ {x})
  BY <1>1, SumRemove
<1>5. Sum(eps, S \cup {x}) = eps[x].weight + Sum(eps, S)
  BY <1>2, <1>4, Zenon
<1>6. ASSUME NEW a \in Int, NEW b \in Int PROVE b + a = a + b
  OBVIOUS
<1> QED
  BY <1>1, <1>3, <1>5, <1>6, Zenon

\* The sum of two sets that share nothing.
LEMMA SumUnion ==
  ASSUME NEW eps, NEW S, Weighed(eps, S), NEW T, Weighed(eps, T), S \cap T = {}
  PROVE  Weighed(eps, S \cup T) /\ Sum(eps, S \cup T) = Sum(eps, S) + Sum(eps, T)
<1>0. IsFiniteSet(T) /\ Weighed(eps, S \cup T) /\ \A s \in SUBSET T : Cardinality(s) \in Nat /\ Weighed(eps, s)
  <2>1. \A s \in SUBSET T : IsFiniteSet(s)
    BY FS_Subset DEF Weighed
  <2>2. \A s \in SUBSET T : Cardinality(s) \in Nat
    BY <2>1, FS_CardinalityType
  <2>3. IsFiniteSet(S \cup T)
    BY FS_Union DEF Weighed
  <2> QED
    BY <2>1, <2>2, <2>3 DEF Weighed
<1> DEFINE Odd == {s \in SUBSET T : Sum(eps, S \cup s) # Sum(eps, S) + Sum(eps, s)}
           Bad == {Cardinality(s) : s \in Odd}
<1> SUFFICES ASSUME Bad # {} PROVE FALSE
  BY <1>0
<1>1. PICK m \in Bad : \A y \in Nat : y < m => y \notin Bad
  <2>1. Bad \in SUBSET Nat
    BY <1>0
  <2> HIDE DEF Bad
  <2> QED
    BY <2>1, Least
<1>2. PICK s \in SUBSET T : s \in Odd /\ m = Cardinality(s)
  OBVIOUS
<1>3. Sum(eps, S) \in Int /\ Sum(eps, s) \in Int
  BY <1>0, SumStep
<1>4. s # {}
  <2>1. ASSUME s = {} PROVE FALSE
    <3>1. Sum(eps, s) = 0 /\ S \cup s = S
      BY <1>0, <2>1, SumStep
    <3>2. Sum(eps, S \cup s) = Sum(eps, S)
      BY <3>1, Zenon
    <3> QED
      BY <1>2, <1>3, <3>1, <3>2
  <2> QED
    BY <2>1
<1>5. PICK x \in s : TRUE
  BY <1>4
<1> DEFINE r == s \ {x}
<1>6. r \in SUBSET T /\ Cardinality(r) = m - 1 /\ m \in Nat /\ Cardinality(r) \in Nat
  BY <1>0, <1>2, <1>5, FS_RemoveElement DEF Weighed
<1>7. r \notin Odd
  <2>1. m - 1 \in Nat /\ m - 1 < m /\ m \in Nat
    BY <1>6
  <2>2. m - 1 \notin Bad
    <3> HIDE DEF Bad
    <3> QED
      BY <1>1, <2>1
  <2> QED
    BY <1>6, <2>2
<1>8. Sum(eps, S \cup r) = Sum(eps, S) + Sum(eps, r)
  BY <1>6, <1>7
<1>9. Sum(eps, s) = eps[x].weight + Sum(eps, r) /\ Sum(eps, r) \in Int /\ eps[x].weight \in Int
  <2>1. Weighed(eps, s) /\ Weighed(eps, r)
    BY <1>0, <1>6
  <2>2. Sum(eps, s) = eps[x].weight + Sum(eps, r)
    BY <1>5, <2>1, SumRemove
  <2>4. Sum(eps, r) \in Int
    <3> HIDE DEF r
    <3> QED
      BY <2>1, SumStep
  <2>3. eps[x].weight \in Int
    BY <1>5, <2>1 DEF Weighed
  <2> QED
    BY <2>2, <2>3, <2>4
<1>10. x \notin S \cup r /\ (S \cup r) \cup {x} = S \cup s /\ Weighed(eps, S \cup r)
  <2>1. IsFiniteSet(S \cup r)
    BY <1>0, <1>6, FS_Union DEF Weighed
  <2> QED
    BY <1>0, <1>5, <1>6, <2>1 DEF Weighed
<1>11. Sum(eps, S \cup s) = Sum(eps, S \cup r) + eps[x].weight
  BY <1>9, <1>10, SumAdd
<1> HIDE DEF r
<1> QED
  BY <1>2, <1>3, <1>8, <1>9, <1>11

\* A sum depends on the weights of its servers only.
LEMMA SumEq ==
  ASSUME NEW eps, NEW eps2, NEW S, Weighed(eps, S), \A o \in S : eps2[o].weight = eps[o].weight
  PROVE  Weighed(eps2, S) /\ Sum(eps2, S) = Sum(eps, S)
<1>0. /\ IsFiniteSet(S) /\ Weighed(eps2, S)
      /\ \A s \in SUBSET S : Cardinality(s) \in Nat /\ Weighed(eps, s) /\ Weighed(eps2, s)
  <2>1. \A s \in SUBSET S : IsFiniteSet(s)
    BY FS_Subset DEF Weighed
  <2>2. \A s \in SUBSET S : Cardinality(s) \in Nat
    BY <2>1, FS_CardinalityType
  <2> QED
    BY <2>1, <2>2 DEF Weighed
<1> DEFINE Odd == {s \in SUBSET S : Sum(eps2, s) # Sum(eps, s)}
           Bad == {Cardinality(s) : s \in Odd}
<1> SUFFICES ASSUME Bad # {} PROVE FALSE
  BY <1>0
<1>1. PICK m \in Bad : \A y \in Nat : y < m => y \notin Bad
  <2>1. Bad \in SUBSET Nat
    BY <1>0
  <2> HIDE DEF Bad
  <2> QED
    BY <2>1, Least
<1>2. PICK s \in SUBSET S : s \in Odd /\ m = Cardinality(s)
  OBVIOUS
<1>3. s # {}
  BY <1>0, <1>2, SumStep
<1>4. PICK x \in s : TRUE
  BY <1>3
<1> DEFINE r == s \ {x}
<1>5. r \in SUBSET S /\ Cardinality(r) = m - 1 /\ m \in Nat /\ Cardinality(r) \in Nat
  BY <1>0, <1>2, <1>4, FS_RemoveElement DEF Weighed
<1>6. r \notin Odd
  <2>1. m - 1 \in Nat /\ m - 1 < m /\ m \in Nat
    BY <1>5
  <2>2. m - 1 \notin Bad
    <3> HIDE DEF Bad
    <3> QED
      BY <1>1, <2>1
  <2> QED
    BY <1>5, <2>2
<1>7. Sum(eps2, s) = eps2[x].weight + Sum(eps2, r) /\ Sum(eps, s) = eps[x].weight + Sum(eps, r)
  BY <1>0, <1>2, <1>4, SumRemove
<1>8. eps2[x].weight = eps[x].weight /\ Sum(eps2, r) = Sum(eps, r)
  BY <1>4, <1>5, <1>6
<1> QED
  BY <1>2, <1>7, <1>8

\* Servers have positive weights: no sum is 0 but the empty one.
LEMMA SumPositive ==
  ASSUME NEW eps, NEW S, IsFiniteSet(S), \A o \in S : eps[o].weight \in Nat \ {0}
  PROVE  Sum(eps, S) \in Nat /\ (Sum(eps, S) = 0 <=> S = {})
<1>0. \A s \in SUBSET S : Cardinality(s) \in Nat /\ Weighed(eps, s)
  <2>1. \A s \in SUBSET S : IsFiniteSet(s)
    BY FS_Subset
  <2>2. \A s \in SUBSET S : Cardinality(s) \in Nat
    BY <2>1, FS_CardinalityType
  <2> QED
    BY <2>1, <2>2 DEF Weighed
<1> DEFINE Odd == {s \in SUBSET S : ~(Sum(eps, s) \in Nat /\ (Sum(eps, s) = 0 <=> s = {}))}
           Bad == {Cardinality(s) : s \in Odd}
<1> SUFFICES ASSUME Bad # {} PROVE FALSE
  OBVIOUS
<1>1. PICK m \in Bad : \A y \in Nat : y < m => y \notin Bad
  <2>1. Bad \in SUBSET Nat
    BY <1>0
  <2> HIDE DEF Bad
  <2> QED
    BY <2>1, Least
<1>2. PICK s \in SUBSET S : s \in Odd /\ m = Cardinality(s)
  OBVIOUS
<1>3. s # {}
  <2>1. Sum(eps, s) = IF s = {} THEN 0 ELSE eps[Some(s)].weight + Sum(eps, s \ {Some(s)})
    BY <1>0, SumStep
  <2> QED
    BY <1>2, <2>1
<1>4. PICK x \in s : TRUE
  BY <1>3
<1> DEFINE r == s \ {x}
<1>5. r \in SUBSET S /\ Cardinality(r) = m - 1 /\ m \in Nat /\ Cardinality(r) \in Nat
  BY <1>0, <1>2, <1>4, FS_RemoveElement DEF Weighed
<1>6. r \notin Odd
  <2>1. m - 1 \in Nat /\ m - 1 < m /\ m \in Nat
    BY <1>5
  <2>2. m - 1 \notin Bad
    <3> HIDE DEF Bad
    <3> QED
      BY <1>1, <2>1
  <2> QED
    BY <1>5, <2>2
<1>7. Sum(eps, s) = eps[x].weight + Sum(eps, r) /\ eps[x].weight \in Nat \ {0}
  BY <1>0, <1>2, <1>4, SumRemove
<1>8. Sum(eps, r) \in Nat
  BY <1>5, <1>6
<1> QED
  BY <1>2, <1>3, <1>7, <1>8

-----------------------------------------------------------------------------
(***************************************************************************)
(* Where a server is in the lists of the tasks, and what one more or one   *)
(* less entry of a list changes.                                           *)
(***************************************************************************)
Places(h, q) == UNION {{<<t, i>> : i \in {j \in 1..Len(h[t]) : h[t][j] = q}} : t \in Tasks}

Holding == [t \in Tasks |-> Held(t)]

\* The references of the tasks are places in the lists they hold.
LEMMA UsesArePlaces ==
  ASSUME NEW q PROVE TaskUses(q) = Places(Holding, q)
BY DEF TaskUses, Places, Holding

\* A place is a task and an index.
LEMMA PlacePair ==
  ASSUME NEW h, NEW q, NEW x
  PROVE  x \in Places(h, q) <=> \E t \in Tasks : \E i \in 1..Len(h[t]) : x = <<t, i>> /\ h[t][i] = q
BY DEF Places

\* The same for a given task and index.
LEMMA PlaceIn ==
  ASSUME NEW h, NEW q, NEW t, NEW i
  PROVE  <<t, i>> \in Places(h, q) <=> t \in Tasks /\ i \in 1..Len(h[t]) /\ h[t][i] = q
BY PlacePair

\* One more entry.
OneMore(h, h2, t, o) ==
  /\ h \in [Tasks -> Seq(Endpoints)] /\ t \in Tasks /\ o \in Endpoints
  /\ h2[t] = Append(h[t], o) /\ \A u \in Tasks : u # t => h2[u] = h[u]

\* One entry more (select).
LEMMA PlacesAppend ==
  ASSUME NEW h, NEW h2, NEW t, NEW o, OneMore(h, h2, t, o), NEW q, IsFiniteSet(Places(h, q))
  PROVE  /\ IsFiniteSet(Places(h2, q))
         /\ Cardinality(Places(h2, q)) = Cardinality(Places(h, q)) + (IF q = o THEN 1 ELSE 0)
<1> DEFINE n == Len(h[t]) + 1
           A == Places(h, q)
           B == Places(h2, q)
<1>1. h[t] \in Seq(Endpoints) /\ n \in Nat /\ Len(h[t]) \in Nat /\ o \in Endpoints /\ t \in Tasks
  BY LenProperties DEF OneMore
<1>2. /\ h2[t] = Append(h[t], o) /\ Len(h2[t]) = n /\ h2[t][n] = o /\ \A i \in 1..Len(h[t]) : h2[t][i] = h[t][i]
      /\ \A u \in Tasks : u # t => h2[u] = h[u]
  BY <1>1, AppendProperties DEF OneMore
<1>3. \A i : i \in 1..n <=> i \in 1..Len(h[t]) \/ i = n
  BY <1>1
<1>4. n \notin 1..Len(h[t])
  BY <1>1
<1> HIDE DEF n
<1>5. ASSUME NEW u, NEW i PROVE <<u, i>> \in B <=> <<u, i>> \in A \/ (q = o /\ u = t /\ i = n)
  <2>0. /\ <<u, i>> \in A <=> u \in Tasks /\ i \in 1..Len(h[u]) /\ h[u][i] = q
        /\ <<u, i>> \in B <=> u \in Tasks /\ i \in 1..Len(h2[u]) /\ h2[u][i] = q
    BY ONLY PlaceIn
  <2> HIDE DEF A, B
  <2>1. CASE u = t
    <3>1. CASE i = n
      BY <1>1, <1>2, <1>3, <1>4, <2>0, <2>1, <3>1
    <3>2. CASE i # n
      BY <1>2, <1>3, <2>0, <2>1, <3>2
    <3> QED
      BY <3>1, <3>2
  <2>2. CASE u # t
    BY <1>2, <2>0, <2>2
  <2> QED
    BY <2>1, <2>2
<1>6. (\A x \in A : \E u, i : x = <<u, i>>) /\ (\A x \in B : \E u, i : x = <<u, i>>)
  BY PlacePair
<1>7. <<t, n>> \notin A
  BY <1>4, PlaceIn
<1> HIDE DEF A, B
<1>8. CASE q = o
  <2>1. B = A \cup {<<t, n>>}
    BY <1>5, <1>6, <1>8
  <2>2. IsFiniteSet(A)
    BY DEF A
  <2>3. IsFiniteSet(A \cup {<<t, n>>}) /\ Cardinality(A \cup {<<t, n>>}) = Cardinality(A) + 1
    BY <1>7, <2>2, FS_AddElement
  <2> QED
    BY <1>8, <2>1, <2>3 DEF A, B
<1>9. CASE q # o
  <2>1. B = A
    <3>1. \A u, i : <<u, i>> \in B <=> <<u, i>> \in A
      BY <1>5, <1>9
    <3>2. ASSUME NEW x PROVE x \in B <=> x \in A
      BY <1>6, <3>1
    <3> QED
      BY <3>2
  <2>2. IsFiniteSet(A)
    BY DEF A
  <2>3. Cardinality(A) \in Nat
    BY <2>2, FS_CardinalityType
  <2> QED
    BY <1>9, <2>1, <2>2, <2>3 DEF A, B
<1> QED
  BY <1>8, <1>9

\* The first entry less.
OneLess(h, h2, t) ==
  /\ h \in [Tasks -> Seq(Endpoints)] /\ t \in Tasks /\ h[t] # <<>>
  /\ h2[t] = Tail(h[t]) /\ \A u \in Tasks : u # t => h2[u] = h[u]

\* One entry less, the first (tracing_deleter).
LEMMA PlacesTail ==
  ASSUME NEW h, NEW h2, NEW t, OneLess(h, h2, t), NEW q, IsFiniteSet(Places(h, q))
  PROVE  /\ IsFiniteSet(Places(h2, q))
         /\ Cardinality(Places(h2, q)) = Cardinality(Places(h, q)) - (IF q = Head(h[t]) THEN 1 ELSE 0)
<1> DEFINE A == Places(h, q) \ {<<t, 1>>}
           B == Places(h2, q)
           f == [x \in A |-> IF x[1] = t THEN <<t, x[2] - 1>> ELSE x]
<1>1. h[t] \in Seq(Endpoints) /\ Len(h[t]) \in Nat /\ Len(h[t]) # 0 /\ t \in Tasks /\ h[t] # <<>>
  BY LenProperties, EmptySeq DEF OneLess
<1>2. /\ h2[t] = Tail(h[t]) /\ Len(h2[t]) = Len(h[t]) - 1 /\ Head(h[t]) = h[t][1]
      /\ \A i \in 1..Len(h2[t]) : h2[t][i] = h[t][i + 1]
      /\ \A u \in Tasks : u # t => h2[u] = h[u]
  BY <1>1, HeadTailProperties DEF OneLess
<1>3. ASSUME NEW x \in A PROVE \E u \in Tasks : \E i \in 1..Len(h[u]) : x = <<u, i>> /\ h[u][i] = q /\ (u = t => i # 1)
  <2>1. PICK u, i : u \in Tasks /\ i \in 1..Len(h[u]) /\ x = <<u, i>> /\ h[u][i] = q
    BY PlacePair
  <2> QED
    BY <1>3, <2>1
<1>4. ASSUME NEW x \in B PROVE \E u \in Tasks : \E i \in 1..Len(h2[u]) : x = <<u, i>> /\ h2[u][i] = q
  BY ONLY <1>4, x \in B, PlacePair
<1>5. ASSUME NEW x \in A PROVE f[x] \in B
  <2>1. PICK u, i : u \in Tasks /\ i \in 1..Len(h[u]) /\ x = <<u, i>> /\ h[u][i] = q /\ (u = t => i # 1)
    BY <1>3
  <2>2. CASE u = t
    <3>1. f[x] = <<t, i - 1>> /\ i - 1 \in 1..Len(h2[t]) /\ h2[t][i - 1] = h[t][i]
      BY <1>1, <1>2, <1>5, <2>1, <2>2
    <3> QED
      BY <2>1, <2>2, <3>1, PlaceIn
  <2>3. CASE u # t
    <3>1. f[x] = <<u, i>> /\ h2[u] = h[u]
      BY <1>2, <1>5, <2>1, <2>3
    <3> QED
      BY <2>1, <3>1, PlaceIn
  <2> QED
    BY <2>2, <2>3
<1>6. ASSUME NEW x \in A, NEW y \in A, f[x] = f[y] PROVE x = y
  <2>1. PICK u, i : u \in Tasks /\ i \in 1..Len(h[u]) /\ x = <<u, i>>
    BY <1>3
  <2>2. PICK v, j : v \in Tasks /\ j \in 1..Len(h[v]) /\ y = <<v, j>>
    BY <1>3
  <2>3. i \in Int /\ j \in Int
    BY <2>1, <2>2
  <2>4. /\ f[x] = IF u = t THEN <<t, i - 1>> ELSE <<u, i>>
        /\ f[y] = IF v = t THEN <<t, j - 1>> ELSE <<v, j>>
    BY <2>1, <2>2
  <2> QED
    BY <1>6, <2>1, <2>2, <2>3, <2>4
<1>7. ASSUME NEW y \in B PROVE \E x \in A : f[x] = y
  <2>1. PICK u, i : u \in Tasks /\ i \in 1..Len(h2[u]) /\ y = <<u, i>> /\ h2[u][i] = q
    BY <1>4
  <2>2. CASE u = t
    <3>0. i \in 1..Len(h2[t]) /\ h2[t][i] = q
      BY <2>1, <2>2
    <3>1. i + 1 \in 1..Len(h[t]) /\ h[t][i + 1] = q /\ i + 1 # 1 /\ (i + 1) - 1 = i
      BY <1>1, <1>2, <3>0
    <3>2. <<t, i + 1>> \in A
      BY <1>1, <3>1, PlaceIn
    <3>3. f[<<t, i + 1>>] = <<t, i>>
      BY <3>1, <3>2
    <3> QED
      BY <2>1, <2>2, <3>2, <3>3
  <2>3. CASE u # t
    <3>1. <<u, i>> \in A
      BY <1>2, <2>1, <2>3, PlaceIn
    <3>2. f[<<u, i>>] = <<u, i>>
      BY <2>3, <3>1
    <3> QED
      BY <2>1, <3>1, <3>2
  <2> QED
    BY <2>2, <2>3
<1>8. IsFiniteSet(A) /\ Cardinality(A) = Cardinality(Places(h, q)) - (IF q = Head(h[t]) THEN 1 ELSE 0)
  <2>1. <<t, 1>> \in Places(h, q) <=> q = Head(h[t])
    BY <1>1, <1>2, PlaceIn
  <2>2. CASE q = Head(h[t])
    BY <2>1, <2>2, FS_RemoveElement
  <2>3. CASE q # Head(h[t])
    <3>1. A = Places(h, q) /\ Cardinality(Places(h, q)) \in Nat
      BY <2>1, <2>3, FS_CardinalityType
    <3>2. IsFiniteSet(A)
      BY <3>1
    <3> HIDE DEF A
    <3> QED
      BY <2>3, <3>1, <3>2
  <2> QED
    BY <2>2, <2>3
<1>9. f \in Bijection(A, B)
  <2>1. f \in [A -> B]
    BY <1>5
  <2> HIDE DEF f, A, B
  <2> QED
    BY <2>1, <1>6, <1>7 DEF Bijection, Injection, Surjection, IsInjective
<1>10. IsFiniteSet(B) /\ Cardinality(B) = Cardinality(A)
  <2> HIDE DEF f, A, B
  <2> QED
    BY <1>8, <1>9, FS_Bijection DEF ExistsBijection
<1> QED
  BY <1>8, <1>10

-----------------------------------------------------------------------------
(***************************************************************************)
(* UpstreamsUndone is not inductive.  What StartRpcServer has noted in     *)
(* created_upstreams must be exactly what it made and has not taken back,  *)
(* each name once, or cleanup_upstreams would delete too little or too     *)
(* much; and a name must refer to a policy that is in use, or the next     *)
(* upstream would get a policy that has an owner.                          *)
(***************************************************************************)
NameTypes ==
  /\ names \in [Names -> Policies \cup {NoPolicy}]
  /\ creator \in [Policies -> {"none", "start", "app"}]
  /\ config \in Configs /\ created \in Seq(Names) /\ upstream \in Nat \ {0}
  /\ policy \in [Policies -> [kind : Kinds \cup {"none"}, try_another : BOOLEAN]]

\* n is the name of an upstream that was made by who.
MadeBy(n, who) == Exists(n) /\ creator[names[n]] = who

NamesInUse ==
  \A n \in Names : Exists(n) => names[n] \notin NewPolicies /\ (MadeBy(n, "start") \/ MadeBy(n, "app"))

Noted == {created[i] : i \in 1..Len(created)}

NotedOnce == \A i, j \in 1..Len(created) : created[i] = created[j] => i = j

NotedIsMade == \A n \in Names : n \in Noted <=> MadeBy(n, "start")

\* The upstreams of the file up to the present one.
Progress ==
  start \in {"Upstreams", "Servers", "Started"} =>
    \A i \in 1..Len(config) :
      (i < upstream \/ (i = upstream /\ start = "Servers")) /\ config[i].type \in Kinds
        => config[i].name \in Noted

StartSound ==
  /\ start \in {"Idle", "Failed"} => created = <<>>
  /\ start = "Idle" => upstream = 1
  /\ start = "Started" => upstream > Len(config)
  /\ Progress

AppSound == app \in {"Made", "Ready"} => MadeBy(AppName, "app")

NInv == NameTypes /\ NamesInUse /\ NotedOnce /\ NotedIsMade /\ StartSound /\ AppSound

-----------------------------------------------------------------------------
\* A policy that is new: the first of those that are not in use.
LEMMA FirstNew ==
  ASSUME NewPolicies # {} PROVE Min(NewPolicies) \in NewPolicies
<1>1. NewPolicies \in SUBSET Nat
  BY UpstreamAssumption DEF NewPolicies
<1> QED
  BY <1>1, MinIn

\* upstream_create_*: the name refers to a policy of its maker, and no other changes.
LEMMA CreateFacts ==
  ASSUME NInv, NEW n \in Names, NEW kind \in Kinds, NEW try \in BOOLEAN, NEW who \in {"start", "app"},
         CreateUpstream(n, kind, try, who)
  PROVE  /\ names' \in [Names -> Policies \cup {NoPolicy}]
         /\ creator' \in [Policies -> {"none", "start", "app"}]
         /\ policy' \in [Policies -> [kind : Kinds \cup {"none"}, try_another : BOOLEAN]]
         /\ ~Exists(n) /\ MadeBy(n, who)'
         /\ \A m \in Names \ {n} : names'[m] = names[m] /\ \A w : MadeBy(m, w)' <=> MadeBy(m, w)
         /\ NamesInUse'
<1> DEFINE p == Min(NewPolicies)
<1>1. p \in NewPolicies /\ p \in Policies /\ policy[p].kind = "none"
  BY FirstNew DEF CreateUpstream, NewPolicies
<1>2. /\ policy' = [policy EXCEPT ![p] = [kind |-> kind, try_another |-> try]]
      /\ names' = [names EXCEPT ![n] = p] /\ creator' = [creator EXCEPT ![p] = who] /\ ~Exists(n)
  BY DEF CreateUpstream
<1> HIDE DEF p
<1>3. kind # "none"
  BY DEF Kinds
<1>4. /\ names' \in [Names -> Policies \cup {NoPolicy}]
      /\ creator' \in [Policies -> {"none", "start", "app"}]
  BY <1>1, <1>2 DEF NInv, NameTypes
<1>5. policy' \in [Policies -> [kind : Kinds \cup {"none"}, try_another : BOOLEAN]]
  BY <1>1, <1>2, <1>3 DEF NInv, NameTypes
<1>6. MadeBy(n, who)' /\ names'[n] = p
  BY <1>1, <1>2, ConfigAssumption DEF NInv, NameTypes, MadeBy, Exists
<1>7. ASSUME NEW m \in Names \ {n} PROVE names'[m] = names[m] /\ \A w : MadeBy(m, w)' <=> MadeBy(m, w)
  <2>1. names'[m] = names[m] /\ (Exists(m) => names[m] # p /\ names[m] \in Policies)
    BY <1>1, <1>2, <1>7 DEF NInv, NameTypes, NamesInUse, Exists
  <2>2. Exists(m) => creator'[names[m]] = creator[names[m]]
    BY <1>2, <2>1 DEF NInv, NameTypes
  <2> QED
    BY <2>1, <2>2 DEF MadeBy, Exists
<1>8. NewPolicies' = NewPolicies \ {p}
  <2>1. policy'[p].kind = kind /\ \A q \in Policies : q # p => policy'[q] = policy[q]
    BY <1>1, <1>2 DEF NInv, NameTypes
  <2> QED
    BY <1>3, <2>1 DEF NewPolicies
<1>9. NamesInUse'
  BY <1>6, <1>7, <1>8 DEF NInv, NamesInUse, Exists, MadeBy
<1> QED
  BY <1>2, <1>4, <1>5, <1>6, <1>7, <1>9

\* upstream_delete: one name goes.
LEMMA DeleteFacts ==
  ASSUME NInv, NEW n \in Names, DeleteUpstream(n)
  PROVE  /\ names' \in [Names -> Policies \cup {NoPolicy}] /\ UNCHANGED <<policy, creator>>
         /\ ~Exists(n)' /\ \A m \in Names \ {n} : \A w : MadeBy(m, w)' <=> MadeBy(m, w)
         /\ NamesInUse'
<1>1. names' = [names EXCEPT ![n] = NoPolicy] /\ UNCHANGED <<policy, creator>>
  BY DEF DeleteUpstream, ups, lists
<1>2. names' \in [Names -> Policies \cup {NoPolicy}] /\ ~Exists(n)'
  BY <1>1 DEF NInv, NameTypes, Exists
<1>3. \A m \in Names \ {n} : names'[m] = names[m]
  BY <1>1 DEF NInv, NameTypes
<1>4. \A m \in Names \ {n} : \A w : MadeBy(m, w)' <=> MadeBy(m, w)
  BY <1>1, <1>3 DEF MadeBy, Exists
<1>5. NamesInUse'
  BY <1>1, <1>2, <1>3 DEF NInv, NamesInUse, NewPolicies, MadeBy, Exists
<1> QED
  BY <1>1, <1>2, <1>4, <1>5

\* A step that changes no name, no policy and nothing StartRpcServer knows.
LEMMA NamesFrame ==
  ASSUME NInv, UNCHANGED <<policy, names, creator, config, start, upstream, created, app>>
  PROVE  NInv'
<1>1. NameTypes' /\ NamesInUse'
  BY DEF NInv, NameTypes, NamesInUse, NewPolicies, MadeBy, Exists
<1>2. NotedOnce' /\ NotedIsMade'
  BY DEF NInv, NotedOnce, NotedIsMade, Noted, MadeBy, Exists
<1>3. StartSound' /\ AppSound'
  BY DEF NInv, StartSound, Progress, AppSound, Noted, MadeBy, Exists
<1> QED
  BY <1>1, <1>2, <1>3 DEF NInv

\* Servers, breakers and tasks.
LEMMA PolicyKept ==
  ASSUME NEW p, NEW address, NEW weight, NEW t,
         AddServer(p, address, weight) \/ RemoveServer(p, address) \/ Route(t, p) \/ TaskStep(t) \/ Tick
  PROVE  policy' = policy
<1>1. CASE AddServer(p, address, weight)
  BY <1>1 DEF AddServer
<1>2. CASE RemoveServer(p, address)
  BY <1>2 DEF RemoveServer
<1>3. CASE Route(t, p) \/ Tick
  BY <1>3 DEF Route, Tick, lists
<1>4. CASE CheckBreaker(t) \/ WeightedFirstStrategy(t) \/ HashFirstStrategy(t) \/ FindNoneLeft(t) \/ TryClearBreaker(t)
           \/ AnotherStrategy(t)
  BY <1>4 DEF CheckBreaker, WeightedFirstStrategy, HashFirstStrategy, FindNoneLeft, TryClearBreaker, AnotherStrategy, lists
<1>5. CASE Success(t) \/ SuccessCheck(t) \/ RecoverServer(t) \/ Failed(t) \/ Release(t) \/ DeleteServer(t)
  BY <1>5 DEF Success, SuccessCheck, RecoverServer, Failed, Release, DeleteServer, lists
<1> QED
  BY <1>1, <1>2, <1>3, <1>4, <1>5 DEF TaskStep

\* What the file says of an upstream.
LEMMA ConfiguredType ==
  ASSUME NInv, upstream <= Len(config)
  PROVE  /\ Configured.name \in Names /\ Configured.try_another \in BOOLEAN
         /\ upstream \in 1..Len(config) /\ Len(config) \in Nat
<1> DEFINE U == [name : Names, type : STRING, try_another : BOOLEAN,
                 servers : Seq([address : Addresses, weight : Nat])]
<1>1. config \in Seq(U)
  BY ConfigAssumption DEF NInv, NameTypes
<1>2. upstream \in 1..Len(config) /\ Len(config) \in Nat
  BY <1>1, LenProperties DEF NInv, NameTypes
<1>3. config[upstream] \in U
  <2> HIDE DEF U
  <2> QED
    BY <1>1, <1>2, ElementOfSeq
<1> QED
  BY <1>2, <1>3 DEF Configured

\* The noted names after one more.
LEMMA AppendNoted ==
  ASSUME NInv, NEW n \in Names, created' = Append(created, n), n \notin Noted
  PROVE  created' \in Seq(Names) /\ Noted' = Noted \cup {n} /\ NotedOnce'
<1>1. created \in Seq(Names) /\ Len(created) \in Nat
  BY LenProperties DEF NInv, NameTypes
<1>2. /\ created' \in Seq(Names) /\ Len(created') = Len(created) + 1
      /\ created'[Len(created) + 1] = n /\ \A i \in 1..Len(created) : created'[i] = created[i]
  BY <1>1, AppendProperties
<1>3. 1..Len(created') = 1..Len(created) \cup {Len(created) + 1}
  BY <1>1, <1>2
<1>4. Noted' = Noted \cup {n}
  BY <1>2, <1>3 DEF Noted
<1>5. NotedOnce'
  BY <1>1, <1>2, <1>3 DEF NInv, NotedOnce, Noted
<1> QED
  BY <1>2, <1>4, <1>5

\* The noted names without the first.
LEMMA TailNoted ==
  ASSUME NInv, created # <<>>, created' = Tail(created)
  PROVE  /\ created' \in Seq(Names) /\ Head(created) \in Names /\ Head(created) \in Noted
         /\ Noted' = Noted \ {Head(created)} /\ NotedOnce'
<1>1. created \in Seq(Names) /\ Len(created) \in Nat /\ Len(created) # 0
  BY LenProperties, EmptySeq DEF NInv, NameTypes
<1>2. /\ created' \in Seq(Names) /\ Len(created') = Len(created) - 1
      /\ Head(created) = created[1] /\ \A i \in 1..Len(created') : created'[i] = created[i + 1]
  BY <1>1, HeadTailProperties
<1>3. 1 \in 1..Len(created) /\ Head(created) \in Names
  BY <1>1, <1>2, ElementOfSeq
<1>4. NotedOnce'
  BY <1>1, <1>2 DEF NInv, NotedOnce
<1>5. ASSUME NEW x PROVE x \in Noted' <=> x \in Noted /\ x # Head(created)
  <2>1. ASSUME x \in Noted' PROVE x \in Noted /\ x # Head(created)
    <3>1. PICK i \in 1..Len(created') : x = created[i + 1]
      BY <1>2, <2>1 DEF Noted
    <3>2. i + 1 \in 1..Len(created) /\ i + 1 # 1
      BY <1>1, <1>2
    <3> QED
      BY <1>2, <1>3, <3>1, <3>2 DEF Noted, NInv, NotedOnce
  <2>2. ASSUME x \in Noted, x # Head(created) PROVE x \in Noted'
    <3>1. PICK j \in 1..Len(created) : x = created[j]
      BY <2>2 DEF Noted
    <3>2. PICK i \in 1..Len(created') : i + 1 = j
      <4>1. j - 1 \in 1..Len(created') /\ (j - 1) + 1 = j
        BY <1>1, <1>2, <2>2, <3>1
      <4> QED
        BY <4>1
    <3>3. x = created'[i]
      BY <1>2, <3>1, <3>2
    <3> QED
      BY <3>3 DEF Noted
  <2> QED
    BY <2>1, <2>2
<1> QED
  BY <1>2, <1>3, <1>4, <1>5 DEF Noted

-----------------------------------------------------------------------------
\* At first no name exists.
LEMMA NamesInit ==
  Init => NInv
<1> SUFFICES ASSUME Init PROVE NInv
  OBVIOUS
<1>1. NameTypes
  <2>1. created \in Seq(Names)
    BY EmptySeq DEF Init
  <2>2. policy \in [Policies -> [kind : Kinds \cup {"none"}, try_another : BOOLEAN]]
    BY DEF Init, UpsInit
  <2> QED
    BY <2>1, <2>2 DEF Init, NameTypes
<1>2. \A n \in Names : ~Exists(n)
  BY DEF Init, Exists
<1>3. Noted = {}
  BY DEF Init, Noted
<1>4. NotedOnce
  BY DEF Init, NotedOnce
<1> QED
  BY <1>1, <1>2, <1>3, <1>4 DEF Init, NInv, NamesInUse, NotedIsMade, MadeBy, StartSound, Progress, AppSound

\* StartRpcServer goes on without touching a name.
LEMMA BeginKeeps ==
  ASSUME NInv, BeginStart PROVE NInv'
<1>1. UNCHANGED <<policy, names, creator, config, upstream, created, app>> /\ created = <<>>
  BY DEF NInv, StartSound, BeginStart, ups, lists, using
<1>2. NameTypes' /\ NamesInUse' /\ NotedOnce' /\ NotedIsMade' /\ AppSound'
  BY <1>1 DEF NInv, NameTypes, NamesInUse, NewPolicies, NotedOnce, NotedIsMade, Noted, AppSound, MadeBy, Exists
<1>3. StartSound'
  <2>1. start = "Idle" /\ upstream' = 1 /\ start' \in {"Upstreams", "Failed"}
    BY <1>1 DEF BeginStart, NInv, StartSound
  <2>2. Progress'
    BY <2>1 DEF Progress
  <2> QED
    BY <1>1, <2>1, <2>2 DEF StartSound
<1> QED
  BY <1>2, <1>3 DEF NInv

\* An upstream of an unknown type.
LEMMA SkipKeeps ==
  ASSUME NInv, SkipUpstream PROVE NInv'
<1>1. /\ UNCHANGED <<policy, names, creator, config, created, app, start>> /\ start = "Upstreams"
      /\ upstream' = upstream + 1 /\ upstream <= Len(config) /\ config[upstream].type \notin Kinds
  BY DEF SkipUpstream, Configured, ups, lists, using
<1>2. upstream \in Nat /\ upstream' \in Nat \ {0}
  BY <1>1 DEF NInv, NameTypes
<1>3. NameTypes' /\ NamesInUse' /\ NotedOnce' /\ NotedIsMade' /\ AppSound'
  BY <1>1, <1>2 DEF NInv, NameTypes, NamesInUse, NewPolicies, NotedOnce, NotedIsMade, Noted, AppSound, MadeBy, Exists
<1>4. Progress'
  <2> SUFFICES ASSUME NEW i \in 1..Len(config), i < upstream + 1, config[i].type \in Kinds
               PROVE  config[i].name \in Noted
    BY <1>1 DEF Progress, Noted
  <2>1. i < upstream
    BY <1>1, <1>2
  <2> QED
    BY <1>1, <2>1 DEF NInv, StartSound, Progress
<1> QED
  BY <1>1, <1>3, <1>4 DEF NInv, StartSound

\* An upstream that is made, and noted, or refused.
LEMMA MakeKeeps ==
  ASSUME NInv, MakeUpstream PROVE NInv'
<1>1. /\ UNCHANGED <<config, upstream, app>> /\ start = "Upstreams"
      /\ upstream <= Len(config) /\ Configured.type \in Kinds
  BY DEF MakeUpstream, using
<1>2. CASE start' = "Cleanup" /\ UNCHANGED <<ups, names, creator, server, created>>
  <2>1. UNCHANGED <<policy, names, creator, config, created, app, upstream>> /\ start' = "Cleanup"
    BY <1>1, <1>2 DEF ups, lists
  <2>2. NameTypes' /\ NamesInUse' /\ NotedOnce' /\ NotedIsMade' /\ AppSound'
    BY <2>1 DEF NInv, NameTypes, NamesInUse, NewPolicies, NotedOnce, NotedIsMade, Noted, AppSound, MadeBy, Exists
  <2>3. StartSound'
    BY <2>1 DEF StartSound, Progress
  <2> QED
    BY <2>2, <2>3 DEF NInv
<1>3. CASE /\ CreateUpstream(Configured.name, Configured.type, Configured.try_another, "start")
           /\ created' = Append(created, Configured.name)
           /\ start' = "Servers" /\ server' = 1
  <2>1. PICK n \in Names : n = Configured.name
    BY <1>1, ConfiguredType
  <2>2. PICK kind \in Kinds : kind = Configured.type
    BY <1>1
  <2>3. PICK try \in BOOLEAN : try = Configured.try_another
    BY <1>1, ConfiguredType
  <2>4. CreateUpstream(n, kind, try, "start") /\ created' = Append(created, n)
    BY <1>3, <2>1, <2>2, <2>3
  <2>5. /\ names' \in [Names -> Policies \cup {NoPolicy}]
        /\ creator' \in [Policies -> {"none", "start", "app"}]
        /\ policy' \in [Policies -> [kind : Kinds \cup {"none"}, try_another : BOOLEAN]]
        /\ ~Exists(n) /\ MadeBy(n, "start")'
        /\ \A m \in Names \ {n} : \A w : MadeBy(m, w)' <=> MadeBy(m, w)
        /\ NamesInUse'
    BY <2>4, CreateFacts
  <2>6. n \notin Noted
    BY <2>5 DEF NInv, NotedIsMade, MadeBy
  <2>7. created' \in Seq(Names) /\ Noted' = Noted \cup {n} /\ NotedOnce'
    BY <2>4, <2>6, AppendNoted
  <2>8. NameTypes'
    BY <1>1, <2>5, <2>7 DEF NInv, NameTypes
  <2>9. NotedIsMade'
    BY <2>5, <2>7 DEF NInv, NotedIsMade
  <2>10. AppSound'
    <3>1. app \in {"Made", "Ready"} => AppName # n
      BY <2>5 DEF NInv, AppSound, MadeBy
    <3> QED
      BY <1>1, <2>5, <3>1, ConfigAssumption DEF NInv, AppSound
  <2>11. Progress'
    <3> SUFFICES ASSUME NEW i \in 1..Len(config), i < upstream \/ i = upstream, config[i].type \in Kinds
                 PROVE  config[i].name \in Noted'
      BY <1>1, <1>3 DEF Progress
    <3>1. CASE i = upstream
      BY <2>1, <2>7, <3>1 DEF Configured
    <3>2. CASE i < upstream
      BY <1>1, <2>7, <3>2 DEF NInv, StartSound, Progress
    <3> QED
      BY <3>1, <3>2
  <2>12. StartSound'
    BY <1>3, <2>11 DEF StartSound
  <2> QED
    BY <2>5, <2>7, <2>8, <2>9, <2>10, <2>12 DEF NInv
<1> QED
  BY <1>2, <1>3 DEF MakeUpstream

\* The servers of the upstream just made.
LEMMA AddKeeps ==
  ASSUME NInv, AddConfigured PROVE NInv'
<1>1. UNCHANGED <<names, creator, config, created, app>> /\ start = "Servers"
  BY DEF AddConfigured, using
<1>2. CASE /\ server <= Len(Configured.servers)
           /\ LET s == Configured.servers[server]
              IN  AddServer(names[Configured.name], s.address,
                            IF Configured.type = "weighted_random" THEN s.weight ELSE 1)
           /\ UNCHANGED <<start, upstream>>
  <2>1. policy' = policy
    BY <1>2 DEF AddServer
  <2> QED
    BY <1>1, <1>2, <2>1, NamesFrame
<1>3. CASE start' = "Upstreams" /\ upstream' = upstream + 1 /\ UNCHANGED <<ups, server>>
  <2>1. UNCHANGED <<policy, names, creator, config, created, app>> /\ start' = "Upstreams" /\ start = "Servers"
    BY <1>1, <1>3 DEF ups, lists
  <2>2. upstream \in Nat /\ upstream' \in Nat \ {0}
    BY <1>3 DEF NInv, NameTypes
  <2>3. NameTypes' /\ NamesInUse' /\ NotedOnce' /\ NotedIsMade' /\ AppSound'
    BY <2>1, <2>2 DEF NInv, NameTypes, NamesInUse, NewPolicies, NotedOnce, NotedIsMade, Noted, AppSound, MadeBy, Exists
  <2>4. Progress'
    <3> SUFFICES ASSUME NEW i \in 1..Len(config), i < upstream + 1, config[i].type \in Kinds
                 PROVE  config[i].name \in Noted
      BY <1>3, <2>1 DEF Progress, Noted
    <3>1. i < upstream \/ i = upstream
      BY <2>2
    <3> QED
      BY <2>1, <3>1 DEF NInv, StartSound, Progress
  <2> QED
    BY <2>1, <2>3, <2>4 DEF NInv, StartSound
<1> QED
  BY <1>2, <1>3 DEF AddConfigured

\* The server starts, or fails to.
LEMMA StartKeeps ==
  ASSUME NInv, StartServer PROVE NInv'
<1>1. /\ UNCHANGED <<policy, names, creator, config, created, app, upstream>> /\ start = "Upstreams"
      /\ start' \in {"Started", "Cleanup"} /\ upstream > Len(config)
  BY DEF StartServer, ups, lists, using
<1>2. NameTypes' /\ NamesInUse' /\ NotedOnce' /\ NotedIsMade' /\ AppSound'
  BY <1>1 DEF NInv, NameTypes, NamesInUse, NewPolicies, NotedOnce, NotedIsMade, Noted, AppSound, MadeBy, Exists
<1>3. Progress'
  BY <1>1 DEF NInv, StartSound, Progress, Noted
<1> QED
  BY <1>1, <1>2, <1>3 DEF NInv, StartSound

\* cleanup_upstreams takes back what was made, and never the application's.
LEMMA CleanupKeeps ==
  ASSUME NInv, CleanupUpstreams PROVE NInv'
<1>1. UNCHANGED <<config, upstream, app>> /\ start = "Cleanup"
  BY DEF CleanupUpstreams, using
<1>2. CASE created # <<>> /\ DeleteUpstream(Head(created)) /\ created' = Tail(created) /\ UNCHANGED start
  <2>1. /\ created' \in Seq(Names) /\ Head(created) \in Names /\ Head(created) \in Noted
        /\ Noted' = Noted \ {Head(created)} /\ NotedOnce'
    BY <1>2, TailNoted
  <2>2. PICK n \in Names : n = Head(created)
    BY <2>1
  <2>3. DeleteUpstream(n) /\ n \in Noted /\ Noted' = Noted \ {n}
    BY <1>2, <2>1, <2>2
  <2>4. /\ names' \in [Names -> Policies \cup {NoPolicy}] /\ UNCHANGED <<policy, creator>>
        /\ ~Exists(n)' /\ \A m \in Names \ {n} : \A w : MadeBy(m, w)' <=> MadeBy(m, w)
        /\ NamesInUse'
    BY <2>3, DeleteFacts
  <2>5. NameTypes'
    BY <1>1, <2>1, <2>4 DEF NInv, NameTypes
  <2>6. NotedIsMade'
    BY <2>3, <2>4 DEF NInv, NotedIsMade, MadeBy
  <2>7. AppSound'
    <3>1. MadeBy(n, "start")
      BY <2>3 DEF NInv, NotedIsMade
    <3>2. app \in {"Made", "Ready"} => AppName # n
      BY <3>1 DEF NInv, AppSound, MadeBy
    <3> QED
      BY <1>1, <2>4, <3>2, ConfigAssumption DEF NInv, AppSound
  <2>8. StartSound'
    BY <1>1, <1>2 DEF StartSound, Progress
  <2> QED
    BY <2>1, <2>4, <2>5, <2>6, <2>7, <2>8 DEF NInv
<1>3. CASE created = <<>> /\ start' = "Failed" /\ UNCHANGED <<ups, names, creator, created>>
  <2>1. UNCHANGED <<policy, names, creator, config, created, app, upstream>>
    BY <1>1, <1>3 DEF ups, lists
  <2>2. NameTypes' /\ NamesInUse' /\ NotedOnce' /\ NotedIsMade' /\ AppSound'
    BY <2>1 DEF NInv, NameTypes, NamesInUse, NewPolicies, NotedOnce, NotedIsMade, Noted, AppSound, MadeBy, Exists
  <2>3. StartSound'
    BY <1>3, <2>1 DEF StartSound, Progress
  <2> QED
    BY <2>2, <2>3 DEF NInv
<1> QED
  BY <1>2, <1>3 DEF CleanupUpstreams

\* The application makes its upstream, unless the name is taken.
LEMMA ConfigureKeeps ==
  ASSUME NInv, ConfigureUpstream PROVE NInv'
<1>1. UNCHANGED <<config, start, upstream, created>> /\ Noted' = Noted
  BY DEF ConfigureUpstream, starting, Noted
<1>2. CASE app' = "Refused" /\ UNCHANGED <<ups, names, creator>>
  <2>1. UNCHANGED <<policy, names, creator>>
    BY <1>2 DEF ups, lists
  <2>2. NameTypes' /\ NamesInUse' /\ NotedOnce' /\ NotedIsMade' /\ StartSound'
    BY <1>1, <2>1 DEF NInv, NameTypes, NamesInUse, NewPolicies, NotedOnce, NotedIsMade, StartSound, Progress, MadeBy, Exists
  <2> QED
    BY <1>2, <2>2 DEF NInv, AppSound
<1>3. CASE CreateUpstream(AppName, "weighted_random", TRUE, "app") /\ app' = "Made"
  <2>1. AppName \in Names /\ "weighted_random" \in Kinds
    BY ConfigAssumption DEF Kinds
  <2>2. /\ names' \in [Names -> Policies \cup {NoPolicy}]
        /\ creator' \in [Policies -> {"none", "start", "app"}]
        /\ policy' \in [Policies -> [kind : Kinds \cup {"none"}, try_another : BOOLEAN]]
        /\ ~Exists(AppName) /\ MadeBy(AppName, "app")'
        /\ \A m \in Names \ {AppName} : \A w : MadeBy(m, w)' <=> MadeBy(m, w)
        /\ NamesInUse'
    BY <1>3, <2>1, CreateFacts
  <2>3. NameTypes' /\ NotedOnce'
    BY <1>1, <2>2 DEF NInv, NameTypes, NotedOnce
  <2>4. NotedIsMade'
    BY <1>1, <2>2 DEF NInv, NotedIsMade, MadeBy
  <2>5. StartSound'
    BY <1>1 DEF NInv, StartSound, Progress
  <2> QED
    BY <2>2, <2>3, <2>4, <2>5 DEF NInv, AppSound
<1> QED
  BY <1>2, <1>3 DEF ConfigureUpstream

\* The servers of the application's upstream.
LEMMA AddAppKeeps ==
  ASSUME NInv, AddAppServer PROVE NInv'
<1>1. UNCHANGED <<names, creator, config, start, upstream, created>> /\ app = "Made"
  BY DEF AddAppServer, starting
<1>2. policy' = policy /\ (app' = app \/ app' = "Ready")
  BY DEF AddAppServer, AddServer, ups, lists
<1>3. NameTypes' /\ NamesInUse' /\ NotedOnce' /\ NotedIsMade'
  BY <1>1, <1>2 DEF NInv, NameTypes, NamesInUse, NewPolicies, NotedOnce, NotedIsMade, Noted, MadeBy, Exists
<1>4. StartSound' /\ AppSound'
  BY <1>1, <1>2 DEF NInv, StartSound, Progress, AppSound, Noted, MadeBy, Exists
<1> QED
  BY <1>3, <1>4 DEF NInv

\* The application deletes the upstream that it made.
LEMMA AppDeleteKeeps ==
  ASSUME NInv, AppDelete PROVE NInv'
<1>1. /\ UNCHANGED <<config, start, upstream, created>> /\ Noted' = Noted
      /\ app = "Ready" /\ app' = "Deleted" /\ DeleteUpstream(AppName) /\ AppName \in Names
  BY ConfigAssumption DEF AppDelete, starting, Noted
<1>2. /\ names' \in [Names -> Policies \cup {NoPolicy}] /\ UNCHANGED <<policy, creator>>
      /\ ~Exists(AppName)' /\ \A m \in Names \ {AppName} : \A w : MadeBy(m, w)' <=> MadeBy(m, w)
      /\ NamesInUse'
  BY <1>1, DeleteFacts
<1>3. NameTypes' /\ NotedOnce' /\ StartSound'
  BY <1>1, <1>2 DEF NInv, NameTypes, NotedOnce, StartSound, Progress
<1>4. NotedIsMade'
  <2>1. AppName \notin Noted
    BY <1>1 DEF NInv, AppSound, NotedIsMade, MadeBy
  <2> QED
    BY <1>1, <1>2, <2>1 DEF NInv, NotedIsMade, MadeBy
<1> QED
  BY <1>1, <1>2, <1>3, <1>4 DEF NInv, AppSound

\* Everything else leaves the names alone.
LEMMA OthersKeep ==
  ASSUME NInv, NEW n, NEW a, NEW t,
         \/ ChangeServers(n, a) \/ RouteTask(t, n) \/ Environment
         \/ TaskStep(t) /\ UNCHANGED <<names, creator, starting, using>>
         \/ UNCHANGED vars
  PROVE  NInv'
<1>1. UNCHANGED <<names, creator, config, start, upstream, created, app>>
  BY DEF ChangeServers, RouteTask, Environment, starting, using, vars
<1>2. policy' = policy
  <2>1. CASE ChangeServers(n, a)
    BY <2>1, PolicyKept DEF ChangeServers
  <2>2. CASE RouteTask(t, n)
    BY <2>2, PolicyKept DEF RouteTask
  <2>3. CASE Environment \/ TaskStep(t)
    BY <2>3, PolicyKept DEF Environment
  <2>4. CASE UNCHANGED vars
    BY <2>4 DEF vars, ups, lists
  <2> QED
    BY <2>1, <2>2, <2>3, <2>4
<1> QED
  BY <1>1, <1>2, NamesFrame

\* The circuit breakers and rate limiters are enabled as soon as the start begins.
Governing == governed \in BOOLEAN /\ (governed <=> start # "Idle")

\* A step keeps them.
LEMMA GoverningStep ==
  ASSUME Governing, [Next]_vars PROVE Governing'
<1>1. CASE BeginStart
  BY <1>1 DEF BeginStart, Governing
<1>2. CASE UNCHANGED <<governed, start>>
  BY <1>2 DEF Governing
<1>3. CASE MakeUpstream \/ SkipUpstream \/ AddConfigured \/ StartServer \/ CleanupUpstreams
  BY <1>2, <1>3 DEF MakeUpstream, SkipUpstream, AddConfigured, StartServer, CleanupUpstreams, Governing
<1>4. CASE AppStep \/ Environment \/ UNCHANGED vars
  BY <1>2, <1>4 DEF AppStep, ConfigureUpstream, AddAppServer, AppDelete, ChangeServers, Environment, vars, starting
<1> QED
  BY <1>1, <1>2, <1>3, <1>4 DEF Next, StartStep, RouteTask, starting

\* What UpstreamsUndone says of the names follows.
LEMMA NamesUndone ==
  NInv /\ Governing => UpstreamsUndone
<1> SUFFICES ASSUME NInv, Governing PROVE UpstreamsUndone
  OBVIOUS
<1>1. ASSUME start = "Failed", NEW n \in Names, Exists(n) PROVE creator[names[n]] = "app"
  <2>1. Noted = {}
    BY <1>1 DEF NInv, StartSound, Noted
  <2> QED
    BY <1>1, <2>1 DEF NInv, NamesInUse, NotedIsMade, MadeBy
<1>2. ASSUME start = "Started", NEW i \in DOMAIN config, config[i].type \in Kinds
      PROVE  Exists(config[i].name) /\ creator[names[config[i].name]] = "start"
  <2> DEFINE U == [name : Names, type : STRING, try_another : BOOLEAN,
                   servers : Seq([address : Addresses, weight : Nat])]
  <2>1. config \in Seq(U)
    BY ConfigAssumption DEF NInv, NameTypes
  <2>2. i \in 1..Len(config) /\ Len(config) \in Nat
    <3> HIDE DEF U
    <3> QED
      BY <1>2, <2>1, LenProperties
  <2>3. config[i] \in U
    <3> HIDE DEF U
    <3> QED
      BY <2>1, <2>2, ElementOfSeq
  <2>4. i < upstream
    BY <1>2, <2>2 DEF NInv, StartSound, NameTypes
  <2>5. config[i].name \in Noted /\ config[i].name \in Names
    BY <1>2, <2>2, <2>3, <2>4 DEF NInv, StartSound, Progress
  <2> QED
    BY <2>5 DEF NInv, NotedIsMade, MadeBy
<1>3. app \in {"Made", "Ready"} => Exists(AppName) /\ creator[names[AppName]] = "app"
  BY DEF NInv, AppSound, MadeBy
<1> QED
  BY <1>1, <1>2, <1>3 DEF UpstreamsUndone, Governing

\* A step keeps what is said of the names.
LEMMA NamesStep ==
  ASSUME NInv, [Next]_vars PROVE NInv'
<1>1. CASE StartStep
  BY <1>1, BeginKeeps, MakeKeeps, SkipKeeps, AddKeeps, StartKeeps, CleanupKeeps DEF StartStep
<1>2. CASE AppStep
  BY <1>2, ConfigureKeeps, AddAppKeeps, AppDeleteKeeps, OthersKeep DEF AppStep
<1>3. ASSUME NEW t \in Tasks, TaskStep(t) /\ UNCHANGED <<names, creator, starting, using>> PROVE NInv'
  BY <1>3, OthersKeep
<1>4. ASSUME NEW t \in Tasks, NEW n \in Names, RouteTask(t, n) PROVE NInv'
  BY <1>4, OthersKeep
<1>5. CASE Environment \/ UNCHANGED vars
  BY <1>5, OthersKeep
<1> QED
  BY <1>1, <1>2, <1>3, <1>4, <1>5 DEF Next

(***************************************************************************)
(* A start that fails takes back every upstream it made and none of the    *)
(* application's; one that succeeds has made them all: StartRpcServer and  *)
(* cleanup_upstreams, for any file, any number of names and any moment at  *)
(* which the application makes or deletes its own upstream.  The circuit   *)
(* breakers and rate limiters it enabled stay enabled.                     *)
(***************************************************************************)
THEOREM StartLeavesNoUpstream ==
  Spec => []UpstreamsUndone
<1>1. NInv /\ Governing /\ [Next]_vars => (NInv /\ Governing)'
  BY NamesStep, GoverningStep
<1>2. Init => Governing
  BY DEF Init, Governing
<1> QED
  BY <1>1, <1>2, NamesInit, NamesUndone, PTL DEF Spec

-----------------------------------------------------------------------------
(***************************************************************************)
(* The life of a server.  ServersKept is not inductive: that no history    *)
(* refers to a deleted server rests on the count of references, the count  *)
(* on every choice of select being a server of the policy, and that one on *)
(* the read lock, under which the policy keeps its servers, and on the     *)
(* virtual nodes of vnswrr being indices of them.  A task that deletes a   *)
(* server has given its reference back before; it is the only one to do so.*)
(***************************************************************************)
Objects ==
  [state : {"live", "deleted"}, address : Addresses, policy : Policies, weight : Nat \ {0},
   fail_count : Nat, ref : Int, broken_timeout : Nat]

Selecting == {"First", "Spin", "Another", "Clear", "Second"}
Asking    == {"Sent", "Succeeded", "Recover"}

TaskStates == {"Idle", "Select", "Release", "Delete", "Done"} \cup Selecting \cup Asking

KeepTypes ==
  /\ servers \in [Policies -> Seq(Endpoints)]
  /\ breaker_list \in [Policies -> Seq(Endpoints)]
  /\ endpoint \in [Endpoints -> Objects \cup {NoEndpoint}]
  /\ history \in [Tasks -> Seq(Endpoints)]
  /\ now \in Nat

TotalExact ==
  /\ DOMAIN total_weight = Policies /\ DOMAIN pre_generated_vec = Policies
  /\ \A p \in Policies : total_weight[p] = Sum(endpoint, Range(servers[p]))

TaskTypes ==
  /\ tpc \in [Tasks -> TaskStates]
  /\ DOMAIN sg = Tasks
  /\ \A t \in Tasks : tpc[t] # "Idle" => sg[t] \in Policies

LiveIn(o, p) == o \in Live /\ endpoint[o].policy = p

ServersLive == \A p \in Policies : \A i \in 1..Len(servers[p]) : LiveIn(servers[p][i], p)

HistoryLive == \A t \in Tasks : \A i \in 1..Len(history[t]) : LiveIn(history[t][i], sg[t])

InPolicy(o) == IF Contains(servers[endpoint[o].policy], o) THEN 1 ELSE 0

Counted ==
  \A o \in Live : IsFiniteSet(TaskUses(o)) /\ endpoint[o].ref = Cardinality(TaskUses(o)) + InPolicy(o)

Deleting ==
  /\ \A t \in Tasks : tpc[t] = "Delete" => history[t] # <<>> /\ endpoint[Head(history[t])].ref = 0
  /\ \A t, u \in Tasks : tpc[t] = "Delete" /\ tpc[u] = "Delete" /\ Head(history[t]) = Head(history[u]) => t = u

TasksSound ==
  \A t \in Tasks :
    /\ tpc[t] = "Idle" => history[t] = <<>>
    /\ tpc[t] \in Asking => history[t] # <<>>
    /\ tpc[t] \in Selecting => servers[sg[t]] # <<>>

VirtualSound ==
  \A p \in Policies :
    /\ p \in NewPolicies => servers[p] = <<>>
    /\ policy[p].kind = "vnswrr" /\ servers[p] # <<>> => pre_generated_vec[p] \in Seq(1..Len(servers[p]))

KInv ==
  /\ KeepTypes /\ TaskTypes /\ TotalExact
  /\ ServersLive /\ HistoryLive /\ Counted /\ Deleting /\ TasksSound /\ VirtualSound

(***************************************************************************)
(* BreakerSound is not inductive either: no time in a list lies more than  *)
(* mttr ahead, so that the server that is appended is the last to come     *)
(* back.                                                                   *)
(***************************************************************************)
ListSound ==
  \A p \in Policies :
    /\ \A i \in 1..Len(breaker_list[p]) :
         LiveIn(breaker_list[p][i], p) /\ endpoint[breaker_list[p][i]].broken_timeout <= now + Mttr
    /\ \A i, j \in 1..Len(breaker_list[p]) : i < j =>
         /\ breaker_list[p][i] # breaker_list[p][j]
         /\ endpoint[breaker_list[p][i]].broken_timeout <= endpoint[breaker_list[p][j]].broken_timeout

BInv == ListSound /\ FusedIsListed

-----------------------------------------------------------------------------
\* What a live server is.
LEMMA LiveFacts ==
  ASSUME KeepTypes, NEW o \in Live
  PROVE  /\ o \in Endpoints /\ endpoint[o] \in Objects /\ endpoint[o].state = "live"
         /\ endpoint[o].address \in Addresses /\ endpoint[o].policy \in Policies
         /\ endpoint[o].weight \in Nat \ {0} /\ endpoint[o].fail_count \in Nat
         /\ endpoint[o].ref \in Int /\ endpoint[o].broken_timeout \in Nat
         /\ MaxFails[endpoint[o].address] \in Nat \ {0}
<1>1. o \in Endpoints /\ endpoint[o].state = "live"
  BY DEF Live
<1>2. NoEndpoint.state = "free"
  BY DEF NoEndpoint
<1>3. endpoint[o] \in Objects
  BY <1>1, <1>2 DEF KeepTypes
<1> QED
  BY <1>1, <1>3, UpstreamAssumption DEF Objects

\* The servers of a policy as a set.
LEMMA ServerFacts ==
  ASSUME KInv, NEW p \in Policies
  PROVE  /\ Len(servers[p]) \in Nat /\ servers[p] \in Seq(Endpoints)
         /\ Range(servers[p]) = {servers[p][i] : i \in 1..Len(servers[p])}
         /\ \A o : o \in Range(servers[p]) <=> Contains(servers[p], o)
         /\ \A o \in Range(servers[p]) : LiveIn(o, p)
         /\ IsFiniteSet(Range(servers[p])) /\ Weighed(endpoint, Range(servers[p]))
<1>1. servers[p] \in Seq(Endpoints)
  BY DEF KInv, KeepTypes
<1>2. Len(servers[p]) \in Nat /\ DOMAIN servers[p] = 1..Len(servers[p])
  BY <1>1, LenProperties
<1>3. Range(servers[p]) = {servers[p][i] : i \in 1..Len(servers[p])}
  BY <1>2 DEF Range
<1>4. \A o : o \in Range(servers[p]) <=> Contains(servers[p], o)
  BY <1>3 DEF Contains
<1>5. \A o \in Range(servers[p]) : LiveIn(o, p)
  BY <1>3 DEF KInv, ServersLive
<1>6. Range(servers[p]) \subseteq Endpoints
  BY <1>5 DEF LiveIn, Live
<1>7. IsFiniteSet(Range(servers[p]))
  BY <1>6, UpstreamAssumption, FS_Subset
<1>8. \A o \in Range(servers[p]) : endpoint[o].weight \in Int
  BY <1>5, LiveFacts DEF LiveIn, KInv
<1> QED
  BY <1>1, <1>2, <1>3, <1>4, <1>5, <1>7, <1>8 DEF Weighed

\* No server changes but in its fail_count and broken_timeout.
Steady ==
  /\ endpoint' \in [Endpoints -> Objects \cup {NoEndpoint}]
  /\ \A o \in Endpoints : endpoint'[o].state = endpoint[o].state
  /\ \A o \in Live : /\ endpoint'[o].policy = endpoint[o].policy /\ endpoint'[o].weight = endpoint[o].weight
                     /\ endpoint'[o].address = endpoint[o].address /\ endpoint'[o].ref = endpoint[o].ref

\* Then the same servers are alive, in the same policies.
LEMMA SteadyLive ==
  ASSUME Steady PROVE Live' = Live /\ \A o, p : LiveIn(o, p)' <=> LiveIn(o, p)
<1>1. Live' = Live
  BY DEF Steady, Live
<1> QED
  BY <1>1 DEF Steady, LiveIn

\* No server changes at all.
LEMMA SteadySame ==
  ASSUME KeepTypes, UNCHANGED endpoint PROVE Steady
BY DEF KeepTypes, Steady

\* One fail_count changes.
LEMMA SteadyFails ==
  ASSUME KeepTypes, NEW o \in Live, NEW n \in Nat, endpoint' = [endpoint EXCEPT ![o].fail_count = n]
  PROVE  /\ Steady /\ endpoint'[o].fail_count = n /\ endpoint'[o].broken_timeout = endpoint[o].broken_timeout
         /\ \A q \in Endpoints : q # o => endpoint'[q] = endpoint[q]
<1>1. o \in Endpoints /\ endpoint[o] \in Objects
  BY LiveFacts
<1>2. endpoint' = [endpoint EXCEPT ![o] = [endpoint[o] EXCEPT !.fail_count = n]]
  BY <1>1 DEF KeepTypes
<1> DEFINE e == [endpoint[o] EXCEPT !.fail_count = n]
<1>3. /\ e \in Objects /\ e.state = endpoint[o].state /\ e.policy = endpoint[o].policy
      /\ e.weight = endpoint[o].weight /\ e.address = endpoint[o].address /\ e.ref = endpoint[o].ref
      /\ e.fail_count = n /\ e.broken_timeout = endpoint[o].broken_timeout
  BY <1>1 DEF Objects
<1>4. endpoint'[o] = e /\ \A q \in Endpoints : q # o => endpoint'[q] = endpoint[q]
  BY <1>1, <1>2 DEF KeepTypes
<1> HIDE DEF e
<1>5. endpoint' \in [Endpoints -> Objects \cup {NoEndpoint}]
  BY <1>2, <1>3 DEF KeepTypes, e
<1> QED
  BY <1>3, <1>4, <1>5 DEF Steady, Live

\* The lists of the tasks are as they were.
LEMMA HeldSame ==
  ASSUME history' = history, \A t \in Tasks : tpc'[t] = "Delete" <=> tpc[t] = "Delete"
  PROVE  (\A t \in Tasks : Held(t)' = Held(t)) /\ \A o : TaskUses(o)' = TaskUses(o)
<1>1. \A t \in Tasks : Held(t)' = Held(t)
  BY DEF Held
<1>2. Holding' = Holding
  BY <1>1 DEF Holding
<1>3. ASSUME NEW o PROVE TaskUses(o)' = TaskUses(o)
  BY <1>1 DEF TaskUses
<1> QED
  BY <1>1, <1>3

(***************************************************************************)
(* A step that neither adds nor removes nor counts a reference keeps the   *)
(* servers.                                                                *)
(***************************************************************************)
LEMMA KeepFrame ==
  ASSUME KInv, Steady, UNCHANGED <<servers, total_weight, history>>, KeepTypes', TaskTypes', TasksSound', VirtualSound',
         DOMAIN pre_generated_vec' = Policies,
         \A t \in Tasks : tpc'[t] = "Delete" <=> tpc[t] = "Delete",
         \A t \in Tasks : history[t] # <<>> => sg'[t] = sg[t]
  PROVE  KInv'
<1>1. Live' = Live /\ \A o, p : LiveIn(o, p)' <=> LiveIn(o, p)
  BY SteadyLive
<1>2. ServersLive'
  BY <1>1 DEF KInv, ServersLive
<1>3. HistoryLive'
  <2> SUFFICES ASSUME NEW t \in Tasks, NEW i \in 1..Len(history[t]) PROVE LiveIn(history[t][i], sg[t])'
    BY DEF HistoryLive
  <2>1. sg'[t] = sg[t]
    <3>1. history[t] # <<>>
      OBVIOUS
    <3> QED
      BY <3>1
  <2>2. LiveIn(history[t][i], sg[t])
    BY DEF KInv, HistoryLive
  <2> QED
    BY <1>1, <2>1, <2>2 DEF LiveIn, Steady
<1>4. Counted'
  <2> SUFFICES ASSUME NEW o \in Live
               PROVE  IsFiniteSet(TaskUses(o)') /\ endpoint'[o].ref = Cardinality(TaskUses(o)') + InPolicy(o)'
    BY <1>1 DEF Counted
  <2>1. TaskUses(o)' = TaskUses(o)
    BY HeldSame
  <2>2. InPolicy(o)' = InPolicy(o)
    BY DEF InPolicy, Steady
  <2> QED
    BY <2>1, <2>2 DEF KInv, Counted, Steady
<1>5. Deleting'
  <2> SUFFICES ASSUME NEW t \in Tasks, tpc[t] = "Delete" PROVE history[t] # <<>> /\ endpoint'[Head(history[t])].ref = 0
    BY DEF KInv, Deleting
  <2>1. history[t] # <<>> /\ endpoint[Head(history[t])].ref = 0
    BY DEF KInv, Deleting
  <2>2. history[t] \in Seq(Endpoints)
    BY DEF KInv, KeepTypes
  <2>3. Len(history[t]) \in Nat /\ Len(history[t]) # 0 /\ Head(history[t]) = history[t][1]
    BY <2>1, <2>2, LenProperties, EmptySeq, HeadTailProperties
  <2>4. Head(history[t]) \in Live
    BY <2>3 DEF KInv, HistoryLive, LiveIn
  <2> QED
    BY <2>1, <2>4 DEF Steady
<1>6. TotalExact'
  <2> SUFFICES ASSUME NEW p \in Policies PROVE total_weight[p] = Sum(endpoint', Range(servers[p]))
    BY DEF TotalExact, KInv
  <2>1. Weighed(endpoint, Range(servers[p])) /\ \A o \in Range(servers[p]) : o \in Live
    BY ServerFacts DEF LiveIn
  <2>2. \A o \in Range(servers[p]) : endpoint'[o].weight = endpoint[o].weight
    BY <2>1 DEF Steady
  <2>3. Sum(endpoint', Range(servers[p])) = Sum(endpoint, Range(servers[p]))
    BY <2>1, <2>2, SumEq
  <2> QED
    BY <2>3 DEF KInv, TotalExact
<1> QED
  BY <1>2, <1>3, <1>4, <1>5, <1>6 DEF KInv

\* A task goes on, and nothing it holds changes.
LEMMA SteadyMove ==
  ASSUME KInv, NEW t \in Tasks, NEW to \in TaskStates \ {"Idle", "Delete"}, tpc[t] \notin {"Idle", "Delete"},
         tpc' = [tpc EXCEPT ![t] = to], Steady, UNCHANGED <<lists, total_weight, sg, history>>,
         breaker_list' \in [Policies -> Seq(Endpoints)], now' \in Nat,
         to \in Asking => history[t] # <<>>, to \in Selecting => servers[sg[t]] # <<>>
  PROVE  KInv'
<1>1. UNCHANGED <<policy, servers, pre_generated_vec>>
  BY DEF lists
<1>2. tpc'[t] = to /\ (\A u \in Tasks : u # t => tpc'[u] = tpc[u]) /\ tpc' \in [Tasks -> TaskStates]
  BY DEF KInv, TaskTypes
<1>3. TaskTypes'
  BY <1>2 DEF KInv, TaskTypes
<1>4. TasksSound'
  BY <1>1, <1>2 DEF KInv, TasksSound
<1>5. VirtualSound'
  BY <1>1 DEF KInv, VirtualSound, NewPolicies
<1>6. KeepTypes'
  BY <1>1 DEF KInv, KeepTypes, Steady
<1>7. \A u \in Tasks : tpc'[u] = "Delete" <=> tpc[u] = "Delete"
  BY <1>2
<1> QED
  BY <1>1, <1>3, <1>4, <1>5, <1>6, <1>7, KeepFrame DEF KInv, TotalExact

\* A list of live servers without its first k members.
LEMMA ListSuffix ==
  ASSUME NEW X, NEW l \in Seq(X), NEW k \in 0..Len(l)
  PROVE  /\ Len(l) \in Nat /\ SubSeq(l, k + 1, Len(l)) \in Seq(X) /\ Len(SubSeq(l, k + 1, Len(l))) = Len(l) - k
         /\ \A i \in 1..(Len(l) - k) : k + i \in 1..Len(l) /\ SubSeq(l, k + 1, Len(l))[i] = l[k + i]
<1>1. Len(l) \in Nat /\ k \in Nat /\ k <= Len(l)
  BY LenProperties
<1>2. \A i \in (k + 1)..Len(l) : l[i] \in X
  <2>1. \A i \in (k + 1)..Len(l) : i \in 1..Len(l)
    BY <1>1
  <2> QED
    BY <2>1, ElementOfSeq
<1>3. k + 1 \in Int /\ Len(l) \in Int
  BY <1>1
<1>4. /\ SubSeq(l, k + 1, Len(l)) \in Seq(X)
      /\ Len(SubSeq(l, k + 1, Len(l))) = IF k + 1 <= Len(l) THEN Len(l) - (k + 1) + 1 ELSE 0
      /\ \A i \in 1..(Len(l) - (k + 1) + 1) : SubSeq(l, k + 1, Len(l))[i] = l[(k + 1) + i - 1]
  BY ONLY <1>2, <1>3, SubSeqProperties
<1>5. Len(SubSeq(l, k + 1, Len(l))) = Len(l) - k
  BY <1>1, <1>4
<1>6. ASSUME NEW i \in 1..(Len(l) - k) PROVE k + i \in 1..Len(l) /\ SubSeq(l, k + 1, Len(l))[i] = l[k + i]
  <2>1. i \in 1..(Len(l) - (k + 1) + 1) /\ k + i \in 1..Len(l) /\ (k + 1) + i - 1 = k + i
    BY <1>1
  <2> QED
    BY <1>4, <2>1
<1> QED
  BY <1>1, <1>4, <1>5, <1>6

\* The first k servers of a breaker list leave it.
Leaving(p, k) == {breaker_list[p][i] : i \in 1..k}

\* check_breaker_locked.
LEMMA LockedFacts ==
  ASSUME KInv, BInv, NEW p \in Policies, NEW k \in 0..Len(breaker_list[p]), CheckBreakerLocked(p, k)
  PROVE  /\ Steady /\ breaker_list' \in [Policies -> Seq(Endpoints)]
         /\ breaker_list'[p] = SubSeq(breaker_list[p], k + 1, Len(breaker_list[p]))
         /\ \A r \in Policies : r # p => breaker_list'[r] = breaker_list[r]
         /\ \A o \in Leaving(p, k) : LiveIn(o, p) /\ endpoint'[o].fail_count = MaxFails[endpoint[o].address] - 1
         /\ \A o \in Endpoints : o \notin Leaving(p, k) => endpoint'[o] = endpoint[o]
         /\ \A o \in Live : endpoint'[o].broken_timeout = endpoint[o].broken_timeout
<1> DEFINE back == Leaving(p, k)
<1>1. breaker_list[p] \in Seq(Endpoints) /\ Len(breaker_list[p]) \in Nat
  BY LenProperties DEF KInv, KeepTypes
<1>2. \A o \in back : LiveIn(o, p)
  <2>1. \A i \in 1..k : i \in 1..Len(breaker_list[p])
    BY <1>1
  <2> QED
    BY <2>1 DEF BInv, ListSound, Leaving
<1>3. /\ breaker_list' = [breaker_list EXCEPT ![p] = SubSeq(breaker_list[p], k + 1, Len(breaker_list[p]))]
      /\ endpoint' = [o \in Endpoints |->
           IF o \in back THEN [endpoint[o] EXCEPT !.fail_count = MaxFails[endpoint[o].address] - 1] ELSE endpoint[o]]
  BY DEF CheckBreakerLocked, Leaving
<1>4. SubSeq(breaker_list[p], k + 1, Len(breaker_list[p])) \in Seq(Endpoints)
  BY <1>1, ListSuffix
<1>5. /\ breaker_list' \in [Policies -> Seq(Endpoints)]
      /\ breaker_list'[p] = SubSeq(breaker_list[p], k + 1, Len(breaker_list[p]))
      /\ \A r \in Policies : r # p => breaker_list'[r] = breaker_list[r]
  BY <1>3, <1>4 DEF KInv, KeepTypes
<1> HIDE DEF back
<1>6. \A o \in Endpoints : o \notin back => endpoint'[o] = endpoint[o]
  BY <1>3
<1>7. ASSUME NEW o \in back
      PROVE  /\ endpoint'[o] \in Objects /\ endpoint'[o].state = endpoint[o].state /\ endpoint'[o].policy = endpoint[o].policy
             /\ endpoint'[o].weight = endpoint[o].weight /\ endpoint'[o].address = endpoint[o].address
             /\ endpoint'[o].ref = endpoint[o].ref /\ endpoint'[o].broken_timeout = endpoint[o].broken_timeout
             /\ endpoint'[o].fail_count = MaxFails[endpoint[o].address] - 1
  <2>1. o \in Endpoints /\ endpoint[o] \in Objects /\ MaxFails[endpoint[o].address] - 1 \in Nat
    BY <1>2, LiveFacts DEF LiveIn, KInv
  <2>2. endpoint'[o] = [endpoint[o] EXCEPT !.fail_count = MaxFails[endpoint[o].address] - 1]
    BY <1>3, <2>1
  <2> QED
    BY <2>1, <2>2 DEF Objects
<1>8. endpoint' \in [Endpoints -> Objects \cup {NoEndpoint}]
  <2>1. \A o \in Endpoints : endpoint'[o] \in Objects \cup {NoEndpoint}
    BY <1>6, <1>7 DEF KInv, KeepTypes
  <2> QED
    BY <1>3, <2>1
<1>9. Steady
  BY <1>6, <1>7, <1>8 DEF Steady, Live
<1>10. \A o \in Live : endpoint'[o].broken_timeout = endpoint[o].broken_timeout
  BY <1>6, <1>7 DEF Live
<1> QED
  BY <1>2, <1>5, <1>6, <1>7, <1>9, <1>10 DEF back

-----------------------------------------------------------------------------
(* The steps that count no reference *)

\* The server a task is asking.
LEMMA Asked ==
  ASSUME KInv, NEW t \in Tasks, tpc[t] \in Asking
  PROVE  /\ LiveIn(Last(history[t]), sg[t]) /\ Last(history[t]) \in Live /\ sg[t] \in Policies
         /\ history[t] # <<>>
<1>1. history[t] # <<>> /\ history[t] \in Seq(Endpoints) /\ sg[t] \in Policies
  BY DEF KInv, TasksSound, KeepTypes, TaskTypes, Asking
<1>2. Len(history[t]) \in Nat /\ Len(history[t]) # 0
  BY <1>1, LenProperties, EmptySeq
<1>3. Len(history[t]) \in 1..Len(history[t])
  BY <1>2
<1> QED
  BY <1>1, <1>3 DEF KInv, HistoryLive, LiveIn, Last

\* check_breaker takes a part of the list.
LEMMA PrefixIn ==
  ASSUME KInv, NEW p \in Policies
  PROVE  /\ ExpiredPrefix(p) \in 0..Len(breaker_list[p]) /\ Len(breaker_list[p]) \in Nat
         /\ \A i \in 1..ExpiredPrefix(p) : Expired(breaker_list[p][i])
<1>1. Len(breaker_list[p]) \in Nat
  BY LenProperties DEF KInv, KeepTypes
<1> DEFINE E == {k \in 0..Len(breaker_list[p]) : \A i \in 1..k : Expired(breaker_list[p][i])}
<1>2. 0 \in E
  BY <1>1
<1>3. E \in SUBSET (0..Len(breaker_list[p])) /\ E # {}
  BY <1>2
<1>4. Max(E) \in E
  <2> HIDE DEF E
  <2> QED
    BY <1>1, <1>3, MaxIn
<1> QED
  BY <1>1, <1>4 DEF ExpiredPrefix

\* The start of select.
LEMMA CheckBreakerKeeps ==
  ASSUME KInv, BInv, NEW t \in Tasks, CheckBreaker(t)
  PROVE  KInv'
<1>1. tpc[t] = "Select" /\ UNCHANGED <<lists, total_weight, sg, now>> /\ sg[t] \in Policies
  BY DEF CheckBreaker, KInv, TaskTypes
<1>2. now' \in Nat
  BY <1>1 DEF KInv, KeepTypes
<1>3. CASE Unavailable(t) /\ UNCHANGED breaker_list
  <2>1. Steady
    BY <1>3, SteadySame DEF Unavailable, KInv
  <2>2. "Release" \in TaskStates \ {"Idle", "Delete"} /\ "Release" \notin Asking /\ "Release" \notin Selecting
    BY DEF TaskStates, Asking, Selecting
  <2>3. tpc' = [tpc EXCEPT ![t] = "Release"] /\ UNCHANGED history
    BY <1>3 DEF Unavailable
  <2>4. breaker_list' \in [Policies -> Seq(Endpoints)]
    BY <1>3 DEF KInv, KeepTypes
  <2> QED
    BY <1>1, <1>2, <2>1, <2>2, <2>3, <2>4, SteadyMove
<1>4. CASE /\ servers[sg[t]] # <<>> /\ tpc' = [tpc EXCEPT ![t] = "First"]
           /\ CheckBreakerLocked(sg[t], ExpiredPrefix(sg[t])) /\ UNCHANGED history
  <2>1. PICK p \in Policies : p = sg[t]
    BY <1>1
  <2>2. PICK k \in 0..Len(breaker_list[p]) : k = ExpiredPrefix(p)
    BY <2>1, PrefixIn
  <2>3. Steady /\ breaker_list' \in [Policies -> Seq(Endpoints)]
    BY <1>4, <2>1, <2>2, LockedFacts
  <2>4. "First" \in TaskStates \ {"Idle", "Delete"} /\ "First" \notin Asking
    BY DEF TaskStates, Asking, Selecting
  <2> QED
    BY <1>1, <1>2, <1>4, <2>3, <2>4, SteadyMove
<1> QED
  BY <1>3, <1>4 DEF CheckBreaker

\* try_clear_breaker.
LEMMA TryClearKeeps ==
  ASSUME KInv, BInv, NEW t \in Tasks, TryClearBreaker(t)
  PROVE  KInv'
<1>1. /\ tpc[t] = "Clear" /\ tpc' = [tpc EXCEPT ![t] = "Second"] /\ UNCHANGED <<lists, total_weight, sg, history, now>>
      /\ sg[t] \in Policies /\ servers[sg[t]] # <<>>
  BY DEF TryClearBreaker, Goto, KInv, TaskTypes, TasksSound, Selecting
<1>2. PICK p \in Policies : p = sg[t]
  BY <1>1
<1>3. Len(breaker_list[p]) \in Nat /\ now' \in Nat
  BY <1>1, LenProperties DEF KInv, KeepTypes
<1>4. PICK k \in 0..Len(breaker_list[p]) : CheckBreakerLocked(p, k)
  <2>1. 0 \in 0..Len(breaker_list[p]) /\ Len(breaker_list[p]) \in 0..Len(breaker_list[p])
    BY <1>3
  <2> QED
    BY <1>2, <2>1 DEF TryClearBreaker
<1>5. Steady /\ breaker_list' \in [Policies -> Seq(Endpoints)]
  BY <1>4, LockedFacts
<1>6. "Second" \in TaskStates \ {"Idle", "Delete"} /\ "Second" \notin Asking
  BY DEF TaskStates, Asking, Selecting
<1> QED
  BY <1>1, <1>3, <1>5, <1>6, SteadyMove

\* success, up to the read of the list.
LEMMA SuccessKeeps ==
  ASSUME KInv, NEW t \in Tasks, Success(t) \/ SuccessCheck(t)
  PROVE  KInv'
<1>1. tpc[t] \in Asking /\ UNCHANGED <<lists, breaker_list, total_weight, sg, history, now>>
  BY DEF Success, SuccessCheck, Goto, counts, Asking
<1>2. LiveIn(Last(history[t]), sg[t]) /\ Last(history[t]) \in Live /\ sg[t] \in Policies /\ history[t] # <<>>
  BY <1>1, Asked
<1>3. breaker_list' \in [Policies -> Seq(Endpoints)] /\ now' \in Nat
  BY <1>1 DEF KInv, KeepTypes
<1>4. Steady
  <2>1. CASE Success(t)
    <3>1. PICK o \in Live : o = Last(history[t])
      BY <1>2
    <3> QED
      BY <2>1, <3>1, SteadyFails DEF Success, KInv
  <2>2. CASE SuccessCheck(t)
    BY <2>2, SteadySame DEF SuccessCheck, KInv
  <2> QED
    BY <2>1, <2>2
<1>5. PICK to \in {"Succeeded", "Recover", "Release"} : tpc' = [tpc EXCEPT ![t] = to]
  BY DEF Success, SuccessCheck, Goto
<1>6. to \in TaskStates \ {"Idle", "Delete"} /\ to \notin Selecting /\ tpc[t] \notin {"Idle", "Delete"}
  BY <1>1, <1>5 DEF TaskStates, Asking, Selecting
<1> QED
  BY <1>1, <1>2, <1>3, <1>4, <1>5, <1>6, SteadyMove

\* recover_server_from_breaker.
LEMMA RecoverKeeps ==
  ASSUME KInv, NEW t \in Tasks, RecoverServer(t)
  PROVE  KInv'
<1>1. /\ tpc[t] = "Recover" /\ tpc' = [tpc EXCEPT ![t] = "Release"]
      /\ UNCHANGED <<lists, total_weight, sg, history, now>>
      /\ endpoint' = [endpoint EXCEPT ![Last(history[t])].fail_count = 0]
      /\ breaker_list' = [breaker_list EXCEPT ![sg[t]] = Without(breaker_list[sg[t]], {Last(history[t])})]
  BY DEF RecoverServer, Goto
<1>2. tpc[t] \in Asking /\ "Release" \notin Asking /\ "Release" \notin Selecting /\ "Release" \in TaskStates \ {"Idle", "Delete"}
  BY <1>1 DEF TaskStates, Asking, Selecting
<1>3. LiveIn(Last(history[t]), sg[t]) /\ Last(history[t]) \in Live /\ sg[t] \in Policies /\ history[t] # <<>>
  BY <1>2, Asked
<1>4. PICK o \in Live, p \in Policies : o = Last(history[t]) /\ p = sg[t]
  BY <1>3
<1>5. Steady
  BY <1>1, <1>4, SteadyFails DEF KInv
<1>6. breaker_list[p] \in Seq(Endpoints) /\ now' \in Nat
  BY <1>1 DEF KInv, KeepTypes
<1>7. Without(breaker_list[p], {o}) \in Seq(Endpoints)
  BY <1>6, WithoutIs
<1>8. breaker_list' \in [Policies -> Seq(Endpoints)]
  BY <1>1, <1>4, <1>7 DEF KInv, KeepTypes
<1> QED
  BY <1>1, <1>2, <1>5, <1>6, <1>8, SteadyMove

\* fuse_server_to_breaker, for a server of the policy.
LEMMA FuseFacts ==
  ASSUME KInv, NEW p \in Policies, NEW o \in Live, NEW n \in Nat, FuseServerToBreaker(p, o, n)
  PROVE  /\ Steady /\ breaker_list' \in [Policies -> Seq(Endpoints)]
         /\ endpoint'[o].fail_count = n
         /\ \A q \in Endpoints : q # o => endpoint'[q] = endpoint[q]
         /\ Listed(o) => breaker_list' = breaker_list /\ endpoint'[o].broken_timeout = endpoint[o].broken_timeout
         /\ ~Listed(o) => /\ breaker_list' = [breaker_list EXCEPT ![p] = Append(@, o)]
                          /\ endpoint'[o].broken_timeout = now + Mttr
<1>1. o \in Endpoints /\ endpoint[o] \in Objects /\ now + Mttr \in Nat
  BY LiveFacts, UpstreamAssumption DEF KInv, KeepTypes
<1>2. CASE Listed(o)
  <2>1. endpoint' = [endpoint EXCEPT ![o].fail_count = n] /\ UNCHANGED breaker_list
    BY <1>2 DEF FuseServerToBreaker
  <2>2. /\ Steady /\ endpoint'[o].fail_count = n /\ endpoint'[o].broken_timeout = endpoint[o].broken_timeout
        /\ \A q \in Endpoints : q # o => endpoint'[q] = endpoint[q]
    BY <2>1, SteadyFails DEF KInv
  <2> QED
    BY <1>2, <2>1, <2>2 DEF KInv, KeepTypes
<1>3. CASE ~Listed(o)
  <2> DEFINE e == [endpoint[o] EXCEPT !.fail_count = n, !.broken_timeout = now + Mttr]
  <2>1. endpoint' = [endpoint EXCEPT ![o] = e] /\ breaker_list' = [breaker_list EXCEPT ![p] = Append(@, o)]
    BY <1>3 DEF FuseServerToBreaker
  <2>2. /\ e \in Objects /\ e.state = endpoint[o].state /\ e.policy = endpoint[o].policy
        /\ e.weight = endpoint[o].weight /\ e.address = endpoint[o].address /\ e.ref = endpoint[o].ref
        /\ e.fail_count = n /\ e.broken_timeout = now + Mttr
    BY <1>1 DEF Objects
  <2> HIDE DEF e
  <2>3. endpoint'[o] = e /\ \A q \in Endpoints : q # o => endpoint'[q] = endpoint[q]
    BY <1>1, <2>1 DEF KInv, KeepTypes
  <2>4. endpoint' \in [Endpoints -> Objects \cup {NoEndpoint}]
    BY <2>1, <2>2 DEF KInv, KeepTypes
  <2>5. Steady
    BY <2>2, <2>3, <2>4 DEF Steady, Live
  <2>6. Append(breaker_list[p], o) \in Seq(Endpoints)
    BY <1>1, AppendProperties DEF KInv, KeepTypes
  <2>7. breaker_list' \in [Policies -> Seq(Endpoints)]
    BY <2>1, <2>6 DEF KInv, KeepTypes
  <2> QED
    BY <1>3, <2>1, <2>2, <2>3, <2>5, <2>7
<1> QED
  BY <1>2, <1>3

\* failed.
LEMMA FailedKeeps ==
  ASSUME KInv, NEW t \in Tasks, Failed(t)
  PROVE  KInv'
<1>1. tpc[t] = "Sent" /\ tpc[t] \in Asking /\ UNCHANGED <<lists, total_weight, sg, history, now>>
  BY DEF Failed, Asking
<1>2. Last(history[t]) \in Live /\ sg[t] \in Policies
  BY <1>1, Asked
<1>3. PICK o \in Live, p \in Policies : o = Last(history[t]) /\ p = sg[t]
  BY <1>2
<1>4. PICK n \in Nat : n = Fails(o) + 1
  BY LiveFacts DEF Fails, KInv
<1>5. Steady /\ breaker_list' \in [Policies -> Seq(Endpoints)]
  <2>1. CASE FuseServerToBreaker(p, o, n)
    BY <2>1, FuseFacts
  <2>2. CASE endpoint' = [endpoint EXCEPT ![o].fail_count = n] /\ UNCHANGED breaker_list
    <3>1. Steady
      BY <2>2, SteadyFails DEF KInv
    <3> QED
      BY <2>2, <3>1 DEF KInv, KeepTypes
  <2> QED
    BY <1>3, <1>4, <2>1, <2>2 DEF Failed
<1>6. PICK to \in {"Select", "Release"} : tpc' = [tpc EXCEPT ![t] = to]
  BY DEF Failed
<1>7. to \in TaskStates \ {"Idle", "Delete"} /\ to \notin Selecting /\ to \notin Asking
  BY <1>6 DEF TaskStates, Asking, Selecting
<1>8. now' \in Nat
  BY <1>1 DEF KInv, KeepTypes
<1> QED
  BY <1>1, <1>5, <1>6, <1>7, <1>8, SteadyMove

\* A task gives up, looks for another server in one step or more, or goes round the
\* ring.
LEMMA GoesOn ==
  ASSUME KInv, NEW t \in Tasks, tpc[t] \in Selecting, NEW to \in {"Release", "Another", "Clear", "Second", "Spin"},
         tpc' = [tpc EXCEPT ![t] = to], UNCHANGED <<lists, breaker_list, counts, endpoint, sg, history, now>>
  PROVE  KInv'
<1>1. Steady
  BY SteadySame DEF KInv
<1>2. to \in TaskStates \ {"Idle", "Delete"} /\ to \notin Asking /\ tpc[t] \notin {"Idle", "Delete"}
  BY DEF TaskStates, Asking, Selecting
<1>3. servers[sg[t]] # <<>>
  BY DEF KInv, TasksSound
<1>4. breaker_list' \in [Policies -> Seq(Endpoints)] /\ now' \in Nat
  BY DEF KInv, KeepTypes
<1> QED
  BY <1>1, <1>2, <1>3, <1>4, SteadyMove DEF counts

-----------------------------------------------------------------------------
(* The steps that count references *)

\* ref changes, and nothing else of a server.
LEMMA RefFacts ==
  ASSUME KeepTypes, NEW o \in Live, NEW n \in Int, endpoint' = [endpoint EXCEPT ![o].ref = n]
  PROVE  /\ endpoint' \in [Endpoints -> Objects \cup {NoEndpoint}]
         /\ endpoint'[o].ref = n /\ \A q \in Endpoints : q # o => endpoint'[q] = endpoint[q]
         /\ Live' = Live /\ \A q, p : LiveIn(q, p)' <=> LiveIn(q, p)
         /\ \A q \in Live : /\ endpoint'[q].policy = endpoint[q].policy /\ endpoint'[q].weight = endpoint[q].weight
                            /\ endpoint'[q].address = endpoint[q].address
                            /\ endpoint'[q].fail_count = endpoint[q].fail_count
                            /\ endpoint'[q].broken_timeout = endpoint[q].broken_timeout
<1>1. o \in Endpoints /\ endpoint[o] \in Objects
  BY LiveFacts
<1> DEFINE e == [endpoint[o] EXCEPT !.ref = n]
<1>2. endpoint' = [endpoint EXCEPT ![o] = e]
  BY <1>1 DEF KeepTypes
<1>3. /\ e \in Objects /\ e.state = endpoint[o].state /\ e.policy = endpoint[o].policy
      /\ e.weight = endpoint[o].weight /\ e.address = endpoint[o].address /\ e.ref = n
      /\ e.fail_count = endpoint[o].fail_count /\ e.broken_timeout = endpoint[o].broken_timeout
  BY <1>1 DEF Objects
<1> HIDE DEF e
<1>4. endpoint'[o] = e /\ \A q \in Endpoints : q # o => endpoint'[q] = endpoint[q]
  BY <1>1, <1>2 DEF KeepTypes
<1>5. endpoint' \in [Endpoints -> Objects \cup {NoEndpoint}]
  BY <1>2, <1>3 DEF KeepTypes
<1>6. \A q \in Endpoints : endpoint'[q].state = endpoint[q].state /\ endpoint'[q].policy = endpoint[q].policy
  BY <1>3, <1>4
<1>7. Live' = Live
  BY <1>6 DEF Live
<1>8. ASSUME NEW q, NEW p PROVE LiveIn(q, p)' <=> LiveIn(q, p)
  BY <1>6, <1>7 DEF LiveIn, Live
<1>9. ASSUME NEW q \in Live
      PROVE  /\ endpoint'[q].policy = endpoint[q].policy /\ endpoint'[q].weight = endpoint[q].weight
             /\ endpoint'[q].address = endpoint[q].address
             /\ endpoint'[q].fail_count = endpoint[q].fail_count
             /\ endpoint'[q].broken_timeout = endpoint[q].broken_timeout
  <2>1. q \in Endpoints
    BY DEF Live
  <2> QED
    BY <1>3, <1>4, <2>1
<1> QED
  BY <1>3, <1>4, <1>5, <1>7, <1>8, <1>9

\* The totals, when no weight changes.
LEMMA TotalSame ==
  ASSUME KInv, UNCHANGED <<servers, total_weight, pre_generated_vec>>,
         \A q \in Live : endpoint'[q].weight = endpoint[q].weight
  PROVE  TotalExact'
<1> SUFFICES ASSUME NEW p \in Policies PROVE total_weight[p] = Sum(endpoint', Range(servers[p]))
  BY DEF TotalExact, KInv
<1>1. Weighed(endpoint, Range(servers[p])) /\ \A q \in Range(servers[p]) : q \in Live
  BY ServerFacts DEF LiveIn
<1>2. \A q \in Range(servers[p]) : endpoint'[q].weight = endpoint[q].weight
  BY <1>1
<1>3. Sum(endpoint', Range(servers[p])) = Sum(endpoint, Range(servers[p]))
  BY <1>1, <1>2, SumEq
<1> QED
  BY <1>3 DEF KInv, TotalExact

\* A reference of a task or of the policy counts.
LEMMA RefPositive ==
  ASSUME KInv, NEW o \in Live
  PROVE  /\ Cardinality(TaskUses(o)) \in Nat /\ InPolicy(o) \in {0, 1}
         /\ endpoint[o].ref = Cardinality(TaskUses(o)) + InPolicy(o)
         /\ endpoint[o].ref = 0 => TaskUses(o) = {} /\ InPolicy(o) = 0
         /\ endpoint[o].ref = 1 /\ InPolicy(o) = 1 => TaskUses(o) = {}
<1>1. IsFiniteSet(TaskUses(o)) /\ endpoint[o].ref = Cardinality(TaskUses(o)) + InPolicy(o)
  BY DEF KInv, Counted
<1>2. Cardinality(TaskUses(o)) \in Nat /\ (Cardinality(TaskUses(o)) = 0 <=> TaskUses(o) = {})
  BY <1>1, FS_CardinalityType, FS_EmptySet
<1>3. InPolicy(o) \in {0, 1}
  BY DEF InPolicy
<1> QED
  BY <1>1, <1>2, <1>3

\* The entry that a task is deleting.
LEMMA HeadLive ==
  ASSUME KInv, NEW t \in Tasks, history[t] # <<>>
  PROVE  /\ Head(history[t]) \in Live /\ Head(history[t]) = history[t][1] /\ LiveIn(Head(history[t]), sg[t])
         /\ history[t] \in Seq(Endpoints) /\ Len(history[t]) \in Nat /\ 1 \in 1..Len(history[t])
         /\ Tail(history[t]) \in Seq(Endpoints) /\ Len(Tail(history[t])) = Len(history[t]) - 1
         /\ \A i \in 1..Len(Tail(history[t])) : i + 1 \in 1..Len(history[t]) /\ Tail(history[t])[i] = history[t][i + 1]
<1>1. history[t] \in Seq(Endpoints)
  BY DEF KInv, KeepTypes
<1>2. Len(history[t]) \in Nat /\ Len(history[t]) # 0 /\ Head(history[t]) = history[t][1]
  BY <1>1, LenProperties, EmptySeq, HeadTailProperties
<1>3. /\ Tail(history[t]) \in Seq(Endpoints) /\ Len(Tail(history[t])) = Len(history[t]) - 1
      /\ \A i \in 1..Len(Tail(history[t])) : Tail(history[t])[i] = history[t][i + 1]
  BY <1>1, HeadTailProperties
<1>4. 1 \in 1..Len(history[t]) /\ \A i \in 1..(Len(history[t]) - 1) : i + 1 \in 1..Len(history[t])
  BY <1>2
<1>5. LiveIn(history[t][1], sg[t])
  BY <1>4 DEF KInv, HistoryLive
<1> QED
  BY <1>1, <1>2, <1>3, <1>4, <1>5 DEF LiveIn

\* Places of the histories, as far as they are still held.
LEMMA HoldingType ==
  ASSUME KInv PROVE Holding \in [Tasks -> Seq(Endpoints)]
<1>1. ASSUME NEW t \in Tasks PROVE Held(t) \in Seq(Endpoints)
  <2>1. history[t] \in Seq(Endpoints)
    BY DEF KInv, KeepTypes
  <2>2. CASE tpc[t] = "Delete"
    BY <2>2, HeadLive DEF Held, KInv, Deleting
  <2>3. CASE tpc[t] # "Delete"
    BY <2>1, <2>3 DEF Held
  <2> QED
    BY <2>2, <2>3
<1> QED
  BY <1>1 DEF Holding

(***************************************************************************)
(* The end of select: a server of the policy has one reference more, and   *)
(* the history one entry.                                                  *)
(***************************************************************************)
LEMMA SelectKeeps ==
  ASSUME KInv, NEW t \in Tasks, tpc[t] \in Selecting, NEW o \in Range(servers[sg[t]]), Select(t, o),
         UNCHANGED <<lists, breaker_list, counts, sg, now>>
  PROVE  KInv'
<1>1. PICK p \in Policies : p = sg[t] /\ LiveIn(o, p) /\ Contains(servers[p], o) /\ o \in Live
  <2>1. sg[t] \in Policies
    BY DEF KInv, TaskTypes, Selecting
  <2> QED
    BY <2>1, ServerFacts DEF LiveIn
<1>2. UNCHANGED <<policy, servers, pre_generated_vec, total_weight, breaker_list, sg, now>>
  BY DEF lists, counts
<1>3. PICK n \in Int : n = endpoint[o].ref + 1
  BY <1>1, LiveFacts DEF KInv
<1>4. endpoint' = [endpoint EXCEPT ![o].ref = n]
  BY <1>3 DEF Select
<1>5. /\ endpoint' \in [Endpoints -> Objects \cup {NoEndpoint}]
      /\ endpoint'[o].ref = n /\ \A q \in Endpoints : q # o => endpoint'[q] = endpoint[q]
      /\ Live' = Live /\ \A q, r : LiveIn(q, r)' <=> LiveIn(q, r)
      /\ \A q \in Live : endpoint'[q].policy = endpoint[q].policy /\ endpoint'[q].weight = endpoint[q].weight
  BY <1>1, <1>4, RefFacts DEF KInv
<1>6. o \in Endpoints /\ history[t] \in Seq(Endpoints) /\ Len(history[t]) \in Nat
  BY <1>1, LenProperties DEF Live, KInv, KeepTypes
<1>7. /\ history' \in [Tasks -> Seq(Endpoints)] /\ history'[t] = Append(history[t], o)
      /\ \A u \in Tasks : u # t => history'[u] = history[u]
      /\ Len(history'[t]) = Len(history[t]) + 1 /\ history'[t][Len(history[t]) + 1] = o
      /\ \A i \in 1..Len(history[t]) : history'[t][i] = history[t][i]
  <2>1. Append(history[t], o) \in Seq(Endpoints)
    BY <1>6, AppendProperties
  <2>2. /\ history' \in [Tasks -> Seq(Endpoints)] /\ history'[t] = Append(history[t], o)
        /\ \A u \in Tasks : u # t => history'[u] = history[u]
    BY <2>1 DEF Select, KInv, KeepTypes
  <2> QED
    BY <1>6, <2>2, AppendProperties
<1>8. /\ tpc' \in [Tasks -> TaskStates] /\ tpc'[t] = "Sent" /\ \A u \in Tasks : u # t => tpc'[u] = tpc[u]
  <2>1. "Sent" \in TaskStates
    BY DEF TaskStates, Asking
  <2> QED
    BY <2>1 DEF Select, KInv, TaskTypes
<1>9. KeepTypes' /\ TaskTypes' /\ VirtualSound'
  BY <1>1, <1>2, <1>5, <1>7, <1>8 DEF KInv, KeepTypes, TaskTypes, VirtualSound, NewPolicies
<1>10. TotalExact'
  BY <1>2, <1>5, TotalSame
<1>11. ServersLive'
  BY <1>2, <1>5 DEF KInv, ServersLive
<1>12. HistoryLive'
  <2> SUFFICES ASSUME NEW u \in Tasks, NEW i \in 1..Len(history'[u]) PROVE LiveIn(history'[u][i], sg[u])
    BY <1>2, <1>5 DEF HistoryLive, LiveIn
  <2>1. CASE u # t
    BY <1>7, <2>1 DEF KInv, HistoryLive
  <2>2. CASE u = t
    <3>1. i \in 1..Len(history[t]) \/ i = Len(history[t]) + 1
      BY <1>6, <1>7, <2>2
    <3> QED
      BY <1>1, <1>7, <2>2, <3>1 DEF KInv, HistoryLive
  <2> QED
    BY <2>1, <2>2
<1>13. Counted'
  <2>1. Holding'[t] = Append(Holding[t], o) /\ \A u \in Tasks : u # t => Holding'[u] = Holding[u]
    <3>1. \A u \in Tasks : u # t => Held(u)' = Held(u)
      BY <1>7, <1>8 DEF Held
    <3>2. Held(t)' = Append(Held(t), o)
      BY <1>7, <1>8 DEF Held, Selecting
    <3> QED
      BY <3>1, <3>2 DEF Holding
  <2>2. PICK h \in [Tasks -> Seq(Endpoints)] : h = Holding
    BY HoldingType
  <2>3. PICK h2 : h2 = Holding'
    OBVIOUS
  <2> SUFFICES ASSUME NEW q \in Live
               PROVE  IsFiniteSet(TaskUses(q)') /\ endpoint'[q].ref = Cardinality(TaskUses(q)') + InPolicy(q)'
    BY <1>5 DEF Counted
  <2>4. TaskUses(q) = Places(h, q) /\ TaskUses(q)' = Places(h2, q)
    <3>1. TaskUses(q)' = Places(Holding', q)
      BY DEF TaskUses, Places, Holding
    <3> QED
      BY <2>1, <2>2, <2>3, <3>1, UsesArePlaces
  <2>5. IsFiniteSet(TaskUses(q)) /\ endpoint[q].ref = Cardinality(TaskUses(q)) + InPolicy(q)
    BY DEF KInv, Counted
  <2>6. /\ IsFiniteSet(Places(h2, q))
        /\ Cardinality(Places(h2, q)) = Cardinality(Places(h, q)) + (IF q = o THEN 1 ELSE 0)
    <3>1. IsFiniteSet(Places(h, q))
      BY <2>4, <2>5
    <3>2. OneMore(h, h2, t, o)
      BY <1>6, <2>1, <2>2, <2>3 DEF OneMore
    <3> QED
      BY <3>1, <3>2, PlacesAppend
  <2>7. InPolicy(q)' = InPolicy(q) /\ Cardinality(TaskUses(q)) \in Nat /\ InPolicy(q) \in {0, 1}
    BY <1>2, <1>5, RefPositive DEF InPolicy
  <2>8. endpoint'[q].ref = endpoint[q].ref + (IF q = o THEN 1 ELSE 0)
    <3>1. q \in Endpoints /\ endpoint[q].ref \in Int
      BY LiveFacts DEF KInv
    <3> QED
      BY <1>3, <1>5, <3>1
  <2> QED
    BY <2>4, <2>5, <2>6, <2>7, <2>8
<1>14. Deleting'
  <2>1. ASSUME NEW u \in Tasks, tpc'[u] = "Delete"
        PROVE  u # t /\ tpc[u] = "Delete" /\ history'[u] = history[u]
    BY <1>7, <1>8, <2>1
  <2>2. ASSUME NEW u \in Tasks, tpc'[u] = "Delete" PROVE history'[u] # <<>> /\ endpoint'[Head(history'[u])].ref = 0
    <3>1. history[u] # <<>> /\ endpoint[Head(history[u])].ref = 0
      BY <2>1, <2>2 DEF KInv, Deleting
    <3>2. Head(history[u]) \in Live
      BY <3>1, HeadLive
    <3>3. InPolicy(o) = 1
      BY <1>1 DEF InPolicy, LiveIn
    <3>4. Head(history[u]) # o
      BY <1>1, <3>1, <3>3, RefPositive
    <3>5. Head(history[u]) \in Endpoints
      BY <3>2 DEF Live
    <3> QED
      BY <1>5, <2>1, <2>2, <3>1, <3>4, <3>5
  <2> QED
    BY <2>1, <2>2 DEF KInv, Deleting
<1>15. TasksSound'
  <2>1. history'[t] # <<>>
    BY <1>6, <1>7
  <2> QED
    BY <1>2, <1>7, <1>8, <2>1 DEF KInv, TasksSound, Asking, Selecting
<1> QED
  BY <1>9, <1>10, <1>11, <1>12, <1>13, <1>14, <1>15 DEF KInv

\* The references to o, if the tasks hold as before but for one entry less of t.
LEMMA ReleaseKeeps ==
  ASSUME KInv, NEW t \in Tasks, Release(t)
  PROVE  KInv'
<1>1. tpc[t] = "Release" /\ UNCHANGED <<lists, breaker_list, counts, sg, now>> /\ sg[t] \in Policies
  BY DEF Release, KInv, TaskTypes
<1>2. UNCHANGED <<policy, servers, pre_generated_vec, total_weight, breaker_list, sg, now>>
  BY <1>1 DEF lists, counts
<1>3. CASE history[t] = <<>> /\ tpc' = [tpc EXCEPT ![t] = "Done"] /\ UNCHANGED <<endpoint, history>>
  <2>1. Steady
    BY <1>3, SteadySame DEF KInv
  <2>2. "Done" \in TaskStates \ {"Idle", "Delete"} /\ "Done" \notin Asking /\ "Done" \notin Selecting
    BY DEF TaskStates, Asking, Selecting
  <2>3. breaker_list' \in [Policies -> Seq(Endpoints)] /\ now' \in Nat
    BY <1>2 DEF KInv, KeepTypes
  <2> QED
    BY <1>1, <1>2, <1>3, <2>1, <2>2, <2>3, SteadyMove
<1>4. CASE history[t] # <<>>
  <2>1. PICK o \in Live : o = Head(history[t]) /\ LiveIn(o, sg[t])
    BY <1>4, HeadLive
  <2>2. /\ endpoint' = [endpoint EXCEPT ![o].ref = @ - 1]
        /\ \/ endpoint[o].ref = 1 /\ tpc' = [tpc EXCEPT ![t] = "Delete"] /\ UNCHANGED history
           \/ endpoint[o].ref # 1 /\ history' = [history EXCEPT ![t] = Tail(@)] /\ UNCHANGED tpc
    BY <1>4, <2>1 DEF Release
  <2>3. PICK n \in Int : n = endpoint[o].ref - 1
    BY LiveFacts DEF KInv
  <2>4. /\ endpoint' \in [Endpoints -> Objects \cup {NoEndpoint}]
        /\ endpoint'[o].ref = n /\ \A q \in Endpoints : q # o => endpoint'[q] = endpoint[q]
        /\ Live' = Live /\ \A q, r : LiveIn(q, r)' <=> LiveIn(q, r)
        /\ \A q \in Live : endpoint'[q].policy = endpoint[q].policy /\ endpoint'[q].weight = endpoint[q].weight
    BY <2>2, <2>3, RefFacts DEF KInv
  <2>5. /\ Head(history[t]) = history[t][1] /\ Len(history[t]) \in Nat /\ 1 \in 1..Len(history[t])
        /\ Tail(history[t]) \in Seq(Endpoints) /\ Len(Tail(history[t])) = Len(history[t]) - 1
        /\ \A i \in 1..Len(Tail(history[t])) : i + 1 \in 1..Len(history[t]) /\ Tail(history[t])[i] = history[t][i + 1]
    BY <1>4, HeadLive
  <2>6. /\ history' \in [Tasks -> Seq(Endpoints)] /\ tpc' \in [Tasks -> TaskStates]
        /\ \A u \in Tasks : u # t => history'[u] = history[u] /\ tpc'[u] = tpc[u]
        /\ \/ endpoint[o].ref = 1 /\ tpc'[t] = "Delete" /\ history'[t] = history[t]
           \/ endpoint[o].ref # 1 /\ tpc'[t] = "Release" /\ history'[t] = Tail(history[t])
    <3>1. "Delete" \in TaskStates
      BY DEF TaskStates
    <3> QED
      BY <1>1, <2>2, <2>5, <3>1 DEF KInv, KeepTypes, TaskTypes
  <2>7. <<t, 1>> \in TaskUses(o) /\ endpoint[o].ref # 0
    <3>1. Held(t) = history[t]
      BY <1>1 DEF Held
    <3>2. <<t, 1>> \in TaskUses(o)
      BY <2>1, <2>5, <3>1 DEF TaskUses
    <3> QED
      BY <3>2, RefPositive
  <2>8. KeepTypes' /\ TaskTypes' /\ VirtualSound'
    BY <1>1, <1>2, <2>4, <2>6 DEF KInv, KeepTypes, TaskTypes, VirtualSound, NewPolicies
  <2>9. TotalExact'
    BY <1>2, <2>4, TotalSame
  <2>10. ServersLive'
    BY <1>2, <2>4 DEF KInv, ServersLive
  <2>11. HistoryLive'
    <3> SUFFICES ASSUME NEW u \in Tasks, NEW i \in 1..Len(history'[u]) PROVE LiveIn(history'[u][i], sg[u])
      BY <1>2, <2>4 DEF HistoryLive, LiveIn
    <3>1. CASE history'[u] = history[u]
      BY <3>1 DEF KInv, HistoryLive
    <3>2. CASE u = t /\ history'[t] = Tail(history[t])
      BY <2>5, <3>2 DEF KInv, HistoryLive
    <3> QED
      BY <2>6, <3>1, <3>2
  <2>12. Counted'
    <3>1. Holding'[t] = Tail(Holding[t]) /\ Holding[t] = history[t] /\ \A u \in Tasks : u # t => Holding'[u] = Holding[u]
      <4>1. \A u \in Tasks : u # t => Held(u)' = Held(u)
        BY <2>6 DEF Held
      <4>2. Held(t)' = Tail(Held(t)) /\ Held(t) = history[t]
        BY <1>1, <2>6 DEF Held
      <4> QED
        BY <4>1, <4>2 DEF Holding
    <3>2. PICK h, h2 : h = Holding /\ h2 = Holding'
      OBVIOUS
    <3>3. OneLess(h, h2, t) /\ h[t] = history[t]
      BY <1>4, <3>1, <3>2, HoldingType DEF OneLess
    <3> SUFFICES ASSUME NEW q \in Live
                 PROVE  IsFiniteSet(TaskUses(q)') /\ endpoint'[q].ref = Cardinality(TaskUses(q)') + InPolicy(q)'
      BY <2>4 DEF Counted
    <3>4. TaskUses(q) = Places(h, q) /\ TaskUses(q)' = Places(h2, q)
      <4>1. TaskUses(q)' = Places(Holding', q)
        BY DEF TaskUses, Places, Holding
      <4> QED
        BY <3>2, <4>1, UsesArePlaces
    <3>5. IsFiniteSet(TaskUses(q)) /\ endpoint[q].ref = Cardinality(TaskUses(q)) + InPolicy(q)
      BY DEF KInv, Counted
    <3>6. /\ IsFiniteSet(Places(h2, q))
          /\ Cardinality(Places(h2, q)) = Cardinality(Places(h, q)) - (IF q = Head(h[t]) THEN 1 ELSE 0)
      <4>1. IsFiniteSet(Places(h, q))
        BY <3>4, <3>5
      <4> QED
        BY <3>3, <4>1, PlacesTail
    <3>7. InPolicy(q)' = InPolicy(q) /\ Cardinality(TaskUses(q)) \in Nat /\ InPolicy(q) \in {0, 1}
      BY <1>2, <2>4, RefPositive DEF InPolicy
    <3>8. endpoint'[q].ref = endpoint[q].ref - (IF q = o THEN 1 ELSE 0) /\ Head(h[t]) = o
      <4>1. q \in Endpoints /\ endpoint[q].ref \in Int
        BY LiveFacts DEF KInv
      <4> QED
        BY <2>1, <2>3, <2>4, <3>3, <4>1
    <3> QED
      BY <3>4, <3>5, <3>6, <3>7, <3>8
  <2>13. Deleting'
    <3>1. ASSUME NEW u \in Tasks, u # t, tpc'[u] = "Delete"
          PROVE  /\ tpc[u] = "Delete" /\ history'[u] = history[u] /\ history'[u] # <<>>
                 /\ endpoint'[Head(history'[u])].ref = 0 /\ Head(history[u]) # o
      <4>1. tpc[u] = "Delete" /\ history'[u] = history[u] /\ history[u] # <<>> /\ endpoint[Head(history[u])].ref = 0
        BY <2>6, <3>1 DEF KInv, Deleting
      <4>2. Head(history[u]) \in Endpoints
        BY <4>1, HeadLive DEF Live
      <4>3. Head(history[u]) # o
        BY <2>7, <4>1
      <4> QED
        BY <2>4, <4>1, <4>2, <4>3
    <3>2. ASSUME tpc'[t] = "Delete" PROVE history'[t] # <<>> /\ Head(history'[t]) = o /\ endpoint'[o].ref = 0
      BY <1>4, <2>1, <2>3, <2>4, <2>6, <3>2
    <3>3. \A u \in Tasks : tpc'[u] = "Delete" => history'[u] # <<>> /\ endpoint'[Head(history'[u])].ref = 0
      BY <3>1, <3>2
    <3>4. ASSUME NEW u \in Tasks, NEW v \in Tasks, tpc'[u] = "Delete", tpc'[v] = "Delete",
                 Head(history'[u]) = Head(history'[v])
          PROVE  u = v
      <4>1. CASE u # t /\ v # t
        BY <3>1, <3>4, <4>1 DEF KInv, Deleting
      <4>2. CASE u = t \/ v = t
        BY <3>1, <3>2, <3>4, <4>2
      <4> QED
        BY <4>1, <4>2
    <3> QED
      BY <3>3, <3>4 DEF Deleting
  <2>14. TasksSound'
    BY <1>2, <2>6 DEF KInv, TasksSound, Asking, Selecting
  <2> QED
    BY <2>8, <2>9, <2>10, <2>11, <2>12, <2>13, <2>14 DEF KInv
<1> QED
  BY <1>3, <1>4 DEF Release

\* A server without references is in no history but that of the task that deletes it.
LEMMA LastHolder ==
  ASSUME KInv, NEW t \in Tasks, tpc[t] = "Delete", NEW u \in Tasks, NEW i \in 1..Len(history[u]),
         history[u][i] = Head(history[t])
  PROVE  u = t /\ i = 1
<1>1. history[t] # <<>> /\ endpoint[Head(history[t])].ref = 0
  BY DEF KInv, Deleting
<1>2. PICK o \in Live : o = Head(history[t])
  BY <1>1, HeadLive
<1>3. TaskUses(o) = {}
  BY <1>1, <1>2, RefPositive
<1>4. ASSUME NEW v \in Tasks, NEW j \in 1..Len(Held(v)), Held(v)[j] = o PROVE FALSE
  <2>1. <<v, j>> \in {<<v, k>> : k \in {l \in 1..Len(Held(v)) : Held(v)[l] = o}}
    BY <1>4
  <2>2. <<v, j>> \in TaskUses(o)
    BY <2>1 DEF TaskUses
  <2> QED
    BY <1>3, <2>2
<1>5. tpc[u] = "Delete"
  BY <1>2, <1>4 DEF Held
<1>6. history[u] # <<>>
  BY <1>5 DEF KInv, Deleting
<1>7. /\ Head(history[u]) = history[u][1] /\ Len(history[u]) \in Nat
      /\ Len(Tail(history[u])) = Len(history[u]) - 1
      /\ \A j \in 1..Len(Tail(history[u])) : Tail(history[u])[j] = history[u][j + 1]
  BY <1>6, HeadLive
<1>8. i = 1
  <2>1. ASSUME i # 1 PROVE FALSE
    <3>1. i - 1 \in 1..Len(Tail(history[u])) /\ (i - 1) + 1 = i
      BY <1>7, <2>1
    <3>2. PICK j \in 1..Len(Tail(history[u])) : j + 1 = i
      BY <3>1
    <3>3. Held(u)[j] = o /\ j \in 1..Len(Held(u))
      BY <1>2, <1>5, <1>7, <3>2 DEF Held
    <3> QED
      BY <1>4, <3>3
  <2> QED
    BY <2>1
<1> QED
  BY <1>5, <1>7, <1>8 DEF KInv, Deleting

\* A task deletes a server: it was the last to refer to it.
LEMMA DeleteKeeps ==
  ASSUME KInv, NEW t \in Tasks, DeleteServer(t)
  PROVE  KInv'
<1>1. tpc[t] = "Delete" /\ UNCHANGED <<policy, servers, pre_generated_vec, total_weight, sg, now>> /\ sg[t] \in Policies
  BY DEF DeleteServer, Goto, lists, KInv, TaskTypes
<1>2. history[t] # <<>> /\ endpoint[Head(history[t])].ref = 0
  BY <1>1 DEF KInv, Deleting
<1>3. PICK o \in Live, p \in Policies : o = Head(history[t]) /\ p = sg[t]
  BY <1>1, <1>2, HeadLive
<1>4. o \in Endpoints /\ endpoint[o] \in Objects
  BY LiveFacts DEF KInv
<1> DEFINE e == [endpoint[o] EXCEPT !.state = "deleted"]
<1>5. endpoint' = [endpoint EXCEPT ![o] = e]
  BY <1>3, <1>4 DEF DeleteServer, KInv, KeepTypes
<1>6. e \in Objects /\ e.state = "deleted"
  BY <1>4 DEF Objects
<1> HIDE DEF e
<1>7. /\ endpoint'[o].state = "deleted" /\ \A q \in Endpoints : q # o => endpoint'[q] = endpoint[q]
      /\ endpoint' \in [Endpoints -> Objects \cup {NoEndpoint}]
  BY <1>4, <1>5, <1>6 DEF KInv, KeepTypes
<1>8. Live' = Live \ {o} /\ \A q, r : q # o => (LiveIn(q, r)' <=> LiveIn(q, r))
  <2>1. Live' = Live \ {o}
    BY <1>7 DEF Live
  <2>2. ASSUME NEW q, NEW r, q # o PROVE LiveIn(q, r)' <=> LiveIn(q, r)
    BY <1>7, <2>1, <2>2 DEF LiveIn, Live
  <2> QED
    BY <2>1, <2>2
<1>9. /\ tpc' \in [Tasks -> TaskStates] /\ history' \in [Tasks -> Seq(Endpoints)]
      /\ tpc'[t] = "Release" /\ history'[t] = Tail(history[t])
      /\ \A u \in Tasks : u # t => history'[u] = history[u] /\ tpc'[u] = tpc[u]
  <2>1. "Release" \in TaskStates /\ Tail(history[t]) \in Seq(Endpoints)
    BY <1>2, HeadLive DEF TaskStates
  <2> QED
    BY <2>1 DEF DeleteServer, Goto, KInv, KeepTypes, TaskTypes
<1>10. breaker_list' \in [Policies -> Seq(Endpoints)]
  <2>1. breaker_list' = [breaker_list EXCEPT ![p] = Without(breaker_list[p], {o})]
    BY <1>3 DEF DeleteServer, PreDeleteServers
  <2>2. breaker_list[p] \in Seq(Endpoints)
    BY DEF KInv, KeepTypes
  <2>3. Without(breaker_list[p], {o}) \in Seq(Endpoints)
    BY <2>2, WithoutIs
  <2> QED
    BY <2>1, <2>3 DEF KInv, KeepTypes
<1>11. KeepTypes' /\ TaskTypes' /\ VirtualSound'
  BY <1>1, <1>7, <1>9, <1>10 DEF KInv, KeepTypes, TaskTypes, VirtualSound, NewPolicies
<1>12. InPolicy(o) = 0 /\ TaskUses(o) = {}
  BY <1>2, <1>3, RefPositive
<1>13. ASSUME NEW r \in Policies, NEW i \in 1..Len(servers[r]) PROVE servers[r][i] # o /\ LiveIn(servers[r][i], r)
  <2>1. LiveIn(servers[r][i], r)
    BY DEF KInv, ServersLive
  <2>2. ASSUME servers[r][i] = o PROVE FALSE
    <3>1. endpoint[o].policy = r /\ Contains(servers[r], o)
      BY <2>1, <2>2 DEF LiveIn, Contains
    <3> QED
      BY <1>12, <3>1 DEF InPolicy
  <2> QED
    BY <2>1, <2>2
<1>14. ServersLive'
  BY <1>1, <1>8, <1>13 DEF ServersLive
<1>15. TotalExact'
  <2> SUFFICES ASSUME NEW r \in Policies PROVE total_weight[r] = Sum(endpoint', Range(servers[r]))
    BY <1>1 DEF TotalExact, KInv
  <2>1. Weighed(endpoint, Range(servers[r])) /\ \A q \in Range(servers[r]) : q \in Endpoints /\ q # o
    <3>1. /\ Range(servers[r]) = {servers[r][i] : i \in 1..Len(servers[r])}
          /\ Weighed(endpoint, Range(servers[r])) /\ \A q \in Range(servers[r]) : LiveIn(q, r)
      BY ServerFacts
    <3> QED
      BY <1>13, <3>1 DEF LiveIn, Live
  <2>2. \A q \in Range(servers[r]) : endpoint'[q].weight = endpoint[q].weight
    BY <1>7, <2>1
  <2>3. Sum(endpoint', Range(servers[r])) = Sum(endpoint, Range(servers[r]))
    BY <2>1, <2>2, SumEq
  <2> QED
    BY <2>3 DEF KInv, TotalExact
<1>16. HistoryLive'
  <2> SUFFICES ASSUME NEW u \in Tasks, NEW i \in 1..Len(history'[u])
               PROVE  history'[u][i] # o /\ LiveIn(history'[u][i], sg[u])
    BY <1>1, <1>7, <1>8 DEF HistoryLive, LiveIn, Live
  <2>1. CASE u # t
    <3>1. history'[u] = history[u] /\ LiveIn(history[u][i], sg[u])
      BY <1>9, <2>1 DEF KInv, HistoryLive
    <3>2. i \in 1..Len(history[u])
      BY <3>1
    <3>3. history[u][i] # o
      BY <1>1, <1>3, <2>1, <3>2, LastHolder
    <3> QED
      BY <3>1, <3>3
  <2>2. CASE u = t
    <3>1. i + 1 \in 1..Len(history[t]) /\ Tail(history[t])[i] = history[t][i + 1] /\ i + 1 # 1
      <4>1. i \in 1..Len(Tail(history[t]))
        BY <1>9, <2>2
      <4>2. Len(Tail(history[t])) \in Int
        BY <1>2, HeadLive
      <4>3. i \in Nat /\ i + 1 # 1
        BY <4>1, <4>2
      <4> QED
        BY <1>2, <4>1, <4>3, HeadLive
    <3>2. PICK j \in 1..Len(history[t]) : j = i + 1 /\ j # 1
      BY <3>1
    <3>3. LiveIn(history[t][j], sg[t])
      BY DEF KInv, HistoryLive
    <3>4. history[t][j] # o
      BY <1>1, <1>3, <3>2, LastHolder
    <3> QED
      BY <1>9, <2>2, <3>1, <3>2, <3>3, <3>4
  <2> QED
    BY <2>1, <2>2
<1>17. Counted'
  <2> SUFFICES ASSUME NEW q \in Live, q # o
               PROVE  IsFiniteSet(TaskUses(q)') /\ endpoint'[q].ref = Cardinality(TaskUses(q)') + InPolicy(q)'
    BY <1>8 DEF Counted
  <2>1. \A u \in Tasks : Held(u)' = Held(u)
    BY <1>1, <1>9 DEF Held
  <2>2. TaskUses(q)' = TaskUses(q)
    BY <2>1 DEF TaskUses
  <2>3. endpoint'[q] = endpoint[q]
    BY <1>7 DEF Live
  <2>4. InPolicy(q)' = InPolicy(q)
    BY <1>1, <2>3 DEF InPolicy
  <2> QED
    BY <2>2, <2>3, <2>4 DEF KInv, Counted
<1>18. Deleting'
  <2>1. ASSUME NEW u \in Tasks, tpc'[u] = "Delete"
        PROVE  /\ u # t /\ tpc[u] = "Delete" /\ history'[u] = history[u] /\ history[u] # <<>>
               /\ endpoint'[Head(history[u])].ref = 0
    <3>1. u # t /\ tpc[u] = "Delete" /\ history'[u] = history[u]
      BY <1>9, <2>1
    <3>2. history[u] # <<>> /\ endpoint[Head(history[u])].ref = 0
      BY <3>1 DEF KInv, Deleting
    <3>3. Head(history[u]) # o /\ Head(history[u]) \in Endpoints
      BY <1>1, <1>3, <3>1, <3>2, HeadLive DEF KInv, Deleting, Live
    <3> QED
      BY <1>7, <3>1, <3>2, <3>3
  <2> QED
    BY <2>1 DEF KInv, Deleting
<1>19. TasksSound'
  BY <1>1, <1>9 DEF KInv, TasksSound, Asking, Selecting
<1> QED
  BY <1>11, <1>14, <1>15, <1>16, <1>17, <1>18, <1>19 DEF KInv

-----------------------------------------------------------------------------
(* What the strategies choose from *)

\* An index modulo the length of the virtual nodes is one of them.
LEMMA OneOf ==
  ASSUME NEW n \in Nat \ {0}, NEW i \in Int PROVE (i % n) + 1 \in 1..n
OBVIOUS

\* first_strategy of weighted_random returns a server of the policy.
LEMMA WeightedChoice ==
  ASSUME KInv, NEW t, NEW p \in Policies, servers[p] # <<>>
  PROVE  WeightedFirst(t, p) \subseteq Range(servers[p])
<1> DEFINE s == servers[p]
<1>1. s \in Seq(Endpoints)
  BY ServerFacts
<1>2. /\ Len(s) \in Nat /\ Len(s) # 0 /\ DOMAIN s = 1..Len(s)
      /\ Range(servers[p]) = {s[i] : i \in 1..Len(s)}
  BY <1>1, ServerFacts, LenProperties, EmptySeq
<1> DEFINE upto(i) == Weights({s[j] : j \in {k \in 1..i : ~InHistory(t, s[k])}})
           hits(x) == {i \in DOMAIN s : ~InHistory(t, s[i]) /\ upto(i) > x}
           pick(x) == IF hits(x) = {} THEN Last(s) ELSE s[Min(hits(x))]
<1>3. ASSUME NEW x PROVE pick(x) \in Range(servers[p])
  <2>1. PICK H : H = hits(x)
    OBVIOUS
  <2>2. H \in SUBSET (1..Len(s)) /\ H \in SUBSET Nat
    BY <1>2, <2>1
  <2>3. CASE H = {}
    <3>1. Len(s) \in 1..Len(s) /\ Last(s) = s[Len(s)]
      BY <1>2 DEF Last
    <3> QED
      BY <1>2, <2>1, <2>3, <3>1
  <2>4. CASE H # {}
    <3>1. Min(H) \in 1..Len(s)
      BY <2>2, <2>4, MinIn
    <3> QED
      BY <1>2, <2>1, <2>4, <3>1
  <2> QED
    BY <2>3, <2>4
<1>4. ASSUME NEW o \in WeightedFirst(t, p) PROVE \E x : o = pick(x)
  BY <1>4 DEF WeightedFirst
<1> HIDE DEF pick
<1> QED
  BY <1>3, <1>4

\* So does first_strategy of vnswrr: its virtual nodes are those of the servers.
LEMMA VnswrrChoice ==
  ASSUME KInv, NEW t, NEW p \in Policies, servers[p] # <<>>, policy[p].kind = "vnswrr"
  PROVE  VnswrrFirst(t, p) \subseteq Range(servers[p])
<1>1. PICK s \in Seq(Endpoints) : s = servers[p]
  BY ServerFacts
<1>2. /\ Len(s) \in Nat /\ Range(servers[p]) = {s[i] : i \in 1..Len(s)}
  BY <1>1, ServerFacts
<1>3. PICK v \in Seq(1..Len(s)) : v = pre_generated_vec[p]
  BY <1>1 DEF KInv, VirtualSound
<1>4. PICK n \in Int : n = total_weight[p]
  BY ServerFacts, SumStep DEF KInv, TotalExact
<1> DEFINE at(i) == s[v[(i % Len(v)) + 1]]
           free(i) == {k \in 0..(n - 1) : ~InHistory(t, at(i + k))}
           pick(i) == IF free(i) = {} THEN at(i + n - 1) ELSE at(i + Min(free(i)))
<1>5. Len(v) \in Nat
  BY LenProperties
<1>6. ASSUME Len(v) # 0, NEW i \in Int PROVE at(i) \in Range(servers[p])
  <2>1. PICK j \in 1..Len(v) : j = (i % Len(v)) + 1
    BY <1>5, <1>6, OneOf
  <2>2. v[j] \in 1..Len(s)
    BY ElementOfSeq
  <2> QED
    BY <1>2, <2>1, <2>2
<1>7. ASSUME NEW i \in 0..(Len(v) - 1) PROVE pick(i) \in Range(servers[p])
  <2>1. Len(v) # 0 /\ i \in Int
    BY <1>5
  <2>2. PICK F : F = free(i)
    OBVIOUS
  <2>3. F \in SUBSET Nat
    BY <2>2
  <2>4. CASE F = {}
    <3>1. i + n - 1 \in Int
      BY <2>1
    <3>2. at(i + n - 1) \in Range(servers[p])
      <4> HIDE DEF at
      <4> QED
        BY <1>6, <2>1, <3>1
    <3> HIDE DEF at, free
    <3> QED
      BY <2>2, <2>4, <3>2
  <2>5. CASE F # {}
    <3>0. Min(F) \in F
      BY ONLY <2>3, <2>5, MinIn
    <3>1. PICK m \in Nat : m = Min(F)
      BY ONLY <2>3, <3>0
    <3>2. i + Min(F) \in Int
      BY <2>1, <3>1
    <3>3. at(i + Min(F)) \in Range(servers[p])
      <4> HIDE DEF at
      <4> QED
        BY <1>6, <2>1, <3>2
    <3> HIDE DEF at, free
    <3> QED
      BY <2>2, <2>5, <3>3
  <2> QED
    BY <2>4, <2>5
<1> HIDE DEF pick
<1>8. VnswrrFirst(t, p) = {pick(i) : i \in 0..(Len(v) - 1)}
  BY <1>1, <1>3, <1>4 DEF VnswrrFirst, pick
<1> QED
  BY <1>7, <1>8

\* What a strategy does: it takes a server of the policy, or none.
Chooses(t) ==
  /\ tpc[t] \in Selecting /\ UNCHANGED <<lists, breaker_list, counts, sg, now>>
  /\ \/ \E o \in Range(servers[sg[t]]) : Select(t, o)
     \/ /\ \E to \in {"Release", "Another", "Clear", "Second", "Spin"} : tpc' = [tpc EXCEPT ![t] = to]
        /\ UNCHANGED <<endpoint, history>>

\* Each strategy chooses: the weighted ones,
LEMMA WeightedChooses ==
  ASSUME KInv, NEW t \in Tasks, WeightedFirstStrategy(t) PROVE Chooses(t)
<1>1. /\ tpc[t] \in Selecting /\ UNCHANGED <<lists, breaker_list, counts, sg, now>>
      /\ sg[t] \in Policies /\ servers[sg[t]] # <<>>
  BY DEF WeightedFirstStrategy, Selecting, KInv, TaskTypes, TasksSound
<1>2. PICK p \in Policies : p = sg[t]
  BY <1>1
<1>3. PICK o \in IF policy[p].kind = "vnswrr" THEN VnswrrFirst(t, p) ELSE WeightedFirst(t, p) :
        \/ Select(t, o)
        \/ Goto(t, "First", "Another") /\ UNCHANGED <<history, endpoint>>
        \/ Unavailable(t)
  BY <1>2 DEF WeightedFirstStrategy
<1>4. o \in Range(servers[sg[t]])
  BY <1>1, <1>2, <1>3, VnswrrChoice, WeightedChoice
<1> QED
  BY <1>1, <1>3, <1>4 DEF Chooses, Goto, Unavailable

\* consistent_hash,
LEMMA HashChooses ==
  ASSUME NEW t \in Tasks, HashFirstStrategy(t) PROVE Chooses(t)
<1>1. /\ tpc[t] \in Selecting /\ UNCHANGED <<lists, breaker_list, counts, sg, now>>
  BY DEF HashFirstStrategy, Selecting
<1>2. \/ Unavailable(t) \/ \E o \in Alive(sg[t]) : Select(t, o)
      \/ Goto(t, "First", "Spin") /\ UNCHANGED <<history, endpoint>>
  BY DEF HashFirstStrategy
<1> QED
  BY <1>1, <1>2 DEF Chooses, Goto, Unavailable, Alive

\* another_strategy when it looks whether a server is left,
LEMMA FindChooses ==
  ASSUME NEW t \in Tasks, FindNoneLeft(t) PROVE Chooses(t)
  BY DEF FindNoneLeft, Chooses, Goto, Selecting

\* and when it takes one.
LEMMA AnotherChooses ==
  ASSUME KInv, NEW t \in Tasks, AnotherStrategy(t) PROVE Chooses(t)
<1>1. /\ tpc[t] \in Selecting /\ UNCHANGED <<lists, breaker_list, counts, sg, now>> /\ sg[t] \in Policies
  BY DEF AnotherStrategy, Selecting, KInv, TaskTypes
<1> DEFINE p == sg[t]
           s == servers[p]
<1>2. p \in Policies
  BY <1>1
<1>3. s \in Seq(Endpoints)
  BY <1>2, ServerFacts
<1>4. Len(s) \in Nat /\ DOMAIN s = 1..Len(s) /\ Range(servers[p]) = {s[i] : i \in 1..Len(s)}
  BY <1>2, <1>3, ServerFacts, LenProperties
<1> DEFINE alive == {i \in DOMAIN s : ~Fused(s[i])}
           upto(i) == Weights({s[j] : j \in {k \in alive : k <= i}})
           hits(x) == {i \in alive : upto(i) > x}
           pick(x) == IF hits(x) = {} THEN Max(alive) ELSE Min(hits(x))
<1>5. CASE Unavailable(t)
  BY <1>1, <1>5 DEF Unavailable, Chooses
<1>6. ASSUME alive # {}, NEW x, Select(t, s[pick(x)]) PROVE Chooses(t)
  <2>1. PICK A, H : A = alive /\ H = hits(x)
    OBVIOUS
  <2>2. A \in SUBSET (1..Len(s)) /\ A \in SUBSET (0..Len(s)) /\ H \in SUBSET (1..Len(s)) /\ H \in SUBSET Nat
    BY <1>4, <2>1
  <2>3. PICK j \in 1..Len(s) : j = pick(x)
    <3>1. CASE H = {}
      <4>1. Max(A) \in A
        BY <1>4, <1>6, <2>1, <2>2, MaxIn
      <4> QED
        BY <2>1, <2>2, <3>1, <4>1
    <3>2. CASE H # {}
      <4>1. Min(H) \in H
        BY <2>2, <3>2, MinIn
      <4> QED
        BY <2>1, <2>2, <3>2, <4>1
    <3> QED
      BY <3>1, <3>2
  <2> HIDE DEF pick
  <2>4. PICK o \in Range(servers[sg[t]]) : o = s[j]
    BY <1>4
  <2> QED
    BY <1>1, <1>6, <2>3, <2>4 DEF Chooses
<1>7. \/ Unavailable(t)
      \/ alive # {} /\ \E x : Select(t, s[pick(x)])
  BY DEF AnotherStrategy
<1> HIDE DEF alive, pick
<1> QED
  BY <1>5, <1>6, <1>7

\* A choice keeps the servers.
LEMMA ChoiceKeeps ==
  ASSUME KInv, NEW t \in Tasks, Chooses(t) PROVE KInv'
BY SelectKeeps, GoesOn DEF Chooses

-----------------------------------------------------------------------------
(* Servers come and go *)

\* The virtual nodes after an add or a remove are indices of the new list.
LEMMA NodesOfList ==
  ASSUME KInv, NEW p \in Policies, NEW s \in Seq(Endpoints), NEW total \in Nat, NEW eps,
         \A i \in 1..Len(s) : eps[s[i]].weight \in Int, s # <<>> => total # 0 /\ p \notin NewPolicies,
         servers' = [servers EXCEPT ![p] = s], policy' = policy, InitVnswrr(p, s, total, eps)
  PROVE  VirtualSound' /\ DOMAIN pre_generated_vec' = Policies
<1>1. servers'[p] = s /\ (\A r \in Policies : r # p => servers'[r] = servers[r]) /\ NewPolicies' = NewPolicies
  BY DEF KInv, KeepTypes, NewPolicies
<1>2. CASE policy[p].kind # "vnswrr" \/ total <= 0
  <2>1. pre_generated_vec' = pre_generated_vec
    BY <1>2 DEF InitVnswrr
  <2>2. total <= 0 => s = <<>>
    OBVIOUS
  <2> QED
    BY <1>1, <1>2, <2>1, <2>2 DEF KInv, VirtualSound, TotalExact
<1>3. CASE ~(policy[p].kind # "vnswrr" \/ total <= 0)
  <2> DEFINE w == [i \in 1..Len(s) |-> eps[s[i]].weight]
  <2>1. pre_generated_vec' = [pre_generated_vec EXCEPT ![p] = VirtualNodes(w, total)]
    BY <1>3 DEF InitVnswrr
  <2>2. Len(s) \in Nat /\ w \in [1..Len(s) -> Int]
    BY LenProperties
  <2> HIDE DEF w
  <2>3. s # <<>> => VirtualNodes(w, total) \in Seq(1..Len(s))
    <3>1. s # <<>> => Len(s) # 0
      BY EmptySeq
    <3> QED
      BY <2>2, <3>1, VirtualNodesIn
  <2>4. /\ DOMAIN pre_generated_vec' = Policies /\ pre_generated_vec'[p] = VirtualNodes(w, total)
        /\ \A r \in Policies : r # p => pre_generated_vec'[r] = pre_generated_vec[r]
    BY <2>1 DEF KInv, TotalExact
  <2> QED
    BY <1>1, <2>3, <2>4 DEF KInv, VirtualSound
<1> QED
  BY <1>2, <1>3

\* What a task still holds is in its history.
LEMMA HeldInHistory ==
  ASSUME KInv, NEW u \in Tasks, NEW j \in 1..Len(Held(u))
  PROVE  \E i \in 1..Len(history[u]) : Held(u)[j] = history[u][i]
<1>1. CASE tpc[u] = "Delete"
  <2>1. Held(u) = Tail(history[u]) /\ history[u] # <<>>
    BY <1>1 DEF Held, KInv, Deleting
  <2>2. j \in 1..Len(Tail(history[u]))
    BY <2>1
  <2> QED
    BY <2>1, <2>2, HeadLive
<1>2. CASE tpc[u] # "Delete"
  BY <1>2 DEF Held
<1> QED
  BY <1>1, <1>2

\* A server that is in no history has no reference of a task.
LEMMA UnheldUnused ==
  ASSUME KInv, NEW o, \A u \in Tasks : \A i \in 1..Len(history[u]) : history[u][i] # o
  PROVE  TaskUses(o) = {}
<1>1. ASSUME NEW u \in Tasks PROVE {j \in 1..Len(Held(u)) : Held(u)[j] = o} = {}
  BY HeldInHistory
<1> QED
  BY <1>1 DEF TaskUses

\* An object that no task uses is in no history, unless its last user deletes it.
LEMMA UnusedUnheld ==
  ASSUME KInv, NEW o \in Live, endpoint[o].ref # 0, TaskUses(o) = {}, NEW u \in Tasks, NEW i \in 1..Len(history[u])
  PROVE  history[u][i] # o
<1>1. ASSUME NEW j \in 1..Len(Held(u)), Held(u)[j] = o PROVE FALSE
  <2>1. <<u, j>> \in {<<u, k>> : k \in {l \in 1..Len(Held(u)) : Held(u)[l] = o}}
    BY <1>1
  <2>2. <<u, j>> \in TaskUses(o)
    BY <2>1 DEF TaskUses
  <2> QED
    BY <2>2
<1>2. CASE tpc[u] # "Delete"
  BY <1>1, <1>2 DEF Held
<1>3. CASE tpc[u] = "Delete"
  <2>1. Held(u) = Tail(history[u]) /\ history[u] # <<>> /\ endpoint[Head(history[u])].ref = 0
    BY <1>3 DEF Held, KInv, Deleting
  <2>2. CASE i = 1
    BY <2>1, <2>2, HeadLive
  <2>3. CASE i # 1
    <3>1. /\ Len(history[u]) \in Nat /\ Len(Tail(history[u])) = Len(history[u]) - 1
          /\ \A j \in 1..Len(Tail(history[u])) : Tail(history[u])[j] = history[u][j + 1]
      BY <2>1, HeadLive
    <3>2. i - 1 \in 1..Len(Tail(history[u])) /\ (i - 1) + 1 = i
      BY <2>3, <3>1
    <3>3. PICK j \in 1..Len(Tail(history[u])) : j + 1 = i
      BY <3>2
    <3>4. Tail(history[u])[j] = history[u][i]
      BY <3>1, <3>3
    <3> QED
      BY <1>1, <2>1, <3>4
  <2> QED
    BY <2>2, <2>3
<1> QED
  BY <1>2, <1>3

(***************************************************************************)
(* add_server: an object that nobody refers to comes into the policy, and  *)
(* vnswrr makes its nodes again.                                           *)
(***************************************************************************)
LEMMA AddServerKeeps ==
  ASSUME KInv, NEW p \in Policies, p \notin NewPolicies, NEW address \in Addresses, NEW weight \in Nat,
         AddServer(p, address, weight)
  PROVE  KInv'
<1>1. PICK o \in Endpoints : o = Min(Fresh) /\ endpoint[o].state = "free"
  <2>1. Fresh \in SUBSET Nat /\ Fresh # {}
    BY UpstreamAssumption DEF Fresh, AddServer
  <2>2. Min(Fresh) \in Fresh
    BY ONLY <2>1, MinIn
  <2> QED
    BY <2>2 DEF Fresh
<1>2. PICK w \in Nat \ {0} : w = IF weight = 0 THEN 1 ELSE weight
  OBVIOUS
<1> DEFINE e == [state |-> "live", address |-> address, policy |-> p, weight |-> w,
                 fail_count |-> 0, ref |-> 1, broken_timeout |-> 0]
           s == Append(servers[p], o)
<1>3. /\ endpoint' = [endpoint EXCEPT ![o] = e] /\ servers' = [servers EXCEPT ![p] = s]
      /\ total_weight' = [total_weight EXCEPT ![p] = @ + w]
      /\ InitVnswrr(p, s, total_weight'[p], endpoint')
      /\ UNCHANGED <<policy, breaker_list, tpc, sg, history, now>>
  BY <1>1, <1>2 DEF AddServer, tasks
<1>4. /\ e \in Objects /\ e.state = "live" /\ e.policy = p /\ e.weight = w /\ e.ref = 1
  BY DEF Objects
<1> HIDE DEF e
<1>5. /\ endpoint' \in [Endpoints -> Objects \cup {NoEndpoint}] /\ endpoint'[o] = e
      /\ \A q \in Endpoints : q # o => endpoint'[q] = endpoint[q]
  BY <1>3, <1>4 DEF KInv, KeepTypes
<1>6. /\ Live' = Live \cup {o} /\ o \notin Live /\ \A q \in Live : q # o /\ q \in Endpoints /\ endpoint'[q] = endpoint[q]
  <2>1. Live' = Live \cup {o} /\ o \notin Live
    BY <1>1, <1>4, <1>5 DEF Live
  <2> QED
    BY <1>5, <2>1 DEF Live
<1>7. /\ servers[p] \in Seq(Endpoints) /\ Len(servers[p]) \in Nat /\ s \in Seq(Endpoints)
      /\ Len(s) = Len(servers[p]) + 1 /\ s[Len(servers[p]) + 1] = o /\ s # <<>>
      /\ \A i \in 1..Len(servers[p]) : s[i] = servers[p][i]
  <2>1. servers[p] \in Seq(Endpoints) /\ Len(servers[p]) \in Nat
    BY ServerFacts
  <2>2. /\ s \in Seq(Endpoints)
        /\ Len(s) = Len(servers[p]) + 1 /\ s[Len(servers[p]) + 1] = o
        /\ \A i \in 1..Len(servers[p]) : s[i] = servers[p][i]
    BY <2>1, AppendProperties
  <2> QED
    BY <2>1, <2>2
<1> HIDE DEF s
<1>8. /\ servers' \in [Policies -> Seq(Endpoints)] /\ servers'[p] = s
      /\ \A r \in Policies : r # p => servers'[r] = servers[r]
  BY <1>3, <1>7 DEF KInv, KeepTypes
<1>9. \A i : i \in 1..Len(s) <=> i \in 1..Len(servers[p]) \/ i = Len(servers[p]) + 1
  BY <1>7
<1>10. KeepTypes' /\ TaskTypes'
  BY <1>3, <1>5, <1>8 DEF KInv, KeepTypes, TaskTypes
<1>11. \A q : q \in Range(servers[p]) => q # o /\ q \in Endpoints
  BY <1>6, ServerFacts DEF LiveIn, Live
<1>12. ServersLive'
  <2> SUFFICES ASSUME NEW r \in Policies, NEW i \in 1..Len(servers'[r])
               PROVE  servers'[r][i] \in Live' /\ endpoint'[servers'[r][i]].policy = r
    BY DEF ServersLive, LiveIn
  <2>1. CASE i \in 1..Len(servers[r]) /\ servers'[r][i] = servers[r][i]
    BY <1>6, <2>1 DEF KInv, ServersLive, LiveIn
  <2>2. CASE r = p /\ i = Len(servers[p]) + 1
    BY <1>4, <1>5, <1>6, <1>7, <1>8, <2>2
  <2> QED
    BY <1>7, <1>8, <1>9, <2>1, <2>2
<1>13. HistoryLive'
  BY <1>3, <1>6 DEF KInv, HistoryLive, LiveIn
<1>14. Range(s) = Range(servers[p]) \cup {o}
  <2>1. Range(s) = {s[i] : i \in 1..Len(s)}
    BY <1>7, LenProperties DEF Range
  <2>2. Range(servers[p]) = {servers[p][i] : i \in 1..Len(servers[p])}
    BY ServerFacts
  <2> QED
    BY <1>7, <1>9, <2>1, <2>2
<1>15. /\ DOMAIN total_weight' = Policies /\ total_weight'[p] = total_weight[p] + w
       /\ \A r \in Policies : r # p => total_weight'[r] = total_weight[r]
  BY <1>3 DEF KInv, TotalExact
<1>16. PICK eps : eps = endpoint'
  OBVIOUS
<1>17. ASSUME NEW r \in Policies
       PROVE  Weighed(eps, Range(servers[r])) /\ Sum(eps, Range(servers[r])) = total_weight[r]
  <2>1. Weighed(endpoint, Range(servers[r])) /\ \A q \in Range(servers[r]) : q \in Live
    BY ServerFacts DEF LiveIn
  <2>2. \A q \in Range(servers[r]) : eps[q].weight = endpoint[q].weight
    BY <1>6, <1>16, <2>1
  <2>3. Weighed(eps, Range(servers[r])) /\ Sum(eps, Range(servers[r])) = Sum(endpoint, Range(servers[r]))
    BY <2>1, <2>2, SumEq
  <2> QED
    BY <2>3 DEF KInv, TotalExact
<1>18. Weighed(eps, Range(s)) /\ Sum(eps, Range(s)) = total_weight[p] + w
  <2>1. o \notin Range(servers[p]) /\ eps[o].weight = w /\ w \in Int
    BY <1>4, <1>5, <1>11, <1>16
  <2> QED
    BY <1>14, <1>17, <2>1, SumAdd
<1>19. ASSUME NEW r \in Policies PROVE total_weight'[r] = Sum(eps, Range(servers'[r]))
  <2>1. CASE r = p
    BY <1>8, <1>15, <1>18, <2>1
  <2>2. CASE r # p
    BY <1>8, <1>15, <1>17, <2>2
  <2> QED
    BY <2>1, <2>2
<1>20. VirtualSound' /\ DOMAIN pre_generated_vec' = Policies
  <2>1. \A q \in Range(s) : eps[q].weight \in Nat \ {0}
    <3>1. \A q \in Range(servers[p]) : eps[q].weight \in Nat \ {0}
      BY <1>6, <1>16, ServerFacts, LiveFacts DEF LiveIn, KInv
    <3> QED
      BY <1>4, <1>5, <1>14, <1>16, <3>1
  <2>2. Sum(eps, Range(s)) \in Nat /\ (Sum(eps, Range(s)) = 0 <=> Range(s) = {})
    BY <1>18, <2>1, SumPositive DEF Weighed
  <2>3. PICK total \in Nat : total = total_weight'[p] /\ total # 0
    BY <1>14, <1>15, <1>18, <2>2
  <2>4. PICK sq \in Seq(Endpoints) : sq = s
    BY <1>7
  <2>5. InitVnswrr(p, sq, total, eps)
    BY <1>3, <1>16, <2>3, <2>4
  <2>6. \A i \in 1..Len(sq) : eps[sq[i]].weight \in Int
    <3>1. \A i \in 1..Len(sq) : sq[i] \in Range(s)
      BY <2>4, LenProperties DEF Range
    <3> QED
      BY <2>1, <3>1
  <2> QED
    BY <1>3, <2>3, <2>4, <2>5, <2>6, NodesOfList
<1>21. TotalExact'
  BY <1>15, <1>16, <1>19, <1>20 DEF TotalExact
<1>22. TaskUses(o) = {} /\ \A q : TaskUses(q)' = TaskUses(q)
  <2>1. \A u \in Tasks : \A i \in 1..Len(history[u]) : history[u][i] # o
    BY <1>6 DEF KInv, HistoryLive, LiveIn
  <2>2. TaskUses(o) = {}
    BY <2>1, UnheldUnused
  <2> QED
    BY <1>3, <2>2, HeldSame
<1>23. Counted'
  <2>1. ASSUME NEW q \in Live PROVE IsFiniteSet(TaskUses(q)') /\ endpoint'[q].ref = Cardinality(TaskUses(q)') + InPolicy(q)'
    <3>1. endpoint[q].policy \in Policies /\ endpoint'[q] = endpoint[q] /\ q # o
      BY <1>6, LiveFacts DEF KInv
    <3>2. PICK r \in Policies : r = endpoint[q].policy
      BY <3>1
    <3>3. Contains(servers'[r], q) <=> Contains(servers[r], q)
      BY <1>7, <1>8, <1>9, <3>1 DEF Contains
    <3>4. InPolicy(q)' = InPolicy(q)
      BY <3>1, <3>2, <3>3 DEF InPolicy
    <3> QED
      BY <1>22, <3>1, <3>4 DEF KInv, Counted
  <2>2. IsFiniteSet(TaskUses(o)') /\ endpoint'[o].ref = Cardinality(TaskUses(o)') + InPolicy(o)'
    <3>1. Contains(servers'[p], o)
      BY <1>7, <1>8, <1>9 DEF Contains
    <3>2. InPolicy(o)' = 1
      BY <1>4, <1>5, <3>1 DEF InPolicy
    <3>3. IsFiniteSet({}) /\ Cardinality({}) = 0
      BY FS_EmptySet
    <3> QED
      BY <1>4, <1>5, <1>22, <3>2, <3>3
  <2> QED
    BY <1>6, <2>1, <2>2 DEF Counted
<1>24. Deleting'
  <2> SUFFICES ASSUME NEW u \in Tasks, tpc[u] = "Delete" PROVE history[u] # <<>> /\ endpoint'[Head(history[u])].ref = 0
    BY <1>3 DEF KInv, Deleting
  <2>1. history[u] # <<>> /\ endpoint[Head(history[u])].ref = 0
    BY DEF KInv, Deleting
  <2>2. Head(history[u]) \in Live
    BY <2>1, HeadLive
  <2> QED
    BY <1>6, <2>1, <2>2
<1>25. TasksSound'
  <2> SUFFICES ASSUME NEW u \in Tasks, tpc[u] \in Selecting PROVE servers'[sg[u]] # <<>>
    BY <1>3 DEF KInv, TasksSound
  <2>1. servers[sg[u]] # <<>> /\ sg[u] \in Policies
    BY DEF KInv, TasksSound, TaskTypes, Selecting
  <2> QED
    BY <1>7, <1>8, <2>1
<1> QED
  BY <1>10, <1>12, <1>13, <1>20, <1>21, <1>23, <1>24, <1>25 DEF KInv

\* What Without leaves, as a set.
LEMMA WithoutRange ==
  ASSUME NEW X, NEW list \in Seq(X), NEW S
  PROVE  /\ Without(list, S) \in Seq(X)
         /\ Range(Without(list, S)) = Range(list) \ S
         /\ \A i \in 1..Len(Without(list, S)) : Without(list, S)[i] \in Range(list) \ S
<1>1. PICK kept \in Seq(X) : kept = Without(list, S)
  BY WithoutIs
<1>2. PICK at : Subsequence(kept, list, S, Len(list), at)
  BY <1>1, WithoutIs
<1>3. /\ Range(kept) = {kept[i] : i \in 1..Len(kept)} /\ Range(list) = {list[i] : i \in 1..Len(list)}
  BY LenProperties DEF Range
<1>4. \A i \in 1..Len(kept) : kept[i] \in Range(list) \ S
  BY <1>2, <1>3 DEF Subsequence
<1>5. ASSUME NEW i \in 1..Len(list), list[i] \notin S PROVE list[i] \in Range(kept)
  <2>1. PICK j \in 1..Len(kept) : at[j] = i
    BY <1>2, <1>5 DEF Subsequence
  <2>2. kept[j] = list[i]
    BY <1>2, <2>1 DEF Subsequence
  <2> QED
    BY <1>3, <2>2
<1>6. Range(kept) = Range(list) \ S
  BY <1>3, <1>4, <1>5
<1> QED
  BY <1>1, <1>4, <1>6

(***************************************************************************)
(* remove_server: what the policy alone refers to is deleted, the rest is  *)
(* left to the tasks.                                                      *)
(***************************************************************************)
LEMMA RemoveServerKeeps ==
  ASSUME KInv, NEW p \in Policies, p \notin NewPolicies, NEW address, RemoveServer(p, address)
  PROVE  KInv'
<1> DEFINE out  == {o \in Range(servers[p]) : endpoint[o].address = address}
           dead == {o \in out : endpoint[o].ref = 1}
           s    == Without(servers[p], out)
<1>1. /\ WrLock(p) /\ servers' = [servers EXCEPT ![p] = s]
      /\ endpoint' = [o \in Endpoints |->
           CASE o \in dead -> [endpoint[o] EXCEPT !.ref = 0, !.state = "deleted"]
             [] o \in out \ dead -> [endpoint[o] EXCEPT !.ref = @ - 1]
             [] OTHER -> endpoint[o]]
      /\ breaker_list' = [breaker_list EXCEPT ![p] = Without(breaker_list[p], dead)]
      /\ total_weight' = [total_weight EXCEPT ![p] = @ - Weights(out)]
      /\ InitVnswrr(p, s, total_weight'[p], endpoint)
      /\ UNCHANGED <<policy, tpc, sg, history, now>>
  BY DEF RemoveServer, PreDeleteServers, tasks
<1>2. out \subseteq Range(servers[p]) /\ dead \subseteq out /\ \A o \in out : o \in dead <=> endpoint[o].ref = 1
  OBVIOUS
<1>3. /\ s \in Seq(Endpoints) /\ Range(s) = Range(servers[p]) \ out
      /\ \A i \in 1..Len(s) : s[i] \in Range(servers[p]) \ out
  BY ServerFacts, WithoutRange
<1> HIDE DEF out, dead, s
<1>4. ASSUME NEW o \in out
      PROVE  o \in Live /\ o \in Endpoints /\ endpoint[o] \in Objects /\ endpoint[o].policy = p /\ InPolicy(o) = 1
  <2>1. LiveIn(o, p) /\ Contains(servers[p], o)
    BY <1>2, ServerFacts
  <2> QED
    BY <2>1, LiveFacts DEF LiveIn, KInv, InPolicy
<1>5. ASSUME NEW o \in dead PROVE endpoint'[o] \in Objects /\ endpoint'[o].state = "deleted"
  <2>1. o \in Endpoints /\ endpoint[o] \in Objects
    BY <1>2, <1>4
  <2>2. endpoint'[o] = [endpoint[o] EXCEPT !.ref = 0, !.state = "deleted"]
    BY <1>1, <2>1
  <2>3. PICK e \in Objects : e = endpoint[o]
    BY <2>1
  <2>4. [e EXCEPT !.ref = 0, !.state = "deleted"] = [[e EXCEPT !.ref = 0] EXCEPT !.state = "deleted"]
    BY DEF Objects
  <2>5. PICK f \in Objects : f = [e EXCEPT !.ref = 0]
    <3>1. PICK n \in Int : n = 0
      OBVIOUS
    <3>2. [e EXCEPT !.ref = n] \in Objects
      BY DEF Objects
    <3> QED
      BY <3>1, <3>2
  <2>6. [f EXCEPT !.state = "deleted"] \in Objects /\ [f EXCEPT !.state = "deleted"].state = "deleted"
    BY DEF Objects
  <2> QED
    BY <2>2, <2>3, <2>4, <2>5, <2>6
<1>6. ASSUME NEW o \in out \ dead
      PROVE  /\ endpoint'[o] \in Objects /\ endpoint'[o].state = endpoint[o].state
             /\ endpoint'[o].policy = endpoint[o].policy /\ endpoint'[o].weight = endpoint[o].weight
             /\ endpoint'[o].ref = endpoint[o].ref - 1
             /\ endpoint'[o].fail_count = endpoint[o].fail_count
             /\ endpoint'[o].broken_timeout = endpoint[o].broken_timeout
  <2>1. o \in Endpoints /\ endpoint[o] \in Objects
    BY <1>4
  <2>2. endpoint'[o] = [endpoint[o] EXCEPT !.ref = @ - 1]
    BY <1>1, <2>1
  <2> QED
    BY <2>1, <2>2 DEF Objects
<1>7. \A o \in Endpoints : o \notin out => endpoint'[o] = endpoint[o]
  BY <1>1, <1>2
<1>8. endpoint' \in [Endpoints -> Objects \cup {NoEndpoint}]
  <2>1. \A o \in Endpoints : endpoint'[o] \in Objects \cup {NoEndpoint}
    BY <1>5, <1>6, <1>7 DEF KInv, KeepTypes
  <2> QED
    BY <1>1, <2>1
<1>9. Live' = Live \ dead
  BY <1>2, <1>4, <1>5, <1>6, <1>7 DEF Live
<1>10. \A o \in Live' : endpoint'[o].policy = endpoint[o].policy /\ endpoint'[o].weight = endpoint[o].weight
  BY <1>6, <1>7, <1>9 DEF Live
<1>11. \A q, r : LiveIn(q, r) /\ q \notin dead => LiveIn(q, r)'
  BY <1>9, <1>10 DEF LiveIn
<1>12. /\ servers' \in [Policies -> Seq(Endpoints)] /\ servers'[p] = s
       /\ \A r \in Policies : r # p => servers'[r] = servers[r]
  BY <1>1, <1>3 DEF KInv, KeepTypes
<1>13. breaker_list' \in [Policies -> Seq(Endpoints)]
  <2>1. breaker_list[p] \in Seq(Endpoints)
    BY DEF KInv, KeepTypes
  <2>2. Without(breaker_list[p], dead) \in Seq(Endpoints)
    BY <2>1, WithoutIs
  <2> QED
    BY <1>1, <2>2 DEF KInv, KeepTypes
<1>14. KeepTypes' /\ TaskTypes'
  BY <1>1, <1>8, <1>12, <1>13 DEF KInv, KeepTypes, TaskTypes
<1>15. ServersLive'
  <2> SUFFICES ASSUME NEW r \in Policies, NEW i \in 1..Len(servers'[r])
               PROVE  servers'[r][i] \in Live' /\ endpoint'[servers'[r][i]].policy = r
    BY DEF ServersLive, LiveIn
  <2>1. CASE r = p
    <3>1. s[i] \in Range(servers[p]) \ out
      BY <1>3, <1>12, <2>1
    <3>2. LiveIn(s[i], p) /\ s[i] \notin dead
      BY <1>2, <3>1, ServerFacts
    <3> QED
      BY <1>9, <1>10, <1>12, <2>1, <3>2 DEF LiveIn
  <2>2. CASE r # p
    <3>1. servers'[r] = servers[r] /\ LiveIn(servers[r][i], r)
      BY <1>12, <2>2 DEF KInv, ServersLive
    <3>2. servers[r][i] \notin dead
      BY <1>2, <1>4, <2>2, <3>1 DEF LiveIn
    <3> QED
      BY <1>9, <1>10, <3>1, <3>2 DEF LiveIn
  <2> QED
    BY <2>1, <2>2
<1>16. ASSUME NEW u \in Tasks, NEW i \in 1..Len(history[u]) PROVE history[u][i] \notin dead
  <2>1. ASSUME history[u][i] \in dead PROVE FALSE
    <3>1. PICK o \in dead : o = history[u][i]
      BY <2>1
    <3>2. o \in Live /\ endpoint[o].ref = 1 /\ InPolicy(o) = 1
      BY <1>2, <1>4
    <3>3. TaskUses(o) = {}
      BY <3>2, RefPositive
    <3> QED
      BY <3>1, <3>2, <3>3, UnusedUnheld
  <2> QED
    BY <2>1
<1>17. HistoryLive'
  BY <1>1, <1>9, <1>10, <1>16 DEF KInv, HistoryLive, LiveIn
<1>18. /\ DOMAIN total_weight' = Policies /\ total_weight'[p] = total_weight[p] - Sum(endpoint, out)
       /\ \A r \in Policies : r # p => total_weight'[r] = total_weight[r]
  BY <1>1 DEF KInv, TotalExact, Weights, Sum
<1>19. Weighed(endpoint, Range(s)) /\ total_weight'[p] = Sum(endpoint, Range(s))
  <2>1. Weighed(endpoint, Range(servers[p])) /\ total_weight[p] = Sum(endpoint, Range(servers[p]))
    BY ServerFacts DEF KInv, TotalExact
  <2>2. Weighed(endpoint, Range(s)) /\ Weighed(endpoint, out)
    BY <1>2, <1>3, <2>1, FS_Subset DEF Weighed
  <2>3. Range(s) \cap out = {} /\ Range(s) \cup out = Range(servers[p])
    BY <1>2, <1>3
  <2>4. Sum(endpoint, Range(s) \cup out) = Sum(endpoint, Range(s)) + Sum(endpoint, out)
    BY <2>2, <2>3, SumUnion
  <2>5. Sum(endpoint, Range(s)) \in Int /\ Sum(endpoint, out) \in Int
    BY <2>2, SumStep
  <2>6. total_weight[p] = Sum(endpoint, Range(s)) + Sum(endpoint, out)
    BY <2>1, <2>3, <2>4
  <2>7. PICK a \in Int, b \in Int : a = Sum(endpoint, Range(s)) /\ b = Sum(endpoint, out)
    BY <2>5
  <2>8. total_weight'[p] = a
    <3>1. total_weight[p] = a + b /\ total_weight'[p] = total_weight[p] - b
      BY <1>18, <2>6, <2>7
    <3> QED
      BY <3>1
  <2> QED
    BY <2>2, <2>7, <2>8
<1>20. VirtualSound' /\ DOMAIN pre_generated_vec' = Policies
  <2>1. \A q \in Range(s) : endpoint[q].weight \in Nat \ {0}
    BY <1>3, ServerFacts, LiveFacts DEF LiveIn, KInv
  <2>2. Sum(endpoint, Range(s)) \in Nat /\ (Sum(endpoint, Range(s)) = 0 <=> Range(s) = {})
    BY <1>19, <2>1, SumPositive DEF Weighed
  <2>3. PICK total \in Nat : total = total_weight'[p]
    BY <1>19, <2>2
  <2>4. PICK sq \in Seq(Endpoints) : sq = s
    BY <1>3
  <2>5. PICK eps : eps = endpoint
    OBVIOUS
  <2>6. InitVnswrr(p, sq, total, eps)
    BY <1>1, <2>3, <2>4, <2>5
  <2>7. \A i \in 1..Len(sq) : sq[i] \in Range(s)
    BY <1>3, <2>4
  <2>8. \A i \in 1..Len(sq) : eps[sq[i]].weight \in Int
    BY <2>1, <2>5, <2>7
  <2>9. sq # <<>> => total # 0
    <3>1. sq # <<>> => Len(sq) \in Nat /\ Len(sq) # 0
      BY EmptySeq, LenProperties
    <3>2. sq # <<>> => 1 \in 1..Len(sq)
      BY <3>1
    <3> QED
      BY <1>19, <2>2, <2>3, <2>7, <3>2
  <2> QED
    BY <1>1, <2>4, <2>6, <2>8, <2>9, NodesOfList
<1>21. TotalExact'
  <2> SUFFICES ASSUME NEW r \in Policies PROVE total_weight'[r] = Sum(endpoint', Range(servers'[r]))
    BY <1>18, <1>20 DEF TotalExact
  <2>1. /\ Weighed(endpoint, Range(servers'[r])) /\ total_weight'[r] = Sum(endpoint, Range(servers'[r]))
    BY <1>12, <1>18, <1>19, ServerFacts DEF KInv, TotalExact
  <2>2. \A q \in Range(servers'[r]) : endpoint'[q].weight = endpoint[q].weight
    <3>1. servers'[r] \in Seq(Endpoints)
      BY <1>12
    <3>2. Range(servers'[r]) = {servers'[r][i] : i \in 1..Len(servers'[r])}
      BY <3>1, LenProperties DEF Range
    <3> QED
      BY <1>10, <1>15, <3>2 DEF ServersLive, LiveIn
  <2>3. PICK R, e2 : R = Range(servers'[r]) /\ e2 = endpoint'
    OBVIOUS
  <2>4. Sum(e2, R) = Sum(endpoint, R)
    BY <2>1, <2>2, <2>3, SumEq
  <2> QED
    BY <2>1, <2>3, <2>4
<1>22. Counted'
  <2> SUFFICES ASSUME NEW q \in Live, q \notin dead
               PROVE  IsFiniteSet(TaskUses(q)') /\ endpoint'[q].ref = Cardinality(TaskUses(q)') + InPolicy(q)'
    BY <1>9 DEF Counted
  <2>1. TaskUses(q)' = TaskUses(q) /\ q \in Endpoints
    BY <1>1, HeldSame DEF Live
  <2>2. IsFiniteSet(TaskUses(q)) /\ endpoint[q].ref = Cardinality(TaskUses(q)) + InPolicy(q)
    BY DEF KInv, Counted
  <2>3. endpoint[q].policy \in Policies /\ endpoint'[q].policy = endpoint[q].policy
    BY <1>9, <1>10, LiveFacts DEF KInv
  <2>4. Cardinality(TaskUses(q)) \in Nat
    BY RefPositive
  <2>5. Contains(s, q) <=> q \in Range(servers[p]) \ out
    <3>1. Range(s) = {s[i] : i \in 1..Len(s)}
      BY <1>3, LenProperties DEF Range
    <3> QED
      BY <1>3, <3>1 DEF Contains
  <2>6. CASE q \in out
    <3>1. InPolicy(q)' = 0 /\ InPolicy(q) = 1 /\ endpoint'[q].ref = endpoint[q].ref - 1
      BY <1>4, <1>6, <1>12, <2>3, <2>5, <2>6 DEF InPolicy
    <3> QED
      BY <2>1, <2>2, <2>4, <3>1
  <2>7. CASE q \notin out
    <3>1. Contains(servers'[endpoint[q].policy], q) <=> Contains(servers[endpoint[q].policy], q)
      BY <1>12, <2>3, <2>5, <2>7, ServerFacts
    <3>2. InPolicy(q)' = InPolicy(q) /\ endpoint'[q] = endpoint[q]
      BY <1>7, <2>1, <2>3, <2>7, <3>1 DEF InPolicy
    <3> QED
      BY <2>1, <2>2, <3>2
  <2> QED
    BY <2>6, <2>7
<1>23. Deleting'
  <2> SUFFICES ASSUME NEW u \in Tasks, tpc[u] = "Delete" PROVE history[u] # <<>> /\ endpoint'[Head(history[u])].ref = 0
    BY <1>1 DEF KInv, Deleting
  <2>1. history[u] # <<>> /\ endpoint[Head(history[u])].ref = 0
    BY DEF KInv, Deleting
  <2>2. Head(history[u]) \in Live /\ Head(history[u]) \in Endpoints
    BY <2>1, HeadLive DEF Live
  <2>3. Head(history[u]) \notin out
    BY <1>4, <2>1, <2>2, RefPositive
  <2> QED
    BY <1>7, <2>1, <2>2, <2>3
<1>24. TasksSound'
  <2> SUFFICES ASSUME NEW u \in Tasks, tpc[u] \in Selecting PROVE servers'[sg[u]] # <<>>
    BY <1>1 DEF KInv, TasksSound
  <2>1. servers[sg[u]] # <<>> /\ sg[u] \in Policies
    BY DEF KInv, TasksSound, TaskTypes, Selecting
  <2>2. sg[u] # p
    BY <1>1 DEF WrLock, Readers, Selecting
  <2> QED
    BY <1>12, <2>1, <2>2
<1> QED
  BY <1>14, <1>15, <1>17, <1>20, <1>21, <1>22, <1>23, <1>24 DEF KInv

-----------------------------------------------------------------------------
(* What the rest of the system does to the servers and the tasks *)

\* Nothing happens to the servers.
LEMMA SameKeeps ==
  ASSUME KInv, UNCHANGED ups PROVE KInv'
<1>1. UNCHANGED <<policy, servers, pre_generated_vec, breaker_list, total_weight, endpoint, tpc, sg, history, now>>
  BY DEF ups, lists, counts, tasks
<1>2. Steady
  BY <1>1, SteadySame DEF KInv
<1>3. KeepTypes' /\ TaskTypes' /\ TasksSound' /\ VirtualSound' /\ DOMAIN pre_generated_vec' = Policies
  BY <1>1 DEF KInv, KeepTypes, TaskTypes, TasksSound, VirtualSound, NewPolicies, TotalExact
<1> QED
  BY <1>1, <1>2, <1>3, KeepFrame

\* Time passes.
LEMMA TickKeeps ==
  ASSUME KInv, Tick PROVE KInv'
<1>1. UNCHANGED <<policy, servers, pre_generated_vec, breaker_list, total_weight, endpoint, tpc, sg, history>> /\ now' = now + 1
  BY DEF Tick, lists, counts, tasks
<1>2. Steady
  BY <1>1, SteadySame DEF KInv
<1>3. KeepTypes' /\ TaskTypes' /\ TasksSound' /\ VirtualSound' /\ DOMAIN pre_generated_vec' = Policies
  BY <1>1 DEF KInv, KeepTypes, TaskTypes, TasksSound, VirtualSound, NewPolicies, TotalExact
<1> QED
  BY <1>1, <1>2, <1>3, KeepFrame

\* A task gets its policy.
LEMMA RouteKeeps ==
  ASSUME KInv, NEW t \in Tasks, NEW p \in Policies, Route(t, p) PROVE KInv'
<1>1. /\ UNCHANGED <<policy, servers, pre_generated_vec, breaker_list, total_weight, endpoint, history, now>>
      /\ tpc[t] = "Idle" /\ tpc' = [tpc EXCEPT ![t] = "Select"] /\ sg' = [sg EXCEPT ![t] = p]
  BY DEF Route, Goto, lists, counts
<1>2. Steady
  BY <1>1, SteadySame DEF KInv
<1>3. "Select" \in TaskStates /\ "Select" \notin Asking /\ "Select" \notin Selecting
  BY DEF TaskStates, Asking, Selecting
<1>4. /\ tpc' \in [Tasks -> TaskStates] /\ tpc'[t] = "Select" /\ DOMAIN sg' = Tasks /\ sg'[t] = p /\ history[t] = <<>>
      /\ \A u \in Tasks : u # t => tpc'[u] = tpc[u] /\ sg'[u] = sg[u]
  BY <1>1, <1>3 DEF KInv, TaskTypes, TasksSound
<1>5. KeepTypes' /\ VirtualSound' /\ DOMAIN pre_generated_vec' = Policies
  BY <1>1 DEF KInv, KeepTypes, VirtualSound, NewPolicies, TotalExact
<1>6. TaskTypes'
  BY <1>4 DEF KInv, TaskTypes
<1>7. TasksSound'
  BY <1>1, <1>3, <1>4 DEF KInv, TasksSound
<1>8. \A u \in Tasks : tpc'[u] = "Delete" <=> tpc[u] = "Delete"
  BY <1>1, <1>4
<1>9. \A u \in Tasks : history[u] # <<>> => sg'[u] = sg[u]
  BY <1>4
<1> QED
  BY <1>1, <1>2, <1>5, <1>6, <1>7, <1>8, <1>9, KeepFrame

\* A new policy has no servers yet.
LEMMA CreateKeeps ==
  ASSUME NInv, KInv, NEW n, NEW kind \in Kinds, NEW try, NEW who, CreateUpstream(n, kind, try, who) PROVE KInv'
<1>1. /\ UNCHANGED <<servers, pre_generated_vec, breaker_list, total_weight, endpoint, tpc, sg, history, now>>
  BY DEF CreateUpstream, counts, tasks
<1>2. PICK p \in NewPolicies : policy' = [policy EXCEPT ![p] = [kind |-> kind, try_another |-> try]]
  BY FirstNew DEF CreateUpstream
<1>3. Steady
  BY <1>1, SteadySame DEF KInv
<1>4. kind # "none" /\ p \in Policies /\ policy'[p].kind = kind /\ \A r \in Policies : r # p => policy'[r] = policy[r]
  BY <1>2 DEF NInv, NameTypes, NewPolicies, Kinds
<1>5. VirtualSound'
  <2>1. servers[p] = <<>> /\ NewPolicies' \subseteq NewPolicies
    BY <1>2, <1>4 DEF KInv, VirtualSound, NewPolicies
  <2> QED
    BY <1>1, <1>4, <2>1 DEF KInv, VirtualSound
<1>6. KeepTypes' /\ TaskTypes' /\ TasksSound' /\ DOMAIN pre_generated_vec' = Policies
  BY <1>1 DEF KInv, KeepTypes, TaskTypes, TasksSound, TotalExact
<1> QED
  BY <1>1, <1>3, <1>5, <1>6, KeepFrame

\* Where StartRpcServer is in the file.
PlaceSound ==
  /\ server \in Nat \ {0}
  /\ start = "Servers" => upstream <= Len(config)

\* A step keeps the place.
LEMMA PlaceStep ==
  ASSUME NInv, PlaceSound, [Next]_vars PROVE PlaceSound'
<1>1. server' \in Nat \ {0}
  <2>1. CASE UNCHANGED server
    BY <2>1 DEF PlaceSound
  <2>2. CASE server' = 1 \/ server' = server + 1
    BY <2>2 DEF PlaceSound
  <2>3. CASE StartStep
    BY <2>1, <2>2, <2>3 DEF StartStep, BeginStart, MakeUpstream, SkipUpstream, AddConfigured, StartServer, CleanupUpstreams
  <2>4. CASE AppStep \/ Environment \/ UNCHANGED vars
    BY <2>1, <2>4 DEF AppStep, ConfigureUpstream, AddAppServer, AppDelete, ChangeServers, Environment, vars, starting
  <2> QED
    BY <2>1, <2>3, <2>4 DEF Next, RouteTask, starting
<1>2. start' = "Servers" => upstream' <= Len(config')
  <2>1. CASE UNCHANGED <<start, upstream, config>> \/ start' # "Servers" \/ (upstream <= Len(config) /\ UNCHANGED <<upstream, config>>)
    BY <2>1 DEF PlaceSound
  <2>2. CASE SkipUpstream \/ BeginStart \/ StartServer
    BY <2>1, <2>2 DEF SkipUpstream, BeginStart, StartServer
  <2>3. CASE MakeUpstream
    BY <2>1, <2>3 DEF MakeUpstream
  <2>4. CASE AddConfigured
    BY <2>1, <2>4 DEF AddConfigured
  <2>5. CASE CleanupUpstreams
    BY <2>1, <2>5 DEF CleanupUpstreams
  <2>6. CASE AppStep \/ Environment \/ UNCHANGED vars
    BY <2>1, <2>6 DEF AppStep, ConfigureUpstream, AddAppServer, AppDelete, ChangeServers, Environment, vars, starting
  <2> QED
    BY <2>1, <2>2, <2>3, <2>4, <2>5, <2>6 DEF Next, StartStep, RouteTask, starting
<1> QED
  BY <1>1, <1>2 DEF PlaceSound

\* A policy that add_server, remove_server and route get from the name service.
InUse == Policies \ NewPolicies

\* A name stands for a policy that is in use.
LEMMA NamedInUse ==
  ASSUME NInv, NEW n \in Names, Exists(n) PROVE names[n] \in InUse
BY DEF NInv, NamesInUse, NameTypes, Exists, InUse

(***************************************************************************)
(* What a step of the system is for the servers and the tasks.             *)
(***************************************************************************)
ServersAdd == \E p \in InUse, a \in Addresses, w \in Nat : AddServer(p, a, w)
ServersRemove == \E p \in InUse, a \in Addresses : RemoveServer(p, a)
UpstreamNew == \E n \in Names, kind \in Kinds, try \in BOOLEAN, who \in {"start", "app"} : CreateUpstream(n, kind, try, who)
TaskMove == \E t \in Tasks : TaskStep(t) \/ \E p \in InUse : Route(t, p)

\* Every step of the system is one of these.
LEMMA Layer ==
  ASSUME NInv, PlaceSound, KInv, [Next]_vars
  PROVE  UNCHANGED ups \/ ServersAdd \/ ServersRemove \/ UpstreamNew \/ TaskMove \/ Tick
<1>1. CASE MakeUpstream
  <2>1. CASE CreateUpstream(Configured.name, Configured.type, Configured.try_another, "start")
    <3>1. Configured.name \in Names /\ Configured.try_another \in BOOLEAN /\ Configured.type \in Kinds
      BY <1>1, ConfiguredType DEF MakeUpstream
    <3> QED
      BY <2>1, <3>1 DEF UpstreamNew
  <2> QED
    BY <1>1, <2>1 DEF MakeUpstream
<1>2. CASE AddConfigured
  <2> DEFINE s == Configured.servers[server]
             w == IF Configured.type = "weighted_random" THEN s.weight ELSE 1
  <2>1. CASE server <= Len(Configured.servers) /\ AddServer(names[Configured.name], s.address, w)
    <3>1. upstream <= Len(config) /\ Exists(Configured.name) /\ start = "Servers"
      BY <1>2 DEF AddConfigured, PlaceSound
    <3>2. Configured.name \in Names /\ Configured.servers \in Seq([address : Addresses, weight : Nat])
      <4> DEFINE U == [name : Names, type : STRING, try_another : BOOLEAN,
                       servers : Seq([address : Addresses, weight : Nat])]
      <4>1. config \in Seq(U)
        BY ConfigAssumption DEF NInv, NameTypes
      <4>2. upstream \in 1..Len(config)
        BY <3>1, ConfiguredType
      <4>3. config[upstream] \in U
        <5> HIDE DEF U
        <5> QED
          BY <4>1, <4>2, ElementOfSeq
      <4> QED
        BY <4>3 DEF Configured
    <3>3. server \in 1..Len(Configured.servers)
      <4>1. Len(Configured.servers) \in Nat
        BY <3>2, LenProperties
      <4> QED
        BY <2>1, <4>1 DEF PlaceSound
    <3>4. s \in [address : Addresses, weight : Nat]
      <4> DEFINE R == [address : Addresses, weight : Nat]
      <4> HIDE DEF R
      <4>1. Configured.servers \in Seq(R)
        BY <3>2 DEF R
      <4>2. s \in R
        BY <3>3, <4>1, ElementOfSeq
      <4> QED
        BY <4>2 DEF R
    <3> HIDE DEF s
    <3>5. s.address \in Addresses /\ w \in Nat
      BY <3>4
    <3>6. names[Configured.name] \in InUse
      BY <3>1, <3>2, NamedInUse
    <3> HIDE DEF w
    <3> QED
      BY <2>1, <3>5, <3>6 DEF ServersAdd
  <2> QED
    BY <1>2, <2>1 DEF AddConfigured
<1>3. CASE BeginStart \/ SkipUpstream \/ StartServer \/ CleanupUpstreams \/ AppDelete \/ UNCHANGED vars
  BY <1>3 DEF BeginStart, SkipUpstream, StartServer, CleanupUpstreams, AppDelete, DeleteUpstream, vars
<1>4. CASE ConfigureUpstream
  <2>1. AppName \in Names /\ "weighted_random" \in Kinds
    BY ConfigAssumption DEF Kinds
  <2> QED
    BY <1>4, <2>1 DEF ConfigureUpstream, UpstreamNew
<1>5. CASE AddAppServer
  <2> DEFINE s == AppServers[Len(servers[names[AppName]]) + 1]
  <2>1. CASE ~AppServersDone /\ AddServer(names[AppName], s.address, s.weight)
    <3>0. AppName \in Names /\ Exists(AppName)
      BY <1>5, ConfigAssumption DEF AddAppServer
    <3>1. names[AppName] \in InUse
      BY <3>0, NamedInUse
    <3>2. PICK i \in Nat : i = Len(servers[names[AppName]])
      BY <3>1, ServerFacts DEF InUse
    <3>3. i + 1 \in 1..Len(AppServers)
      <4>1. Len(AppServers) \in Nat
        BY ConfigAssumption, LenProperties
      <4> QED
        BY <2>1, <3>2, <4>1 DEF AppServersDone
    <3>4. s \in [address : Addresses, weight : Nat]
      <4> DEFINE R == [address : Addresses, weight : Nat]
      <4>1. AppServers \in Seq(R)
        BY ConfigAssumption
      <4> HIDE DEF R
      <4>2. AppServers[i + 1] \in R
        BY <3>3, <4>1, ElementOfSeq
      <4> QED
        BY <3>2, <4>2 DEF R
    <3> HIDE DEF s
    <3>5. s.address \in Addresses /\ s.weight \in Nat
      BY <3>4
    <3> QED
      BY <2>1, <3>1, <3>5 DEF ServersAdd
  <2> QED
    BY <1>5, <2>1 DEF AddAppServer
<1>6. CASE \E n \in Names, a \in Addresses : ChangeServers(n, a)
  <2>1. PICK n \in Names, a \in Addresses : ChangeServers(n, a)
    BY <1>6
  <2>2. names[n] \in InUse
    BY <2>1, NamedInUse DEF ChangeServers
  <2>3. AddServer(names[n], a, AppWeight) \/ RemoveServer(names[n], a)
    BY <2>1 DEF ChangeServers
  <2> QED
    BY <2>2, <2>3, ConfigAssumption DEF ServersAdd, ServersRemove
<1>7. CASE \E t \in Tasks, n \in Names : RouteTask(t, n)
  <2>1. PICK t \in Tasks, n \in Names : RouteTask(t, n)
    BY <1>7
  <2>2. names[n] \in InUse /\ Route(t, names[n])
    BY <2>1, NamedInUse DEF RouteTask
  <2> QED
    BY <2>2 DEF TaskMove
<1>8. CASE \E t \in Tasks : TaskStep(t)
  BY <1>8 DEF TaskMove
<1>9. CASE Environment
  BY <1>9 DEF Environment
<1> QED
  BY <1>1, <1>2, <1>3, <1>4, <1>5, <1>6, <1>7, <1>8, <1>9 DEF Next, StartStep, AppStep

\* A step keeps the servers.
LEMMA KeepStep ==
  ASSUME NInv, PlaceSound, KInv, BInv, [Next]_vars PROVE KInv'
<1>1. CASE UNCHANGED ups
  BY <1>1, SameKeeps
<1>2. CASE ServersAdd
  BY <1>2, AddServerKeeps DEF ServersAdd, InUse
<1>3. CASE ServersRemove
  BY <1>3, RemoveServerKeeps DEF ServersRemove, InUse
<1>4. CASE UpstreamNew
  BY <1>4, CreateKeeps DEF UpstreamNew
<1>5. CASE Tick
  BY <1>5, TickKeeps
<1>6. ASSUME NEW t \in Tasks, TaskStep(t) PROVE KInv'
  BY <1>6, CheckBreakerKeeps, WeightedChooses, HashChooses, FindChooses, AnotherChooses, ChoiceKeeps, TryClearKeeps, SuccessKeeps,
     RecoverKeeps, FailedKeeps, ReleaseKeeps, DeleteKeeps DEF TaskStep
<1>7. ASSUME NEW t \in Tasks, NEW p \in InUse, Route(t, p) PROVE KInv'
  BY <1>7, RouteKeeps DEF InUse
<1> QED
  BY <1>1, <1>2, <1>3, <1>4, <1>5, <1>6, <1>7, Layer DEF TaskMove

\* At first there is no server.
LEMMA KeepInit ==
  ASSUME Init PROVE KInv /\ BInv /\ PlaceSound
<1>1. /\ policy = [p \in Policies |-> [kind |-> "none", try_another |-> FALSE]]
      /\ servers = [p \in Policies |-> <<>>] /\ breaker_list = [p \in Policies |-> <<>>]
      /\ pre_generated_vec = [p \in Policies |-> <<>>] /\ total_weight = [p \in Policies |-> 0]
      /\ endpoint = [o \in Endpoints |-> NoEndpoint] /\ tpc = [t \in Tasks |-> "Idle"]
      /\ sg = [t \in Tasks |-> 0] /\ history = [t \in Tasks |-> <<>>] /\ now = 0
      /\ server = 1 /\ start = "Idle"
  BY DEF Init, UpsInit
<1>2. KeepTypes
  <2>1. <<>> \in Seq(Endpoints)
    BY EmptySeq
  <2> QED
    BY <1>1, <2>1 DEF KeepTypes
<1>3. TaskTypes /\ TasksSound
  BY <1>1 DEF TaskTypes, TasksSound, TaskStates, Asking, Selecting
<1>4. Live = {}
  BY <1>1 DEF Live, NoEndpoint
<1>5. TotalExact
  <2>1. Range(<<>>) = {} /\ Weighed(endpoint, {})
    BY FS_EmptySet DEF Range, Weighed
  <2>2. Sum(endpoint, {}) = 0
    BY <2>1, SumStep
  <2> QED
    BY <1>1, <2>1, <2>2 DEF TotalExact
<1>6. ServersLive /\ HistoryLive /\ Deleting /\ VirtualSound
  BY <1>1 DEF ServersLive, HistoryLive, Deleting, VirtualSound
<1>7. Counted /\ FusedIsListed
  BY <1>4 DEF Counted, FusedIsListed
<1>8. ListSound
  BY <1>1 DEF ListSound
<1>9. PlaceSound
  BY <1>1 DEF PlaceSound
<1> QED
  BY <1>2, <1>3, <1>5, <1>6, <1>7, <1>8, <1>9 DEF KInv, BInv

\* The invariant gives ServersKept.
LEMMA KeepGives ==
  ASSUME KInv PROVE ServersKept
<1>1. \A p \in Policies : Range(servers[p]) \subseteq Live
  BY ServerFacts DEF LiveIn
<1>2. ASSUME NEW t \in Tasks PROVE Range(history[t]) \subseteq Live
  <2>1. Range(history[t]) = {history[t][i] : i \in 1..Len(history[t])}
    BY LenProperties DEF KInv, KeepTypes, Range
  <2> QED
    BY <2>1 DEF KInv, HistoryLive, LiveIn
<1>3. ASSUME NEW o \in Live PROVE endpoint[o].ref = Uses(o)
  <2>1. PICK r \in Policies : r = endpoint[o].policy
    BY LiveFacts DEF KInv
  <2>2. ASSUME NEW p \in Policies, Contains(servers[p], o) PROVE p = r
    BY <2>1, <2>2, ServerFacts DEF LiveIn
  <2>3. CASE Contains(servers[r], o)
    <3>1. {p \in Policies : Contains(servers[p], o)} = {r}
      BY <2>2, <2>3
    <3>2. Cardinality({r}) = 1
      BY FS_Singleton
    <3> QED
      BY <2>1, <2>3, <3>1, <3>2, RefPositive DEF Uses, InPolicy
  <2>4. CASE ~Contains(servers[r], o)
    <3>1. {p \in Policies : Contains(servers[p], o)} = {}
      BY <2>2, <2>4
    <3>2. Cardinality({}) = 0
      BY FS_EmptySet
    <3> QED
      BY <2>1, <2>4, <3>1, <3>2, RefPositive DEF Uses, InPolicy
  <2> QED
    BY <2>3, <2>4
<1> QED
  BY <1>1, <1>2, <1>3 DEF ServersKept

-----------------------------------------------------------------------------
(* The breaker *)

\* A step that leaves the lists alone, and after which nobody has failed who was not in one.
Calm ==
  /\ breaker_list' = breaker_list /\ now' \in Nat /\ now <= now'
  /\ \A o \in Live : /\ o \in Live' /\ endpoint'[o].policy = endpoint[o].policy
                     /\ endpoint'[o].broken_timeout = endpoint[o].broken_timeout
  /\ \A o \in Live' : Fused(o)' => Listed(o)

\* Such a step keeps the breaker.
LEMMA CalmKeeps ==
  ASSUME KInv, BInv, Calm PROVE BInv'
<1>1. FusedIsListed'
  <2>1. \A o : Listed(o)' <=> Listed(o)
    BY DEF Calm, Listed
  <2> QED
    BY <2>1 DEF Calm, FusedIsListed
<1>2. now \in Nat /\ now' \in Nat /\ now <= now' /\ Mttr \in Nat
  BY UpstreamAssumption DEF KInv, KeepTypes, Calm
<1>3. ASSUME NEW p \in Policies, NEW i \in 1..Len(breaker_list[p])
      PROVE  /\ breaker_list[p][i] \in Live' /\ endpoint'[breaker_list[p][i]].policy = p
             /\ endpoint'[breaker_list[p][i]].broken_timeout = endpoint[breaker_list[p][i]].broken_timeout
             /\ endpoint'[breaker_list[p][i]].broken_timeout <= now' + Mttr
  <2>1. PICK o \in Live : o = breaker_list[p][i] /\ endpoint[o].policy = p /\ endpoint[o].broken_timeout <= now + Mttr
    BY DEF BInv, ListSound, LiveIn
  <2>2. o \in Live' /\ endpoint'[o].policy = p /\ endpoint'[o].broken_timeout = endpoint[o].broken_timeout
    BY <2>1 DEF Calm
  <2>3. endpoint[o].broken_timeout \in Nat
    BY LiveFacts DEF KInv
  <2>4. endpoint'[o].broken_timeout <= now' + Mttr
    BY <1>2, <2>1, <2>2, <2>3
  <2> QED
    BY <2>1, <2>2, <2>4
<1>4. ASSUME NEW p \in Policies, NEW i \in 1..Len(breaker_list[p]), NEW j \in 1..Len(breaker_list[p]), i < j
      PROVE  /\ breaker_list[p][i] # breaker_list[p][j]
             /\ endpoint'[breaker_list[p][i]].broken_timeout <= endpoint'[breaker_list[p][j]].broken_timeout
  <2>1. /\ breaker_list[p][i] # breaker_list[p][j]
        /\ endpoint[breaker_list[p][i]].broken_timeout <= endpoint[breaker_list[p][j]].broken_timeout
    BY <1>4 DEF BInv, ListSound
  <2> QED
    BY <1>3, <2>1
<1>5. ListSound'
  BY <1>3, <1>4 DEF ListSound, LiveIn, Calm
<1> QED
  BY <1>1, <1>5 DEF BInv

\* No server changes.
LEMMA CalmSame ==
  ASSUME KInv, BInv, UNCHANGED <<breaker_list, endpoint>>, now' \in Nat, now <= now' PROVE Calm
BY DEF BInv, FusedIsListed, Calm, Live, Fused, Fails

\* A server leaves a list: the others stay in their order.
Thinned(p, at) ==
  /\ at \in [1..Len(breaker_list'[p]) -> 1..Len(breaker_list[p])]
  /\ \A i \in 1..Len(breaker_list'[p]) : breaker_list'[p][i] = breaker_list[p][at[i]]
  /\ \A i, j \in 1..Len(breaker_list'[p]) : i < j => at[i] < at[j]
  /\ \A r \in Policies : r # p => breaker_list'[r] = breaker_list[r]
  /\ \A r \in Policies : \A i \in 1..Len(breaker_list'[r]) :
       /\ breaker_list'[r][i] \in Live'
       /\ endpoint'[breaker_list'[r][i]].policy = endpoint[breaker_list'[r][i]].policy
       /\ endpoint'[breaker_list'[r][i]].broken_timeout = endpoint[breaker_list'[r][i]].broken_timeout

\* Then the lists are still sound.
LEMMA ThinnedKeeps ==
  ASSUME KInv, BInv, NEW p \in Policies, NEW at, Thinned(p, at), now' = now PROVE ListSound'
<1>1. ASSUME NEW r \in Policies, NEW i \in 1..Len(breaker_list'[r])
      PROVE  /\ breaker_list'[r][i] \in Live' /\ endpoint'[breaker_list'[r][i]].policy = r
             /\ endpoint'[breaker_list'[r][i]].broken_timeout <= now + Mttr
  <2>1. PICK j \in 1..Len(breaker_list[r]) : breaker_list'[r][i] = breaker_list[r][j]
    BY DEF Thinned
  <2>2. LiveIn(breaker_list[r][j], r) /\ endpoint[breaker_list[r][j]].broken_timeout <= now + Mttr
    BY DEF BInv, ListSound
  <2>3. /\ breaker_list'[r][i] \in Live'
        /\ endpoint'[breaker_list'[r][i]].policy = endpoint[breaker_list'[r][i]].policy
        /\ endpoint'[breaker_list'[r][i]].broken_timeout = endpoint[breaker_list'[r][i]].broken_timeout
    BY DEF Thinned
  <2> QED
    BY <2>1, <2>2, <2>3 DEF LiveIn
<1>2. ASSUME NEW r \in Policies, NEW i \in 1..Len(breaker_list'[r]), NEW j \in 1..Len(breaker_list'[r]), i < j
      PROVE  /\ breaker_list'[r][i] # breaker_list'[r][j]
             /\ endpoint'[breaker_list'[r][i]].broken_timeout <= endpoint'[breaker_list'[r][j]].broken_timeout
  <2>1. PICK k \in 1..Len(breaker_list[r]), l \in 1..Len(breaker_list[r]) :
          /\ breaker_list'[r][i] = breaker_list[r][k] /\ breaker_list'[r][j] = breaker_list[r][l] /\ k < l
    <3>1. CASE r = p
      <4>1. at[i] \in 1..Len(breaker_list[r]) /\ at[j] \in 1..Len(breaker_list[r]) /\ at[i] < at[j]
        BY <1>2, <3>1 DEF Thinned
      <4>2. breaker_list'[r][i] = breaker_list[r][at[i]] /\ breaker_list'[r][j] = breaker_list[r][at[j]]
        BY <3>1 DEF Thinned
      <4> QED
        BY <4>1, <4>2
    <3>2. CASE r # p
      BY <1>2, <3>2 DEF Thinned
    <3> QED
      BY <3>1, <3>2
  <2>2. /\ breaker_list[r][k] # breaker_list[r][l]
        /\ endpoint[breaker_list[r][k]].broken_timeout <= endpoint[breaker_list[r][l]].broken_timeout
    BY <2>1 DEF BInv, ListSound
  <2>3. /\ endpoint'[breaker_list'[r][i]].broken_timeout = endpoint[breaker_list'[r][i]].broken_timeout
        /\ endpoint'[breaker_list'[r][j]].broken_timeout = endpoint[breaker_list'[r][j]].broken_timeout
    BY DEF Thinned
  <2> QED
    BY <2>1, <2>2, <2>3
<1> QED
  BY <1>1, <1>2 DEF ListSound, LiveIn

\* check_breaker_locked
LEMMA LockedBreaker ==
  ASSUME KInv, BInv, NEW p \in Policies, NEW k \in 0..Len(breaker_list[p]), CheckBreakerLocked(p, k), now' = now
  PROVE  BInv'
<1>1. /\ Steady /\ breaker_list' \in [Policies -> Seq(Endpoints)]
      /\ breaker_list'[p] = SubSeq(breaker_list[p], k + 1, Len(breaker_list[p]))
      /\ \A r \in Policies : r # p => breaker_list'[r] = breaker_list[r]
      /\ \A o \in Leaving(p, k) : LiveIn(o, p) /\ endpoint'[o].fail_count = MaxFails[endpoint[o].address] - 1
      /\ \A o \in Endpoints : o \notin Leaving(p, k) => endpoint'[o] = endpoint[o]
      /\ \A o \in Live : endpoint'[o].broken_timeout = endpoint[o].broken_timeout
  BY LockedFacts
<1>2. Live' = Live /\ \A o, r : LiveIn(o, r)' <=> LiveIn(o, r)
  BY <1>1, SteadyLive
<1>3. PICK l \in Seq(Endpoints) : l = breaker_list[p]
  BY DEF KInv, KeepTypes
<1>4. /\ Len(l) \in Nat /\ Len(breaker_list'[p]) = Len(l) - k
      /\ \A i \in 1..(Len(l) - k) : k + i \in 1..Len(l) /\ breaker_list'[p][i] = l[k + i]
  BY <1>1, <1>3, ListSuffix
<1> DEFINE at == [i \in 1..(Len(l) - k) |-> k + i]
<1>5. Thinned(p, at)
  <2>1. at \in [1..(Len(l) - k) -> 1..Len(l)] /\ \A i, j \in 1..(Len(l) - k) : i < j => at[i] < at[j]
    BY <1>4
  <2>2. \A i \in 1..Len(breaker_list'[p]) : breaker_list'[p][i] = breaker_list[p][at[i]]
    BY <1>3, <1>4
  <2> HIDE DEF at
  <2>3. ASSUME NEW r \in Policies, NEW i \in 1..Len(breaker_list'[r])
        PROVE  breaker_list'[r][i] \in Live
    <3>1. \E j \in 1..Len(breaker_list[r]) : breaker_list'[r][i] = breaker_list[r][j]
      <4>1. CASE r = p
        <5>1. i \in 1..(Len(l) - k)
          BY ONLY <1>4, <4>1, <2>3
        <5>2. k + i \in 1..Len(l) /\ breaker_list'[p][i] = l[k + i]
          BY ONLY <1>4, <5>1
        <5> QED
          BY ONLY <1>3, <4>1, <5>2
      <4>2. CASE r # p
        <5>1. breaker_list'[r] = breaker_list[r]
          BY <1>1, <4>2
        <5> QED
          BY ONLY <5>1, <2>3
      <4> QED
        BY ONLY <4>1, <4>2
    <3> QED
      BY <3>1 DEF BInv, ListSound, LiveIn
  <2> QED
    BY <1>1, <1>2, <1>3, <1>4, <2>1, <2>2, <2>3 DEF Thinned, Steady
<1> HIDE DEF at
<1>6. ListSound'
  BY <1>5, ThinnedKeeps
<1>7. ASSUME NEW o \in Live, Fused(o)' PROVE Listed(o)'
  <2>1. o \in Endpoints /\ MaxFails[endpoint[o].address] \in Nat \ {0} /\ endpoint'[o].address = endpoint[o].address
    BY <1>1, LiveFacts DEF KInv, Steady
  <2>2. o \notin Leaving(p, k)
    <3>1. ASSUME o \in Leaving(p, k) PROVE FALSE
      <4>1. endpoint'[o].fail_count = MaxFails[endpoint[o].address] - 1
        BY <1>1, <3>1
      <4>2. endpoint'[o].fail_count >= MaxFails[endpoint[o].address]
        BY <1>7, <2>1 DEF Fused, Fails
      <4> QED
        BY <2>1, <4>1, <4>2
    <3> QED
      BY <3>1
  <2>3. Fused(o)
    BY <1>1, <1>7, <2>1, <2>2 DEF Fused, Fails
  <2>4. PICK r \in Policies : Contains(breaker_list[r], o)
    BY <2>3 DEF BInv, FusedIsListed, Listed
  <2>5. PICK i \in 1..Len(breaker_list[r]) : breaker_list[r][i] = o
    BY <2>4 DEF Contains
  <2>6. CASE r # p
    BY <1>1, <2>4, <2>6 DEF Listed
  <2>7. CASE r = p
    <3>1. i \notin 1..k
      BY <2>2, <2>5, <2>7 DEF Leaving
    <3>2. i - k \in 1..(Len(l) - k) /\ k + (i - k) = i
      BY <1>3, <1>4, <2>7, <3>1
    <3>3. PICK j \in 1..(Len(l) - k) : k + j = i
      BY <3>2
    <3>4. breaker_list'[p][j] = o /\ j \in 1..Len(breaker_list'[p])
      BY <1>3, <1>4, <2>5, <2>7, <3>3
    <3> QED
      BY <3>4 DEF Listed, Contains
  <2> QED
    BY <2>6, <2>7
<1> QED
  BY <1>2, <1>6, <1>7 DEF BInv, FusedIsListed

\* recover_server_from_breaker and pre_delete_server: the servers in D leave the list of p.
Dropped(p, D) ==
  /\ breaker_list' = [breaker_list EXCEPT ![p] = Without(breaker_list[p], D)] /\ now' = now
  /\ \A o \in D : o \in Live => endpoint[o].policy = p
  /\ \A o \in Live \ D : /\ o \in Live' /\ endpoint'[o].policy = endpoint[o].policy
                         /\ endpoint'[o].broken_timeout = endpoint[o].broken_timeout
  /\ \A o \in Live' : Fused(o)' => Listed(o) /\ o \notin D

\* Such a step keeps the breaker.
LEMMA DroppedBreaker ==
  ASSUME KInv, BInv, NEW p \in Policies, NEW D, Dropped(p, D) PROVE BInv'
<1>1. PICK l \in Seq(Endpoints) : l = breaker_list[p]
  BY DEF KInv, KeepTypes
<1>2. PICK kept \in Seq(Endpoints) : kept = Without(l, D)
  BY WithoutIs
<1>3. PICK at : Subsequence(kept, l, D, Len(l), at)
  BY <1>2, WithoutIs
<1>4. breaker_list'[p] = kept /\ \A r \in Policies : r # p => breaker_list'[r] = breaker_list[r]
  BY <1>1, <1>2 DEF Dropped, KInv, KeepTypes
<1>5. Thinned(p, at)
  <2>1. /\ at \in [1..Len(kept) -> 1..Len(l)] /\ \A i \in 1..Len(kept) : kept[i] = l[at[i]] /\ kept[i] \notin D
        /\ \A i, j \in 1..Len(kept) : i < j => at[i] < at[j]
    BY <1>3 DEF Subsequence
  <2>2. ASSUME NEW r \in Policies, NEW i \in 1..Len(breaker_list'[r]) PROVE breaker_list'[r][i] \in Live \ D
    <3>1. CASE r = p
      <4>1. PICK j \in 1..Len(l) : kept[i] = l[j] /\ kept[i] \notin D
        BY <1>4, <2>1, <3>1
      <4>2. LiveIn(l[j], p)
        BY <1>1 DEF BInv, ListSound
      <4> QED
        BY <1>4, <3>1, <4>1, <4>2 DEF LiveIn
    <3>2. CASE r # p
      <4>1. LiveIn(breaker_list[r][i], r) /\ breaker_list'[r] = breaker_list[r]
        BY <1>4, <3>2 DEF BInv, ListSound
      <4> QED
        BY <3>2, <4>1 DEF LiveIn, Dropped
    <3> QED
      BY <3>1, <3>2
  <2> QED
    BY <1>1, <1>4, <2>1, <2>2 DEF Thinned, Dropped
<1>6. ListSound'
  BY <1>5, ThinnedKeeps DEF Dropped
<1>7. ASSUME NEW o \in Live', Fused(o)' PROVE Listed(o)'
  <2>1. Listed(o) /\ o \notin D
    BY <1>7 DEF Dropped
  <2>2. PICK r \in Policies : Contains(breaker_list[r], o)
    BY <2>1 DEF Listed
  <2>3. CASE r # p
    BY <1>4, <2>2, <2>3 DEF Listed
  <2>4. CASE r = p
    <3>1. PICK i \in 1..Len(l) : l[i] = o
      BY <1>1, <2>2, <2>4 DEF Contains
    <3>2. PICK j \in 1..Len(kept) : at[j] = i
      BY <1>3, <2>1, <3>1 DEF Subsequence
    <3>3. kept[j] = o
      BY <1>3, <3>1, <3>2 DEF Subsequence
    <3> QED
      BY <1>4, <3>3 DEF Listed, Contains
  <2> QED
    BY <2>3, <2>4
<1> QED
  BY <1>6, <1>7 DEF BInv, FusedIsListed

\* fuse_server_to_breaker: a server that is not in the list goes to its end.
LEMMA FuseBreaker ==
  ASSUME KInv, BInv, NEW p \in Policies, NEW o \in Live, endpoint[o].policy = p, NEW n \in Nat,
         FuseServerToBreaker(p, o, n), now' = now
  PROVE  BInv'
<1>1. /\ Steady /\ breaker_list' \in [Policies -> Seq(Endpoints)]
      /\ endpoint'[o].fail_count = n
      /\ \A q \in Endpoints : q # o => endpoint'[q] = endpoint[q]
      /\ Listed(o) => breaker_list' = breaker_list /\ endpoint'[o].broken_timeout = endpoint[o].broken_timeout
      /\ ~Listed(o) => /\ breaker_list' = [breaker_list EXCEPT ![p] = Append(@, o)]
                       /\ endpoint'[o].broken_timeout = now + Mttr
  BY FuseFacts
<1>2. Live' = Live /\ (\A q, r : LiveIn(q, r)' <=> LiveIn(q, r)) /\ \A q \in Live : q \in Endpoints
  BY <1>1, SteadyLive DEF Live
<1>3. \A q \in Live : q # o /\ Fused(q)' => Listed(q)
  BY <1>1, <1>2 DEF BInv, FusedIsListed, Fused, Fails
<1>4. CASE Listed(o)
  <2>1. now \in Nat
    BY DEF KInv, KeepTypes
  <2>2. now <= now' /\ now' \in Nat
    BY <2>1
  <2>3. Calm
    BY <1>1, <1>2, <1>3, <1>4, <2>2 DEF Calm, Steady
  <2> QED
    BY <2>3, CalmKeeps
<1>5. CASE ~Listed(o)
  <2>1. PICK l \in Seq(Endpoints) : l = breaker_list[p]
    BY DEF KInv, KeepTypes
  <2>2. /\ Len(l) \in Nat /\ breaker_list'[p] = Append(l, o) /\ Len(breaker_list'[p]) = Len(l) + 1
        /\ breaker_list'[p][Len(l) + 1] = o /\ (\A i \in 1..Len(l) : breaker_list'[p][i] = l[i])
        /\ \A r \in Policies : r # p => breaker_list'[r] = breaker_list[r]
    <3>1. Len(l) \in Nat /\ breaker_list'[p] = Append(l, o) /\ \A r \in Policies : r # p => breaker_list'[r] = breaker_list[r]
      BY <1>1, <1>5, <2>1, LenProperties DEF KInv, KeepTypes
    <3>2. o \in Endpoints
      BY <1>2
    <3> QED
      BY <3>1, <3>2, AppendProperties
  <2>3. now + Mttr \in Nat /\ endpoint'[o].broken_timeout = now + Mttr
    BY <1>1, <1>5, UpstreamAssumption DEF KInv, KeepTypes
  <2>4. ASSUME NEW r \in Policies, NEW i \in 1..Len(breaker_list[r])
        PROVE  /\ breaker_list[r][i] # o /\ breaker_list[r][i] \in Live
               /\ endpoint'[breaker_list[r][i]] = endpoint[breaker_list[r][i]]
               /\ endpoint[breaker_list[r][i]].policy = r
               /\ endpoint[breaker_list[r][i]].broken_timeout <= now + Mttr
    <3>1. breaker_list[r][i] # o
      BY <1>5 DEF Listed, Contains
    <3>2. LiveIn(breaker_list[r][i], r) /\ endpoint[breaker_list[r][i]].broken_timeout <= now + Mttr
      BY DEF BInv, ListSound
    <3> QED
      BY <1>1, <1>2, <3>1, <3>2 DEF LiveIn
  <2>5. \A i : i \in 1..(Len(l) + 1) <=> i \in 1..Len(l) \/ i = Len(l) + 1
    BY <2>2
  <2>6. ASSUME NEW r \in Policies, NEW i \in 1..Len(breaker_list'[r])
        PROVE  /\ breaker_list'[r][i] \in Live /\ endpoint'[breaker_list'[r][i]].policy = r
               /\ endpoint'[breaker_list'[r][i]].broken_timeout <= now + Mttr
    <3>1. CASE i \in 1..Len(breaker_list[r]) /\ breaker_list'[r][i] = breaker_list[r][i]
      BY <2>4, <3>1
    <3>2. CASE r = p /\ i = Len(l) + 1
      BY <1>1, <2>2, <2>3, <3>2 DEF Steady
    <3> QED
      BY <2>1, <2>2, <2>5, <3>1, <3>2
  <2>7. ASSUME NEW r \in Policies, NEW i \in 1..Len(breaker_list'[r]), NEW j \in 1..Len(breaker_list'[r]), i < j
        PROVE  /\ breaker_list'[r][i] # breaker_list'[r][j]
               /\ endpoint'[breaker_list'[r][i]].broken_timeout <= endpoint'[breaker_list'[r][j]].broken_timeout
    <3>1. CASE /\ i \in 1..Len(breaker_list[r]) /\ j \in 1..Len(breaker_list[r])
               /\ breaker_list'[r][i] = breaker_list[r][i] /\ breaker_list'[r][j] = breaker_list[r][j]
      BY <2>4, <2>7, <3>1 DEF BInv, ListSound
    <3>2. CASE r = p /\ j = Len(l) + 1
      <4>1. i \in 1..Len(l)
        BY <2>2, <2>5, <2>7, <3>2
      <4> QED
        <5>1. breaker_list'[r][j] = o /\ breaker_list'[r][i] = breaker_list[p][i]
          BY ONLY <2>1, <2>2, <3>2, <4>1
        <5>2. /\ breaker_list[p][i] # o
              /\ endpoint'[breaker_list[p][i]] = endpoint[breaker_list[p][i]]
              /\ endpoint[breaker_list[p][i]].broken_timeout <= now + Mttr
          BY <2>1, <2>4, <4>1
        <5> QED
          BY ONLY <2>3, <5>1, <5>2
    <3>3. CASE r = p /\ i = Len(l) + 1
      BY <2>2, <2>5, <2>7, <3>3
    <3> QED
      BY <2>1, <2>2, <2>5, <3>1, <3>2, <3>3
  <2>8. ListSound'
    BY <1>2, <2>6, <2>7 DEF ListSound, LiveIn
  <2>9. ASSUME NEW q \in Live, Fused(q)' PROVE Listed(q)'
    <3>1. CASE q = o
      <4>1. Contains(breaker_list'[p], o)
        BY <2>2, <2>5 DEF Contains
      <4> QED
        BY <3>1, <4>1 DEF Listed
    <3>2. CASE q # o
      <4>1. PICK r \in Policies : Contains(breaker_list[r], q)
        BY <1>3, <2>9, <3>2 DEF Listed
      <4>2. Contains(breaker_list'[r], q)
        BY <2>1, <2>2, <2>5, <4>1 DEF Contains
      <4> QED
        BY <4>2 DEF Listed
    <3> QED
      BY <3>1, <3>2
  <2> QED
    BY <1>2, <2>8, <2>9 DEF BInv, FusedIsListed
<1> QED
  BY <1>4, <1>5

\* What neither fails nor fuses a server.
LEMMA QuietBreaker ==
  ASSUME KInv, BInv, UNCHANGED <<breaker_list, endpoint, now>> PROVE BInv'
<1>1. now \in Nat
  BY DEF KInv, KeepTypes
<1>2. now' \in Nat /\ now <= now'
  BY <1>1
<1> QED
  BY <1>2, CalmSame, CalmKeeps

\* A reference is counted.
LEMMA RefBreaker ==
  ASSUME KInv, BInv, NEW o \in Live, NEW n \in Int, endpoint' = [endpoint EXCEPT ![o].ref = n], UNCHANGED <<breaker_list, now>>
  PROVE  BInv'
<1>1. /\ Live' = Live
      /\ \A q \in Live : /\ endpoint'[q].policy = endpoint[q].policy /\ endpoint'[q].address = endpoint[q].address
                         /\ endpoint'[q].fail_count = endpoint[q].fail_count
                         /\ endpoint'[q].broken_timeout = endpoint[q].broken_timeout
  BY RefFacts DEF KInv
<1>2. now \in Nat
  BY DEF KInv, KeepTypes
<1>3. now' \in Nat /\ now <= now'
  BY <1>2
<1>4. Calm
  BY <1>1, <1>3 DEF Calm, BInv, FusedIsListed, Fused, Fails
<1> QED
  BY <1>4, CalmKeeps

\* fail_count changes and the list does not: a server that counts as failed did so before.
LEMMA FailsBreaker ==
  ASSUME KInv, BInv, NEW o \in Live, NEW n \in Nat, endpoint' = [endpoint EXCEPT ![o].fail_count = n],
         UNCHANGED <<breaker_list, now>>, n >= MaxFails[endpoint[o].address] => Listed(o)
  PROVE  BInv'
<1>1. /\ Steady /\ endpoint'[o].fail_count = n /\ endpoint'[o].broken_timeout = endpoint[o].broken_timeout
      /\ \A q \in Endpoints : q # o => endpoint'[q] = endpoint[q]
  BY SteadyFails DEF KInv
<1>2. Live' = Live /\ \A q \in Live : q \in Endpoints
  BY <1>1, SteadyLive DEF Live
<1>3. ASSUME NEW q \in Live, Fused(q)' PROVE Listed(q)
  <2>1. CASE q = o
    <3>1. endpoint'[o].address = endpoint[o].address
      BY <1>1 DEF Steady
    <3> QED
      BY <1>1, <1>3, <2>1, <3>1 DEF Fused, Fails
  <2>2. CASE q # o
    BY <1>1, <1>2, <1>3, <2>2 DEF Fused, Fails, BInv, FusedIsListed
  <2> QED
    BY <2>1, <2>2
<1>4. now \in Nat
  BY DEF KInv, KeepTypes
<1>5. now' \in Nat /\ now <= now'
  BY <1>4
<1>6. Calm
  BY <1>1, <1>2, <1>3, <1>5 DEF Calm, Steady
<1> QED
  BY <1>6, CalmKeeps

\* The strategies.
LEMMA ChoiceBreaker ==
  ASSUME KInv, BInv, NEW t \in Tasks, Chooses(t) PROVE BInv'
<1>1. UNCHANGED <<breaker_list, now>>
  BY DEF Chooses
<1>2. CASE UNCHANGED endpoint
  BY <1>1, <1>2, QuietBreaker
<1>3. ASSUME NEW o \in Range(servers[sg[t]]), Select(t, o) PROVE BInv'
  <2>1. sg[t] \in Policies
    BY DEF Chooses, KInv, TaskTypes, Selecting
  <2>2. o \in Live
    BY <2>1, ServerFacts DEF LiveIn
  <2>3. PICK n \in Int : n = endpoint[o].ref + 1
    BY <2>2, LiveFacts DEF KInv
  <2> QED
    BY <1>1, <1>3, <2>2, <2>3, RefBreaker DEF Select
<1> QED
  BY <1>2, <1>3 DEF Chooses

\* check_breaker and try_clear_breaker.
LEMMA CheckedBreaker ==
  ASSUME KInv, BInv, NEW t \in Tasks, CheckBreaker(t) \/ TryClearBreaker(t) PROVE BInv'
<1>1. sg[t] \in Policies /\ now' = now
  BY DEF CheckBreaker, TryClearBreaker, Goto, KInv, TaskTypes
<1>2. PICK p \in Policies : p = sg[t]
  BY <1>1
<1>3. CASE CheckBreaker(t)
  <2>1. CASE Unavailable(t) /\ UNCHANGED breaker_list
    BY <1>1, <2>1, QuietBreaker DEF Unavailable
  <2>2. CASE CheckBreakerLocked(p, ExpiredPrefix(p))
    <3>1. PICK k \in 0..Len(breaker_list[p]) : k = ExpiredPrefix(p)
      BY PrefixIn
    <3> QED
      BY <1>1, <2>2, <3>1, LockedBreaker
  <2> QED
    BY <1>2, <1>3, <2>1, <2>2 DEF CheckBreaker
<1>4. CASE TryClearBreaker(t)
  <2>1. Len(breaker_list[p]) \in Nat
    BY LenProperties DEF KInv, KeepTypes
  <2>2. PICK k \in 0..Len(breaker_list[p]) : CheckBreakerLocked(p, k)
    <3>1. 0 \in 0..Len(breaker_list[p]) /\ Len(breaker_list[p]) \in 0..Len(breaker_list[p])
      BY <2>1
    <3> QED
      BY <1>2, <1>4, <3>1 DEF TryClearBreaker
  <2> QED
    BY <1>1, <2>2, LockedBreaker
<1> QED
  BY <1>3, <1>4

\* success: fail_count is 0 while the server may still be in the list.
LEMMA SuccessBreaker ==
  ASSUME KInv, BInv, NEW t \in Tasks, Success(t) \/ SuccessCheck(t) PROVE BInv'
<1>1. CASE Success(t)
  <2>1. tpc[t] \in Asking /\ UNCHANGED <<breaker_list, now>>
    BY <1>1 DEF Success, Goto, Asking
  <2>2. PICK o \in Live : o = Last(history[t])
    BY <2>1, Asked
  <2>3. ~(0 >= MaxFails[endpoint[o].address])
    BY LiveFacts DEF KInv
  <2> QED
    BY <1>1, <2>1, <2>2, <2>3, FailsBreaker DEF Success
<1>2. CASE SuccessCheck(t)
  BY <1>2, QuietBreaker DEF SuccessCheck
<1> QED
  BY <1>1, <1>2

\* recover_server_from_breaker.
LEMMA RecoverBreaker ==
  ASSUME KInv, BInv, NEW t \in Tasks, RecoverServer(t) PROVE BInv'
<1>1. tpc[t] \in Asking /\ now' = now
  BY DEF RecoverServer, Goto, Asking
<1>2. PICK o \in Live, p \in Policies : o = Last(history[t]) /\ p = sg[t] /\ endpoint[o].policy = p
  BY <1>1, Asked DEF LiveIn
<1>3. /\ endpoint' = [endpoint EXCEPT ![o].fail_count = 0]
      /\ breaker_list' = [breaker_list EXCEPT ![p] = Without(breaker_list[p], {o})]
  BY <1>2 DEF RecoverServer
<1>4. /\ Steady /\ endpoint'[o].fail_count = 0 /\ \A q \in Endpoints : q # o => endpoint'[q] = endpoint[q]
  BY <1>3, SteadyFails DEF KInv
<1>5. Live' = Live /\ \A q \in Live : q \in Endpoints
  BY <1>4, SteadyLive DEF Live
<1>6. ~Fused(o)'
  <2>1. MaxFails[endpoint[o].address] \in Nat \ {0} /\ endpoint'[o].address = endpoint[o].address
    BY <1>4, LiveFacts DEF KInv, Steady
  <2> QED
    BY <1>4, <2>1 DEF Fused, Fails
<1>7. \A q \in Live : Fused(q)' => Listed(q) /\ q # o
  BY <1>4, <1>5, <1>6 DEF Fused, Fails, BInv, FusedIsListed
<1>8. Dropped(p, {o})
  BY <1>1, <1>2, <1>3, <1>4, <1>5, <1>7 DEF Dropped
<1> QED
  BY <1>8, DroppedBreaker

(***************************************************************************)
(* failed: who exceeds max_fails has reached it before, and is in the list *)
(* since.                                                                  *)
(***************************************************************************)
LEMMA FailedBreaker ==
  ASSUME KInv, BInv, NEW t \in Tasks, Failed(t) PROVE BInv'
<1>1. tpc[t] \in Asking /\ now' = now
  BY DEF Failed, Asking
<1>2. PICK o \in Live, p \in Policies : o = Last(history[t]) /\ p = sg[t] /\ endpoint[o].policy = p
  BY <1>1, Asked DEF LiveIn
<1>3. PICK n \in Nat : n = Fails(o) + 1
  BY LiveFacts DEF Fails, KInv
<1>4. CASE FuseServerToBreaker(p, o, n)
  BY <1>1, <1>2, <1>4, FuseBreaker
<1>5. CASE /\ n # MaxFails[endpoint[o].address] /\ endpoint' = [endpoint EXCEPT ![o].fail_count = n] /\ UNCHANGED breaker_list
  <2>1. n >= MaxFails[endpoint[o].address] => Fused(o)
    <3>1. MaxFails[endpoint[o].address] \in Nat /\ Fails(o) \in Nat
      BY LiveFacts DEF KInv, Fails
    <3> QED
      BY <1>3, <1>5, <3>1 DEF Fused
  <2> QED
    BY <1>1, <1>5, <2>1, FailsBreaker DEF BInv, FusedIsListed
<1> QED
  BY <1>2, <1>3, <1>4, <1>5 DEF Failed

\* tracing_deleter.
LEMMA ReleaseBreaker ==
  ASSUME KInv, BInv, NEW t \in Tasks, Release(t) PROVE BInv'
<1>1. UNCHANGED <<breaker_list, now>>
  BY DEF Release
<1>2. CASE UNCHANGED endpoint
  BY <1>1, <1>2, QuietBreaker
<1>3. CASE history[t] # <<>> /\ endpoint' = [endpoint EXCEPT ![Head(history[t])].ref = @ - 1]
  <2>1. PICK o \in Live : o = Head(history[t])
    BY <1>3, HeadLive
  <2>2. PICK n \in Int : n = endpoint[o].ref - 1
    BY LiveFacts DEF KInv
  <2> QED
    BY <1>1, <1>3, <2>1, <2>2, RefBreaker
<1> QED
  BY <1>2, <1>3 DEF Release

\* A server that is deleted leaves the list (pre_delete_server).
LEMMA DeleteBreaker ==
  ASSUME KInv, BInv, NEW t \in Tasks, DeleteServer(t) PROVE BInv'
<1>1. tpc[t] = "Delete" /\ sg[t] \in Policies /\ now' = now
  BY DEF DeleteServer, Goto, KInv, TaskTypes
<1>2. history[t] # <<>>
  BY <1>1 DEF KInv, Deleting
<1>3. PICK o \in Live, p \in Policies : o = Head(history[t]) /\ p = sg[t] /\ endpoint[o].policy = p
  BY <1>1, <1>2, HeadLive DEF LiveIn
<1>4. /\ endpoint' = [endpoint EXCEPT ![o].state = "deleted"]
      /\ breaker_list' = [breaker_list EXCEPT ![p] = Without(breaker_list[p], {o})]
  BY <1>3 DEF DeleteServer, PreDeleteServers
<1>5. o \in Endpoints /\ endpoint[o] \in Objects
  BY LiveFacts DEF KInv
<1>6. endpoint'[o].state = "deleted" /\ \A q \in Endpoints : q # o => endpoint'[q] = endpoint[q]
  BY <1>4, <1>5 DEF KInv, KeepTypes, Objects
<1>7. Live' = Live \ {o} /\ \A q \in Live : q \in Endpoints
  BY <1>6 DEF Live
<1>8. \A q \in Live' : Fused(q)' => Listed(q) /\ q # o
  BY <1>6, <1>7 DEF Fused, Fails, BInv, FusedIsListed
<1>9. Dropped(p, {o})
  BY <1>1, <1>3, <1>4, <1>6, <1>7, <1>8 DEF Dropped
<1> QED
  BY <1>9, DroppedBreaker

\* A new server has not failed.
LEMMA AddBreaker ==
  ASSUME KInv, BInv, NEW p \in Policies, NEW address \in Addresses, NEW weight, AddServer(p, address, weight) PROVE BInv'
<1>1. PICK o \in Endpoints : o = Min(Fresh) /\ endpoint[o].state = "free"
  <2>1. Fresh \in SUBSET Nat /\ Fresh # {}
    BY UpstreamAssumption DEF Fresh, AddServer
  <2>2. Min(Fresh) \in Fresh
    BY ONLY <2>1, MinIn
  <2> QED
    BY <2>2 DEF Fresh
<1>2. PICK w : w = IF weight = 0 THEN 1 ELSE weight
  OBVIOUS
<1> DEFINE e == [state |-> "live", address |-> address, policy |-> p, weight |-> w,
                 fail_count |-> 0, ref |-> 1, broken_timeout |-> 0]
<1>3. endpoint' = [endpoint EXCEPT ![o] = e] /\ UNCHANGED <<breaker_list, now>>
  BY <1>1, <1>2 DEF AddServer
<1>4. e.state = "live" /\ e.fail_count = 0 /\ e.address = address
  OBVIOUS
<1> HIDE DEF e
<1>5. endpoint'[o] = e /\ \A q \in Endpoints : q # o => endpoint'[q] = endpoint[q]
  BY <1>3 DEF KInv, KeepTypes
<1>6. Live' = Live \cup {o} /\ \A q \in Live : q # o /\ q \in Endpoints
  BY <1>1, <1>4, <1>5 DEF Live
<1>7. ~Fused(o)'
  <2>1. MaxFails[address] \in Nat \ {0}
    BY UpstreamAssumption
  <2> QED
    BY <1>4, <1>5, <2>1 DEF Fused, Fails
<1>8. now \in Nat
  BY DEF KInv, KeepTypes
<1>9. now' \in Nat /\ now <= now'
  BY <1>3, <1>8
<1>10. Calm
  BY <1>3, <1>5, <1>6, <1>7, <1>9 DEF Calm, Fused, Fails, BInv, FusedIsListed
<1> QED
  BY <1>10, CalmKeeps

(***************************************************************************)
(* Servers that are removed leave the list if they are deleted, and stay   *)
(* otherwise.                                                              *)
(***************************************************************************)
LEMMA RemoveBreaker ==
  ASSUME KInv, BInv, NEW p \in Policies, NEW address, RemoveServer(p, address) PROVE BInv'
<1> DEFINE out  == {o \in Range(servers[p]) : endpoint[o].address = address}
           dead == {o \in out : endpoint[o].ref = 1}
<1>1. /\ endpoint' = [o \in Endpoints |->
           CASE o \in dead -> [endpoint[o] EXCEPT !.ref = 0, !.state = "deleted"]
             [] o \in out \ dead -> [endpoint[o] EXCEPT !.ref = @ - 1]
             [] OTHER -> endpoint[o]]
      /\ breaker_list' = [breaker_list EXCEPT ![p] = Without(breaker_list[p], dead)] /\ now' = now
  BY DEF RemoveServer, PreDeleteServers
<1>2. dead \subseteq out /\ \A o \in out : LiveIn(o, p)
  BY ServerFacts
<1> HIDE DEF out, dead
<1>3. ASSUME NEW o \in out PROVE o \in Endpoints /\ endpoint[o] \in Objects
  BY <1>2, LiveFacts DEF LiveIn, KInv
<1>4. ASSUME NEW o \in dead PROVE endpoint'[o].state = "deleted"
  BY <1>1, <1>2, <1>3 DEF Objects
<1>5. ASSUME NEW o \in out \ dead
      PROVE  /\ endpoint'[o].state = endpoint[o].state /\ endpoint'[o].policy = endpoint[o].policy
             /\ endpoint'[o].address = endpoint[o].address /\ endpoint'[o].fail_count = endpoint[o].fail_count
             /\ endpoint'[o].broken_timeout = endpoint[o].broken_timeout
  <2>1. endpoint'[o] = [endpoint[o] EXCEPT !.ref = @ - 1] /\ endpoint[o] \in Objects
    BY <1>1, <1>3
  <2> QED
    BY <2>1 DEF Objects
<1>6. \A o \in Endpoints : o \notin out => endpoint'[o] = endpoint[o]
  BY <1>1, <1>2
<1>7. Live' = Live \ dead /\ \A o \in Live : o \in Endpoints
  BY <1>2, <1>3, <1>4, <1>5, <1>6 DEF Live
<1>8. ASSUME NEW o \in Live \ dead
      PROVE  /\ endpoint'[o].policy = endpoint[o].policy /\ endpoint'[o].broken_timeout = endpoint[o].broken_timeout
             /\ Fused(o)' <=> Fused(o)
  <2>1. CASE o \in out
    BY <1>5, <2>1 DEF Fused, Fails
  <2>2. CASE o \notin out
    BY <1>6, <1>7, <2>2 DEF Fused, Fails
  <2> QED
    BY <2>1, <2>2
<1>9. Dropped(p, dead)
  BY <1>1, <1>2, <1>7, <1>8 DEF Dropped, LiveIn, BInv, FusedIsListed
<1> QED
  BY <1>9, DroppedBreaker

\* A step keeps the breaker.
LEMMA BreakerStep ==
  ASSUME NInv, PlaceSound, KInv, BInv, [Next]_vars PROVE BInv'
<1>1. CASE UNCHANGED ups
  BY <1>1, QuietBreaker DEF ups
<1>2. CASE ServersAdd
  BY <1>2, AddBreaker DEF ServersAdd, InUse
<1>3. CASE ServersRemove
  BY <1>3, RemoveBreaker DEF ServersRemove, InUse
<1>4. CASE UpstreamNew
  BY <1>4, QuietBreaker DEF UpstreamNew, CreateUpstream
<1>5. CASE Tick
  <2>1. now' = now + 1 /\ now \in Nat /\ UNCHANGED <<breaker_list, endpoint>>
    BY <1>5 DEF Tick, KInv, KeepTypes
  <2>2. now' \in Nat /\ now <= now'
    BY <2>1
  <2> QED
    BY <2>1, <2>2, CalmSame, CalmKeeps
<1>6. ASSUME NEW t \in Tasks, TaskStep(t) PROVE BInv'
  BY <1>6, CheckedBreaker, WeightedChooses, HashChooses, FindChooses, AnotherChooses, ChoiceBreaker, SuccessBreaker,
     RecoverBreaker, FailedBreaker, ReleaseBreaker, DeleteBreaker DEF TaskStep
<1>7. ASSUME NEW t, NEW p, Route(t, p) PROVE BInv'
  BY <1>7, QuietBreaker DEF Route
<1> QED
  BY <1>1, <1>2, <1>3, <1>4, <1>5, <1>6, <1>7, Layer DEF TaskMove

\* The invariant gives BreakerSound.
LEMMA BreakerGives ==
  ASSUME KInv, BInv PROVE BreakerSound
<1>1. ASSUME NEW p \in Policies
      PROVE  /\ DOMAIN breaker_list[p] = 1..Len(breaker_list[p])
             /\ Range(breaker_list[p]) = {breaker_list[p][i] : i \in 1..Len(breaker_list[p])}
  BY LenProperties DEF KInv, KeepTypes, Range
<1>2. ASSUME NEW p \in Policies
      PROVE  /\ Range(breaker_list[p]) \subseteq {o \in Live : endpoint[o].policy = p}
             /\ \A i, j \in DOMAIN breaker_list[p] : i < j =>
                  /\ breaker_list[p][i] # breaker_list[p][j]
                  /\ endpoint[breaker_list[p][i]].broken_timeout <= endpoint[breaker_list[p][j]].broken_timeout
  <2>1. ASSUME NEW o \in Range(breaker_list[p]) PROVE o \in Live /\ endpoint[o].policy = p
    BY <1>1 DEF BInv, ListSound, LiveIn
  <2>2. ASSUME NEW i \in DOMAIN breaker_list[p], NEW j \in DOMAIN breaker_list[p], i < j
        PROVE  /\ breaker_list[p][i] # breaker_list[p][j]
               /\ endpoint[breaker_list[p][i]].broken_timeout <= endpoint[breaker_list[p][j]].broken_timeout
    BY <1>1, <2>2 DEF BInv, ListSound
  <2> QED
    BY <2>1, <2>2
<1>3. BreakerOrdered
  BY <1>2 DEF BreakerOrdered
<1> QED
  BY <1>3 DEF BreakerSound, BInv

-----------------------------------------------------------------------------
(* The counts *)

\* The servers of p that are in no list.
Unfused(p) == {o \in Live : endpoint[o].policy = p} \ Range(breaker_list[p])

CInv ==
  /\ nalives \in [Policies -> Int] /\ available_weight \in [Policies -> Int]
  /\ \A p \in Policies : /\ nalives[p] = Cardinality(Unfused(p))
                         /\ available_weight[p] = Sum(endpoint, Unfused(p))

\* The servers that are alive, as a finite set with weights.
LEMMA UnfusedFacts ==
  ASSUME KInv, NEW p \in Policies
  PROVE  /\ Unfused(p) \subseteq Live /\ IsFiniteSet(Unfused(p)) /\ Weighed(endpoint, Unfused(p))
         /\ Cardinality(Unfused(p)) \in Nat
         /\ \A o : o \in Unfused(p) <=> LiveIn(o, p) /\ ~Contains(breaker_list[p], o)
<1>1. Unfused(p) \subseteq Live /\ Live \subseteq Endpoints
  BY DEF Unfused, Live
<1>2. IsFiniteSet(Unfused(p))
  <2>1. Unfused(p) \subseteq Endpoints
    BY <1>1
  <2> QED
    BY <2>1, UpstreamAssumption, FS_Subset
<1>3. \A o \in Unfused(p) : endpoint[o].weight \in Int
  BY <1>1, LiveFacts DEF KInv
<1>4. Range(breaker_list[p]) = {breaker_list[p][i] : i \in 1..Len(breaker_list[p])}
  BY LenProperties DEF KInv, KeepTypes, Range
<1>5. \A o : o \in Unfused(p) <=> LiveIn(o, p) /\ ~Contains(breaker_list[p], o)
  BY <1>4 DEF Unfused, LiveIn, Contains
<1> QED
  BY <1>1, <1>2, <1>3, <1>5, FS_CardinalityType DEF Weighed

\* A server is in the list of its policy or in none.
LEMMA ListedWhere ==
  ASSUME BInv, NEW p \in Policies, NEW o, LiveIn(o, p) PROVE Listed(o) <=> Contains(breaker_list[p], o)
BY DEF Listed, Contains, BInv, ListSound, LiveIn

\* The servers S come to those of p that are alive.
LEMMA CountsMore ==
  ASSUME KInv, CInv, NEW p \in Policies, NEW S, Weighed(endpoint', S), S \cap Unfused(p) = {},
         nalives' = [nalives EXCEPT ![p] = @ + Cardinality(S)],
         available_weight' = [available_weight EXCEPT ![p] = @ + Sum(endpoint', S)],
         Unfused(p)' = Unfused(p) \cup S, \A r \in Policies : r # p => Unfused(r)' = Unfused(r),
         \A r \in Policies : \A o \in Unfused(r) : endpoint'[o].weight = endpoint[o].weight
  PROVE  CInv'
<1>1. PICK e2 : e2 = endpoint'
  OBVIOUS
<1>2. ASSUME NEW r \in Policies PROVE Weighed(e2, Unfused(r)) /\ Sum(e2, Unfused(r)) = available_weight[r]
  <2>1. Weighed(endpoint, Unfused(r)) /\ \A o \in Unfused(r) : e2[o].weight = endpoint[o].weight
    BY <1>1, UnfusedFacts
  <2>2. PICK U : U = Unfused(r)
    OBVIOUS
  <2>3. Weighed(e2, U) /\ Sum(e2, U) = Sum(endpoint, U)
    BY <2>1, <2>2, SumEq
  <2> QED
    BY <2>2, <2>3 DEF CInv
<1>3. Weighed(e2, S) /\ Sum(e2, S) \in Int
  BY <1>1, SumStep
<1>4. Sum(e2, Unfused(p) \cup S) = available_weight[p] + Sum(e2, S)
  <2>1. PICK U : U = Unfused(p)
    OBVIOUS
  <2>2. Sum(e2, U \cup S) = Sum(e2, U) + Sum(e2, S)
    BY <1>2, <1>3, <2>1, SumUnion
  <2> QED
    BY <1>2, <2>1, <2>2
<1>5. IsFiniteSet(S) /\ Cardinality(S) \in Nat /\ Cardinality(Unfused(p) \cup S) = nalives[p] + Cardinality(S)
  <2>1. IsFiniteSet(S) /\ Cardinality(S) \in Nat
    BY <1>3, FS_CardinalityType DEF Weighed
  <2>2. PICK U : U = Unfused(p) /\ IsFiniteSet(U) /\ Cardinality(U) \in Nat
    BY UnfusedFacts
  <2>3. Cardinality(U \cup S) = Cardinality(U) + Cardinality(S) - Cardinality(U \cap S)
    BY <2>1, <2>2, FS_Union
  <2>4. U \cap S = {} /\ Cardinality({}) = 0
    BY <2>2, FS_EmptySet
  <2>5. Cardinality(U \cup S) = Cardinality(U) + Cardinality(S)
    <3>1. Cardinality(U \cup S) = Cardinality(U) + Cardinality(S) - 0
      BY ONLY <2>3, <2>4
    <3> QED
      BY ONLY <2>1, <2>2, <3>1
  <2> QED
    BY <2>1, <2>2, <2>5 DEF CInv
<1>6. /\ nalives' \in [Policies -> Int] /\ available_weight' \in [Policies -> Int]
      /\ nalives'[p] = nalives[p] + Cardinality(S) /\ available_weight'[p] = available_weight[p] + Sum(e2, S)
      /\ \A r \in Policies : r # p => nalives'[r] = nalives[r] /\ available_weight'[r] = available_weight[r]
  BY <1>1, <1>3, <1>5 DEF CInv
<1>7. ASSUME NEW r \in Policies
      PROVE  nalives'[r] = Cardinality(Unfused(r)') /\ available_weight'[r] = Sum(e2, Unfused(r)')
  <2>1. CASE r = p
    BY <1>4, <1>5, <1>6, <2>1
  <2>2. CASE r # p
    BY <1>2, <1>6, <2>2 DEF CInv
  <2> QED
    BY <2>1, <2>2
<1> QED
  BY <1>1, <1>6, <1>7 DEF CInv

\* The servers S go.
LEMMA CountsLess ==
  ASSUME KInv, CInv, NEW p \in Policies, NEW S, S \subseteq Unfused(p),
         nalives' = [nalives EXCEPT ![p] = @ - Cardinality(S)],
         available_weight' = [available_weight EXCEPT ![p] = @ - Sum(endpoint, S)],
         Unfused(p)' = Unfused(p) \ S, \A r \in Policies : r # p => Unfused(r)' = Unfused(r),
         \A r \in Policies : \A o \in Unfused(r)' : endpoint'[o].weight = endpoint[o].weight
  PROVE  CInv'
<1>1. PICK e2 : e2 = endpoint'
  OBVIOUS
<1>2. ASSUME NEW r \in Policies PROVE Weighed(endpoint, Unfused(r)') /\ Sum(e2, Unfused(r)') = Sum(endpoint, Unfused(r)')
  <2>1. Weighed(endpoint, Unfused(r)) /\ Unfused(r)' \subseteq Unfused(r)
    BY UnfusedFacts
  <2>2. PICK U : U = Unfused(r)' /\ \A o \in U : e2[o].weight = endpoint[o].weight
    BY <1>1
  <2>3. Weighed(endpoint, U)
    BY <2>1, <2>2, FS_Subset DEF Weighed
  <2>4. Sum(e2, U) = Sum(endpoint, U)
    BY <2>2, <2>3, SumEq
  <2> QED
    BY <2>2, <2>3, <2>4
<1>3. PICK U : U = Unfused(p) /\ IsFiniteSet(U) /\ Weighed(endpoint, U) /\ Cardinality(U) \in Nat
  BY UnfusedFacts
<1>4. IsFiniteSet(S) /\ Weighed(endpoint, S) /\ IsFiniteSet(U \ S) /\ Weighed(endpoint, U \ S)
  BY <1>3, FS_Subset DEF Weighed
<1>5. S \cap (U \ S) = {} /\ S \cup (U \ S) = U
  BY <1>3
<1>6. Cardinality(U \ S) = Cardinality(U) - Cardinality(S) /\ Cardinality(S) \in Nat
  <2>1. Cardinality(S) \in Nat /\ Cardinality(U \ S) \in Nat /\ Cardinality({}) = 0
    BY <1>4, FS_CardinalityType, FS_EmptySet
  <2>2. Cardinality(S \cup (U \ S)) = Cardinality(S) + Cardinality(U \ S) - Cardinality(S \cap (U \ S))
    BY <1>4, FS_Union
  <2>3. Cardinality(U) = Cardinality(S) + Cardinality(U \ S) - 0
    BY <1>5, <2>1, <2>2
  <2> QED
    BY <2>1, <2>3
<1>7. Sum(endpoint, U \ S) = Sum(endpoint, U) - Sum(endpoint, S) /\ Sum(endpoint, S) \in Int
  <2>1. Sum(endpoint, S \cup (U \ S)) = Sum(endpoint, S) + Sum(endpoint, U \ S)
    BY <1>4, <1>5, SumUnion
  <2>2. PICK a \in Int, b \in Int : a = Sum(endpoint, S) /\ b = Sum(endpoint, U \ S)
    BY <1>4, SumStep
  <2>3. Sum(endpoint, U) = a + b
    BY <1>5, <2>1, <2>2
  <2> QED
    BY <2>2, <2>3
<1>8. /\ nalives' \in [Policies -> Int] /\ available_weight' \in [Policies -> Int]
      /\ nalives'[p] = nalives[p] - Cardinality(S) /\ available_weight'[p] = available_weight[p] - Sum(endpoint, S)
      /\ \A r \in Policies : r # p => nalives'[r] = nalives[r] /\ available_weight'[r] = available_weight[r]
  BY <1>6, <1>7 DEF CInv
<1>9. ASSUME NEW r \in Policies
      PROVE  nalives'[r] = Cardinality(Unfused(r)') /\ available_weight'[r] = Sum(e2, Unfused(r)')
  <2>1. CASE r = p
    <3>1. Unfused(r)' = U \ S /\ nalives[p] = Cardinality(U) /\ available_weight[p] = Sum(endpoint, U)
      BY <1>3, <2>1 DEF CInv
    <3> QED
      BY <1>2, <1>6, <1>7, <1>8, <2>1, <3>1
  <2>2. CASE r # p
    BY <1>2, <1>8, <2>2 DEF CInv
  <2> QED
    BY <2>1, <2>2
<1> QED
  BY <1>1, <1>8, <1>9 DEF CInv

\* The servers that are alive are the same.
LEMMA CountsSame ==
  ASSUME KInv, CInv, UNCHANGED <<nalives, available_weight>>, \A p \in Policies : Unfused(p)' = Unfused(p),
         \A o \in Live : endpoint'[o].weight = endpoint[o].weight
  PROVE  CInv'
<1>1. PICK e2 : e2 = endpoint'
  OBVIOUS
<1>2. ASSUME NEW p \in Policies PROVE Sum(e2, Unfused(p)) = available_weight[p]
  <2>1. PICK U : U = Unfused(p) /\ Weighed(endpoint, U) /\ U \subseteq Live
    BY UnfusedFacts
  <2>2. \A o \in U : e2[o].weight = endpoint[o].weight
    BY <1>1, <2>1
  <2>3. Sum(e2, U) = Sum(endpoint, U)
    BY <2>1, <2>2, SumEq
  <2> QED
    BY <2>1, <2>3 DEF CInv
<1> QED
  BY <1>1, <1>2 DEF CInv

\* Who is alive after a step.
LEMMA UnfusedNext ==
  ASSUME NEW p \in Policies, breaker_list' \in [Policies -> Seq(Endpoints)]
  PROVE  \A o : o \in Unfused(p)' <=> o \in Live' /\ endpoint'[o].policy = p /\ ~Contains(breaker_list'[p], o)
<1>1. breaker_list'[p] \in Seq(Endpoints)
  OBVIOUS
<1>2. Range(breaker_list'[p]) = {breaker_list'[p][i] : i \in 1..Len(breaker_list'[p])}
  BY <1>1, LenProperties DEF Range
<1> QED
  BY <1>2 DEF Unfused, Contains

\* Nobody enters or leaves a list.
LEMMA UnfusedSame ==
  ASSUME KInv, breaker_list' = breaker_list, Live' = Live, \A o \in Live : endpoint'[o].policy = endpoint[o].policy
  PROVE  \A p \in Policies : Unfused(p)' = Unfused(p)
BY DEF Unfused

\* A step that changes no list, no count and no weight.
LEMMA CalmCounts ==
  ASSUME KInv, CInv, UNCHANGED <<nalives, available_weight, breaker_list>>, Live' = Live,
         \A o \in Live : endpoint'[o].policy = endpoint[o].policy /\ endpoint'[o].weight = endpoint[o].weight
  PROVE  CInv'
<1>1. \A p \in Policies : Unfused(p)' = Unfused(p)
  BY UnfusedSame
<1> QED
  BY <1>1, CountsSame

\* No server changes at all.
LEMMA QuietCounts ==
  ASSUME KInv, CInv, UNCHANGED <<nalives, available_weight, breaker_list, endpoint>> PROVE CInv'
<1>1. Live' = Live
  BY DEF Live
<1> QED
  BY <1>1, CalmCounts

\* A reference is counted.
LEMMA RefCounts ==
  ASSUME KInv, CInv, NEW o \in Live, NEW n \in Int, endpoint' = [endpoint EXCEPT ![o].ref = n],
         UNCHANGED <<nalives, available_weight, breaker_list>>
  PROVE  CInv'
<1>1. Live' = Live /\ \A q \in Live : endpoint'[q].policy = endpoint[q].policy /\ endpoint'[q].weight = endpoint[q].weight
  BY RefFacts DEF KInv
<1> QED
  BY <1>1, CalmCounts

\* A fail_count changes.
LEMMA SteadyCounts ==
  ASSUME KInv, CInv, Steady, UNCHANGED <<nalives, available_weight, breaker_list>> PROVE CInv'
<1>1. Live' = Live
  BY SteadyLive
<1> QED
  BY <1>1, CalmCounts DEF Steady

\* check_breaker_locked counts back exactly the servers it takes off the list.
LEMMA LockedCounts ==
  ASSUME KInv, BInv, CInv, NEW p \in Policies, NEW k \in 0..Len(breaker_list[p]), CheckBreakerLocked(p, k)
  PROVE  CInv'
<1>1. /\ Steady /\ breaker_list' \in [Policies -> Seq(Endpoints)]
      /\ breaker_list'[p] = SubSeq(breaker_list[p], k + 1, Len(breaker_list[p]))
      /\ \A r \in Policies : r # p => breaker_list'[r] = breaker_list[r]
      /\ \A o \in Leaving(p, k) : LiveIn(o, p)
  BY LockedFacts
<1>2. Live' = Live
  BY <1>1, SteadyLive
<1>3. PICK l \in Seq(Endpoints) : l = breaker_list[p]
  BY DEF KInv, KeepTypes
<1>4. /\ Len(l) \in Nat /\ Len(breaker_list'[p]) = Len(l) - k
      /\ \A i \in 1..(Len(l) - k) : k + i \in 1..Len(l) /\ breaker_list'[p][i] = l[k + i]
  BY <1>1, <1>3, ListSuffix
<1>5. PICK S : S = Leaving(p, k)
  OBVIOUS
<1>6. \A r \in Policies : r # p => Unfused(r)' = Unfused(r)
  BY <1>1, <1>2 DEF Unfused, Steady
<1>7. ASSUME NEW o PROVE Contains(l, o) <=> Contains(breaker_list'[p], o) \/ o \in S
  <2>1. ASSUME NEW i \in 1..Len(l), l[i] = o, i \notin 1..k PROVE Contains(breaker_list'[p], o)
    <3>1. i - k \in 1..(Len(l) - k) /\ k + (i - k) = i
      BY <1>4, <2>1
    <3>2. PICK j \in 1..(Len(l) - k) : k + j = i
      BY <3>1
    <3> QED
      BY <1>4, <2>1, <3>2 DEF Contains
  <2>2. \A i \in 1..k : i \in 1..Len(l)
    BY <1>4
  <2> QED
    BY <1>3, <1>4, <1>5, <2>1, <2>2 DEF Contains, Leaving
<1>8. ASSUME NEW o \in S PROVE Contains(l, o) /\ ~Contains(breaker_list'[p], o) /\ LiveIn(o, p)
  <2>1. PICK i \in 1..k : o = l[i]
    BY <1>3, <1>5 DEF Leaving
  <2>2. ASSUME NEW j \in 1..(Len(l) - k), breaker_list'[p][j] = o PROVE FALSE
    <3>1. k + j \in 1..Len(l) /\ i \in 1..Len(l) /\ i < k + j /\ l[k + j] = o
      BY <1>4, <2>2
    <3> QED
      BY <1>3, <2>1, <3>1 DEF BInv, ListSound
  <2> QED
    BY <1>1, <1>4, <1>5, <1>7, <2>2 DEF Contains
<1>9. S \cap Unfused(p) = {}
  BY <1>3, <1>8, UnfusedFacts
<1>10. Unfused(p)' = Unfused(p) \cup S
  <2>1. ASSUME NEW o PROVE o \in Unfused(p)' <=> o \in Unfused(p) \/ o \in S
    <3>1. o \in Unfused(p)' <=> o \in Live /\ endpoint'[o].policy = p /\ ~Contains(breaker_list'[p], o)
      BY <1>1, <1>2, UnfusedNext
    <3>2. o \in Unfused(p) <=> LiveIn(o, p) /\ ~Contains(l, o)
      BY <1>3, UnfusedFacts
    <3> QED
      BY <1>1, <1>7, <1>8, <3>1, <3>2 DEF LiveIn, Steady
  <2> QED
    BY <2>1
<1>11. PICK e2 : e2 = endpoint' /\ \A o \in Live : e2[o].weight = endpoint[o].weight
  BY <1>1 DEF Steady
<1>12. Weighed(endpoint, S)
  <2>1. S \subseteq Endpoints /\ S \subseteq Live
    BY <1>8 DEF LiveIn, Live
  <2>2. \A o \in S : endpoint[o].weight \in Int
    BY <2>1, LiveFacts DEF KInv
  <2> QED
    BY <2>1, <2>2, UpstreamAssumption, FS_Subset DEF Weighed
<1>13. Weighed(e2, S) /\ Sum(e2, S) = Sum(endpoint, S)
  BY <1>8, <1>11, <1>12, SumEq DEF LiveIn
<1>14. /\ nalives' = [nalives EXCEPT ![p] = @ + Cardinality(S)]
       /\ available_weight' = [available_weight EXCEPT ![p] = @ + Sum(endpoint, S)]
  BY <1>5 DEF CheckBreakerLocked, RecoverServers, Leaving, Weights, Sum
<1>15. \A r \in Policies : \A o \in Unfused(r) : endpoint'[o].weight = endpoint[o].weight
  BY <1>11, UnfusedFacts
<1> QED
  BY <1>6, <1>9, <1>10, <1>11, <1>13, <1>14, <1>15, CountsMore

\* fuse_server_to_breaker counts a server out when it enters the list.
LEMMA FuseCounts ==
  ASSUME KInv, BInv, CInv, NEW p \in Policies, NEW o \in Live, endpoint[o].policy = p, NEW n \in Nat, FuseServerToBreaker(p, o, n)
  PROVE  CInv'
<1>1. /\ Steady /\ breaker_list' \in [Policies -> Seq(Endpoints)]
      /\ ~Listed(o) => breaker_list' = [breaker_list EXCEPT ![p] = Append(@, o)]
  BY FuseFacts
<1>2. Live' = Live
  BY <1>1, SteadyLive
<1>3. CASE Listed(o)
  BY <1>1, <1>3, SteadyCounts DEF FuseServerToBreaker
<1>4. CASE ~Listed(o)
  <2>1. PICK l \in Seq(Endpoints) : l = breaker_list[p]
    BY DEF KInv, KeepTypes
  <2>2. breaker_list'[p] = Append(l, o) /\ \A r \in Policies : r # p => breaker_list'[r] = breaker_list[r]
    BY <1>1, <1>4, <2>1 DEF KInv, KeepTypes
  <2>3. o \in Endpoints /\ Len(l) \in Nat
    BY LenProperties DEF Live
  <2>4. ASSUME NEW q PROVE Contains(breaker_list'[p], q) <=> Contains(l, q) \/ q = o
    <3>1. /\ Len(breaker_list'[p]) = Len(l) + 1 /\ breaker_list'[p][Len(l) + 1] = o
          /\ \A i \in 1..Len(l) : breaker_list'[p][i] = l[i]
      BY <2>2, <2>3, AppendProperties
    <3>2. \A i : i \in 1..(Len(l) + 1) <=> i \in 1..Len(l) \/ i = Len(l) + 1
      BY <2>3
    <3> QED
      BY <3>1, <3>2 DEF Contains
  <2>5. o \in Unfused(p)
    BY <1>4, UnfusedFacts, ListedWhere DEF LiveIn
  <2>6. Unfused(p)' = Unfused(p) \ {o}
    <3>1. ASSUME NEW q PROVE q \in Unfused(p)' <=> q \in Unfused(p) /\ q # o
      <4>1. q \in Unfused(p)' <=> q \in Live /\ endpoint'[q].policy = p /\ ~Contains(breaker_list'[p], q)
        BY <1>1, <1>2, UnfusedNext
      <4>2. q \in Unfused(p) <=> LiveIn(q, p) /\ ~Contains(l, q)
        BY <2>1, UnfusedFacts
      <4> QED
        BY <1>1, <2>4, <4>1, <4>2 DEF LiveIn, Steady
    <3> QED
      BY <3>1
  <2>7. \A r \in Policies : r # p => Unfused(r)' = Unfused(r)
    BY <1>1, <1>2, <2>2 DEF Unfused, Steady
  <2>8. /\ nalives' = [nalives EXCEPT ![p] = @ - Cardinality({o})]
        /\ available_weight' = [available_weight EXCEPT ![p] = @ - Sum(endpoint, {o})]
    BY <1>4 DEF FuseServerToBreaker, FuseServers, Weights, Sum
  <2>9. \A r \in Policies : \A q \in Unfused(r)' : endpoint'[q].weight = endpoint[q].weight
    <3>1. \A r \in Policies : Unfused(r)' \subseteq Live
      BY <1>2 DEF Unfused
    <3> QED
      BY <1>1, <3>1 DEF Steady
  <2>10. PICK S : S = {o} /\ S \subseteq Unfused(p)
    BY <2>5
  <2> QED
    BY <2>6, <2>7, <2>8, <2>9, <2>10, CountsLess
<1> QED
  BY <1>3, <1>4

\* The members of a list without S.
LEMMA WithoutContains ==
  ASSUME NEW X, NEW list \in Seq(X), NEW S, NEW q PROVE Contains(Without(list, S), q) <=> Contains(list, q) /\ q \notin S
<1>1. PICK kept \in Seq(X) : kept = Without(list, S) /\ Range(kept) = Range(list) \ S
  BY WithoutRange
<1>2. /\ Range(kept) = {kept[i] : i \in 1..Len(kept)} /\ Range(list) = {list[i] : i \in 1..Len(list)}
  BY LenProperties DEF Range
<1> QED
  BY <1>1, <1>2 DEF Contains

\* The list of p without D.
LEMMA DroppedLists ==
  ASSUME KInv, NEW p \in Policies, NEW D, breaker_list' = [breaker_list EXCEPT ![p] = Without(breaker_list[p], D)]
  PROVE  /\ breaker_list' \in [Policies -> Seq(Endpoints)]
         /\ \A r \in Policies : r # p => breaker_list'[r] = breaker_list[r]
         /\ \A q : Contains(breaker_list'[p], q) <=> Contains(breaker_list[p], q) /\ q \notin D
<1>1. PICK l \in Seq(Endpoints) : l = breaker_list[p]
  BY DEF KInv, KeepTypes
<1>2. Without(l, D) \in Seq(Endpoints) /\ \A q : Contains(Without(l, D), q) <=> Contains(l, q) /\ q \notin D
  BY WithoutIs, WithoutContains
<1>3. breaker_list'[p] = Without(l, D)
  BY <1>1 DEF KInv, KeepTypes
<1> QED
  BY <1>1, <1>2, <1>3 DEF KInv, KeepTypes

\* recover_server_from_breaker counts a server back only if it was in the list.
LEMMA RecoverCounts ==
  ASSUME KInv, BInv, CInv, NEW t \in Tasks, RecoverServer(t) PROVE CInv'
<1>1. tpc[t] \in Asking
  BY DEF RecoverServer, Goto, Asking
<1>2. PICK o \in Live, p \in Policies : o = Last(history[t]) /\ p = sg[t] /\ LiveIn(o, p)
  BY <1>1, Asked
<1>3. /\ endpoint' = [endpoint EXCEPT ![o].fail_count = 0]
      /\ breaker_list' = [breaker_list EXCEPT ![p] = Without(breaker_list[p], {o})]
      /\ RecoverServers(p, IF Listed(o) THEN {o} ELSE {})
  BY <1>2 DEF RecoverServer
<1>4. Steady
  BY <1>3, SteadyFails DEF KInv
<1>5. Live' = Live
  BY <1>4, SteadyLive
<1>6. /\ breaker_list' \in [Policies -> Seq(Endpoints)]
      /\ \A r \in Policies : r # p => breaker_list'[r] = breaker_list[r]
      /\ \A q : Contains(breaker_list'[p], q) <=> Contains(breaker_list[p], q) /\ q \notin {o}
  BY <1>3, DroppedLists
<1>7. PICK S : S = IF Listed(o) THEN {o} ELSE {}
  OBVIOUS
<1>8. Listed(o) <=> Contains(breaker_list[p], o)
  BY <1>2, ListedWhere
<1>9. S \cap Unfused(p) = {}
  BY <1>7, <1>8, UnfusedFacts
<1>10. Unfused(p)' = Unfused(p) \cup S
  <2>1. ASSUME NEW q PROVE q \in Unfused(p)' <=> q \in Unfused(p) \/ q \in S
    <3>1. q \in Unfused(p)' <=> q \in Live /\ endpoint'[q].policy = p /\ ~Contains(breaker_list'[p], q)
      BY <1>5, <1>6, UnfusedNext
    <3>2. q \in Unfused(p) <=> LiveIn(q, p) /\ ~Contains(breaker_list[p], q)
      BY UnfusedFacts
    <3>3. q \in Live => endpoint'[q].policy = endpoint[q].policy
      BY <1>4 DEF Steady
    <3> QED
      BY <1>2, <1>6, <1>7, <1>8, <3>1, <3>2, <3>3 DEF LiveIn
  <2> QED
    BY <2>1
<1>11. \A r \in Policies : r # p => Unfused(r)' = Unfused(r)
  BY <1>4, <1>5, <1>6 DEF Unfused, Steady
<1>12. PICK e2 : e2 = endpoint' /\ \A q \in Live : e2[q].weight = endpoint[q].weight
  BY <1>4 DEF Steady
<1>13. Weighed(endpoint, S) /\ S \subseteq Live
  <2>1. S \subseteq {o} /\ IsFiniteSet({o})
    BY <1>7, FS_Singleton
  <2>2. IsFiniteSet(S)
    BY <2>1, FS_Subset
  <2>3. endpoint[o].weight \in Int
    BY LiveFacts DEF KInv
  <2> QED
    BY <2>1, <2>2, <2>3 DEF Weighed
<1>14. Weighed(e2, S) /\ Sum(e2, S) = Sum(endpoint, S)
  BY <1>12, <1>13, SumEq
<1>15. /\ nalives' = [nalives EXCEPT ![p] = @ + Cardinality(S)]
       /\ available_weight' = [available_weight EXCEPT ![p] = @ + Sum(endpoint, S)]
  BY <1>3, <1>7 DEF RecoverServers, Weights, Sum
<1>16. \A r \in Policies : \A q \in Unfused(r) : endpoint'[q].weight = endpoint[q].weight
  BY <1>12, UnfusedFacts
<1> QED
  BY <1>9, <1>10, <1>11, <1>12, <1>14, <1>15, <1>16, CountsMore

\* pre_delete_server for D: the servers are deleted.
LEMMA DeletedCounts ==
  ASSUME KInv, BInv, CInv, NEW p \in Policies, NEW D, PreDeleteServers(p, D), \A o \in D : LiveIn(o, p),
         Live' = Live \ D,
         \A o \in Live \ D : endpoint'[o].policy = endpoint[o].policy /\ endpoint'[o].weight = endpoint[o].weight
  PROVE  CInv'
<1>1. breaker_list' = [breaker_list EXCEPT ![p] = Without(breaker_list[p], D)]
  BY DEF PreDeleteServers
<1>2. /\ breaker_list' \in [Policies -> Seq(Endpoints)]
      /\ \A r \in Policies : r # p => breaker_list'[r] = breaker_list[r]
      /\ \A q : Contains(breaker_list'[p], q) <=> Contains(breaker_list[p], q) /\ q \notin D
  BY <1>1, DroppedLists
<1>3. PICK S : S = {o \in D : ~Listed(o)}
  OBVIOUS
<1>4. S \subseteq Unfused(p) /\ \A o \in D : o \in Unfused(p) => o \in S
  BY <1>3, UnfusedFacts, ListedWhere
<1>5. Unfused(p)' = Unfused(p) \ S
  <2>1. ASSUME NEW q PROVE q \in Unfused(p)' <=> q \in Unfused(p) /\ q \notin S
    <3>1. q \in Unfused(p)' <=> q \in Live \ D /\ endpoint'[q].policy = p /\ ~Contains(breaker_list'[p], q)
      BY <1>2, UnfusedNext
    <3>2. q \in Unfused(p) <=> LiveIn(q, p) /\ ~Contains(breaker_list[p], q)
      BY UnfusedFacts
    <3> QED
      BY <1>2, <1>3, <1>4, <3>1, <3>2 DEF LiveIn
  <2> QED
    BY <2>1
<1>6. ASSUME NEW r \in Policies, r # p PROVE Unfused(r)' = Unfused(r)
  <2>1. \A o \in D : endpoint[o].policy # r
    BY <1>6 DEF LiveIn
  <2>2. ASSUME NEW q PROVE q \in Unfused(r)' <=> q \in Unfused(r)
    <3>1. q \in Unfused(r)' <=> q \in Live \ D /\ endpoint'[q].policy = r /\ ~Contains(breaker_list[r], q)
      BY <1>2, <1>6, UnfusedNext
    <3>2. q \in Unfused(r) <=> LiveIn(q, r) /\ ~Contains(breaker_list[r], q)
      BY UnfusedFacts
    <3> QED
      BY <2>1, <3>1, <3>2 DEF LiveIn
  <2> QED
    BY <2>2
<1>7. /\ nalives' = [nalives EXCEPT ![p] = @ - Cardinality(S)]
      /\ available_weight' = [available_weight EXCEPT ![p] = @ - Sum(endpoint, S)]
  BY <1>3 DEF PreDeleteServers, FuseServers, Weights, Sum
<1>8. \A r \in Policies : \A q \in Unfused(r)' : endpoint'[q].weight = endpoint[q].weight
  <2>1. \A r \in Policies : Unfused(r)' \subseteq Live'
    BY DEF Unfused
  <2> QED
    BY <2>1
<1> QED
  BY <1>4, <1>5, <1>6, <1>7, <1>8, CountsLess

\* A server that its last task deletes.
LEMMA DeleteCounts ==
  ASSUME KInv, BInv, CInv, NEW t \in Tasks, DeleteServer(t) PROVE CInv'
<1>1. tpc[t] = "Delete" /\ sg[t] \in Policies
  BY DEF DeleteServer, Goto, KInv, TaskTypes
<1>2. history[t] # <<>>
  BY <1>1 DEF KInv, Deleting
<1>3. PICK o \in Live, p \in Policies : o = Head(history[t]) /\ p = sg[t] /\ LiveIn(o, p)
  BY <1>1, <1>2, HeadLive
<1>4. endpoint' = [endpoint EXCEPT ![o].state = "deleted"] /\ PreDeleteServers(p, {o})
  BY <1>3 DEF DeleteServer
<1>5. o \in Endpoints /\ endpoint[o] \in Objects
  BY LiveFacts DEF KInv
<1>6. endpoint'[o].state = "deleted" /\ \A q \in Endpoints : q # o => endpoint'[q] = endpoint[q]
  BY <1>4, <1>5 DEF KInv, KeepTypes, Objects
<1>7. Live' = Live \ {o} /\ \A q \in Live : q \in Endpoints
  BY <1>6 DEF Live
<1>8. PICK D : D = {o}
  OBVIOUS
<1> QED
  BY <1>3, <1>4, <1>6, <1>7, <1>8, DeletedCounts

\* Servers that are removed count on while a task refers to them.
LEMMA RemoveCounts ==
  ASSUME KInv, BInv, CInv, NEW p \in Policies, NEW address, RemoveServer(p, address) PROVE CInv'
<1> DEFINE out  == {o \in Range(servers[p]) : endpoint[o].address = address}
           dead == {o \in out : endpoint[o].ref = 1}
<1>1. /\ endpoint' = [o \in Endpoints |->
           CASE o \in dead -> [endpoint[o] EXCEPT !.ref = 0, !.state = "deleted"]
             [] o \in out \ dead -> [endpoint[o] EXCEPT !.ref = @ - 1]
             [] OTHER -> endpoint[o]]
      /\ PreDeleteServers(p, dead)
  BY DEF RemoveServer
<1>2. dead \subseteq out /\ \A o \in out : LiveIn(o, p)
  BY ServerFacts
<1> HIDE DEF out, dead
<1>3. ASSUME NEW o \in out PROVE o \in Endpoints /\ endpoint[o] \in Objects
  BY <1>2, LiveFacts DEF LiveIn, KInv
<1>4. ASSUME NEW o \in dead PROVE endpoint'[o].state = "deleted"
  BY <1>1, <1>2, <1>3 DEF Objects
<1>5. ASSUME NEW o \in out \ dead
      PROVE  /\ endpoint'[o].state = endpoint[o].state /\ endpoint'[o].policy = endpoint[o].policy
             /\ endpoint'[o].weight = endpoint[o].weight
  <2>1. endpoint'[o] = [endpoint[o] EXCEPT !.ref = @ - 1] /\ endpoint[o] \in Objects
    BY <1>1, <1>3
  <2> QED
    BY <2>1 DEF Objects
<1>6. \A o \in Endpoints : o \notin out => endpoint'[o] = endpoint[o]
  BY <1>1, <1>2
<1>7. Live' = Live \ dead /\ \A o \in Live : o \in Endpoints
  BY <1>2, <1>3, <1>4, <1>5, <1>6 DEF Live
<1>8. \A o \in Live \ dead : endpoint'[o].policy = endpoint[o].policy /\ endpoint'[o].weight = endpoint[o].weight
  BY <1>5, <1>6, <1>7
<1>9. \A o \in dead : LiveIn(o, p)
  BY <1>2
<1> QED
  BY <1>1, <1>7, <1>8, <1>9, DeletedCounts

\* A new server counts as alive.
LEMMA AddCounts ==
  ASSUME KInv, BInv, CInv, NEW p \in Policies, NEW address, NEW weight \in Nat, AddServer(p, address, weight) PROVE CInv'
<1>1. PICK o \in Endpoints : o = Min(Fresh) /\ endpoint[o].state = "free"
  <2>1. Fresh \in SUBSET Nat /\ Fresh # {}
    BY UpstreamAssumption DEF Fresh, AddServer
  <2>2. Min(Fresh) \in Fresh
    BY ONLY <2>1, MinIn
  <2> QED
    BY <2>2 DEF Fresh
<1>2. PICK w \in Int : w = IF weight = 0 THEN 1 ELSE weight
  OBVIOUS
<1> DEFINE e == [state |-> "live", address |-> address, policy |-> p, weight |-> w,
                 fail_count |-> 0, ref |-> 1, broken_timeout |-> 0]
<1>3. /\ endpoint' = [endpoint EXCEPT ![o] = e] /\ UNCHANGED breaker_list
      /\ nalives' = [nalives EXCEPT ![p] = @ + 1] /\ available_weight' = [available_weight EXCEPT ![p] = @ + w]
  BY <1>1, <1>2 DEF AddServer
<1>4. e.state = "live" /\ e.policy = p /\ e.weight = w
  OBVIOUS
<1> HIDE DEF e
<1>5. endpoint'[o] = e /\ \A q \in Endpoints : q # o => endpoint'[q] = endpoint[q]
  BY <1>3 DEF KInv, KeepTypes
<1>6. Live' = Live \cup {o} /\ o \notin Live /\ \A q \in Live : q # o /\ q \in Endpoints
  BY <1>1, <1>4, <1>5 DEF Live
<1>7. ~Contains(breaker_list[p], o)
  BY <1>6 DEF Contains, BInv, ListSound, LiveIn
<1>8. breaker_list' \in [Policies -> Seq(Endpoints)]
  BY <1>3 DEF KInv, KeepTypes
<1>9. PICK S, e2 : S = {o} /\ e2 = endpoint'
  OBVIOUS
<1>10. ASSUME NEW r \in Policies, NEW q PROVE q \in Unfused(r)' <=> q \in Unfused(r) \/ (r = p /\ q \in S)
  <2>1. q \in Unfused(r)' <=> q \in Live' /\ endpoint'[q].policy = r /\ ~Contains(breaker_list[r], q)
    BY <1>3, <1>8, UnfusedNext
  <2>2. q \in Unfused(r) <=> LiveIn(q, r) /\ ~Contains(breaker_list[r], q)
    BY UnfusedFacts
  <2>3. CASE q = o
    BY <1>4, <1>5, <1>6, <1>7, <1>9, <2>1, <2>2, <2>3 DEF LiveIn
  <2>4. CASE q # o
    BY <1>5, <1>6, <1>9, <2>1, <2>2, <2>4 DEF LiveIn
  <2> QED
    BY <2>3, <2>4
<1>11. Unfused(p)' = Unfused(p) \cup S /\ \A r \in Policies : r # p => Unfused(r)' = Unfused(r)
  BY <1>10
<1>12. S \cap Unfused(p) = {}
  BY <1>6, <1>9, UnfusedFacts
<1>13. Cardinality(S) = 1 /\ Weighed(e2, S) /\ Sum(e2, S) = w
  <2>1. IsFiniteSet({}) /\ Weighed(e2, {})
    BY FS_EmptySet DEF Weighed
  <2>2. Sum(e2, {}) = 0
    BY <2>1, SumStep
  <2>3. e2[o].weight = w
    BY <1>4, <1>5, <1>9
  <2>4. Weighed(e2, {} \cup {o}) /\ Sum(e2, {} \cup {o}) = Sum(e2, {}) + w
    <3>1. e2[o].weight \in Int /\ o \notin {}
      BY <2>3
    <3> QED
      BY <2>1, <2>3, <3>1, SumAdd
  <2>5. {} \cup {o} = S
    BY <1>9
  <2>6. Sum(e2, S) = w
    BY <2>2, <2>4, <2>5
  <2> QED
    BY <1>9, <2>4, <2>5, <2>6, FS_Singleton
<1>14. \A r \in Policies : \A q \in Unfused(r) : endpoint'[q].weight = endpoint[q].weight
  BY <1>5, <1>6, UnfusedFacts
<1>15. /\ nalives' = [nalives EXCEPT ![p] = @ + Cardinality(S)]
       /\ available_weight' = [available_weight EXCEPT ![p] = @ + Sum(e2, S)]
  BY <1>3, <1>13
<1> QED
  BY <1>9, <1>11, <1>12, <1>13, <1>14, <1>15, CountsMore

\* The strategies.
LEMMA ChoiceCounts ==
  ASSUME KInv, CInv, NEW t \in Tasks, Chooses(t) PROVE CInv'
<1>1. UNCHANGED <<nalives, available_weight, breaker_list>>
  BY DEF Chooses, counts
<1>2. CASE UNCHANGED endpoint
  BY <1>1, <1>2, QuietCounts
<1>3. ASSUME NEW o \in Range(servers[sg[t]]), Select(t, o) PROVE CInv'
  <2>1. sg[t] \in Policies
    BY DEF Chooses, KInv, TaskTypes, Selecting
  <2>2. o \in Live
    BY <2>1, ServerFacts DEF LiveIn
  <2>3. PICK n \in Int : n = endpoint[o].ref + 1
    BY <2>2, LiveFacts DEF KInv
  <2> QED
    BY <1>1, <1>3, <2>2, <2>3, RefCounts DEF Select
<1> QED
  BY <1>2, <1>3 DEF Chooses

\* check_breaker and try_clear_breaker.
LEMMA CheckedCounts ==
  ASSUME KInv, BInv, CInv, NEW t \in Tasks, CheckBreaker(t) \/ TryClearBreaker(t) PROVE CInv'
<1>1. sg[t] \in Policies
  BY DEF CheckBreaker, TryClearBreaker, Goto, KInv, TaskTypes
<1>2. PICK p \in Policies : p = sg[t]
  BY <1>1
<1>3. CASE CheckBreaker(t)
  <2>1. CASE Unavailable(t) /\ UNCHANGED <<breaker_list, nalives, available_weight>>
    BY <2>1, QuietCounts DEF Unavailable
  <2>2. CASE CheckBreakerLocked(p, ExpiredPrefix(p))
    <3>1. PICK k \in 0..Len(breaker_list[p]) : k = ExpiredPrefix(p)
      BY PrefixIn
    <3> QED
      BY <2>2, <3>1, LockedCounts
  <2> QED
    BY <1>2, <1>3, <2>1, <2>2 DEF CheckBreaker
<1>4. CASE TryClearBreaker(t)
  <2>1. Len(breaker_list[p]) \in Nat
    BY LenProperties DEF KInv, KeepTypes
  <2>2. PICK k \in 0..Len(breaker_list[p]) : CheckBreakerLocked(p, k)
    <3>1. 0 \in 0..Len(breaker_list[p]) /\ Len(breaker_list[p]) \in 0..Len(breaker_list[p])
      BY <2>1
    <3> QED
      BY <1>2, <1>4, <3>1 DEF TryClearBreaker
  <2> QED
    BY <2>2, LockedCounts
<1> QED
  BY <1>3, <1>4

\* success.
LEMMA SuccessCounts ==
  ASSUME KInv, CInv, NEW t \in Tasks, Success(t) \/ SuccessCheck(t) PROVE CInv'
<1>1. UNCHANGED <<nalives, available_weight, breaker_list>>
  BY DEF Success, SuccessCheck, counts
<1>2. CASE Success(t)
  <2>1. tpc[t] \in Asking
    BY <1>2 DEF Success, Goto, Asking
  <2>2. PICK o \in Live : o = Last(history[t])
    BY <2>1, Asked
  <2>3. endpoint' = [endpoint EXCEPT ![o].fail_count = 0]
    BY <1>2, <2>2 DEF Success
  <2>4. Steady
    BY <2>3, SteadyFails DEF KInv
  <2> QED
    BY <1>1, <2>4, SteadyCounts
<1>3. CASE SuccessCheck(t)
  BY <1>1, <1>3, QuietCounts DEF SuccessCheck
<1> QED
  BY <1>2, <1>3

\* failed.
LEMMA FailedCounts ==
  ASSUME KInv, BInv, CInv, NEW t \in Tasks, Failed(t) PROVE CInv'
<1>1. tpc[t] \in Asking
  BY DEF Failed, Asking
<1>2. PICK o \in Live, p \in Policies : o = Last(history[t]) /\ p = sg[t] /\ endpoint[o].policy = p
  BY <1>1, Asked DEF LiveIn
<1>3. PICK n \in Nat : n = Fails(o) + 1
  BY LiveFacts DEF Fails, KInv
<1>4. CASE FuseServerToBreaker(p, o, n)
  BY <1>2, <1>4, FuseCounts
<1>5. CASE endpoint' = [endpoint EXCEPT ![o].fail_count = n] /\ UNCHANGED <<breaker_list, nalives, available_weight>>
  <2>1. Steady
    BY <1>5, SteadyFails DEF KInv
  <2> QED
    BY <1>5, <2>1, SteadyCounts
<1> QED
  BY <1>2, <1>3, <1>4, <1>5 DEF Failed

\* tracing_deleter.
LEMMA ReleaseCounts ==
  ASSUME KInv, CInv, NEW t \in Tasks, Release(t) PROVE CInv'
<1>1. UNCHANGED <<nalives, available_weight, breaker_list>>
  BY DEF Release, counts
<1>2. CASE UNCHANGED endpoint
  BY <1>1, <1>2, QuietCounts
<1>3. CASE history[t] # <<>> /\ endpoint' = [endpoint EXCEPT ![Head(history[t])].ref = @ - 1]
  <2>1. PICK o \in Live : o = Head(history[t])
    BY <1>3, HeadLive
  <2>2. PICK n \in Int : n = endpoint[o].ref - 1
    BY LiveFacts DEF KInv
  <2> QED
    BY <1>1, <1>3, <2>1, <2>2, RefCounts
<1> QED
  BY <1>2, <1>3 DEF Release

\* A step keeps the counts.
LEMMA CountsStep ==
  ASSUME NInv, PlaceSound, KInv, BInv, CInv, [Next]_vars PROVE CInv'
<1>1. CASE UNCHANGED ups
  BY <1>1, QuietCounts DEF ups, counts
<1>2. CASE ServersAdd
  BY <1>2, AddCounts DEF ServersAdd, InUse
<1>3. CASE ServersRemove
  BY <1>3, RemoveCounts DEF ServersRemove, InUse
<1>4. CASE UpstreamNew
  BY <1>4, QuietCounts DEF UpstreamNew, CreateUpstream, counts
<1>5. CASE Tick
  BY <1>5, QuietCounts DEF Tick, counts
<1>6. ASSUME NEW t \in Tasks, TaskStep(t) PROVE CInv'
  BY <1>6, CheckedCounts, WeightedChooses, HashChooses, FindChooses, AnotherChooses, ChoiceCounts, SuccessCounts,
     RecoverCounts, FailedCounts, ReleaseCounts, DeleteCounts DEF TaskStep
<1>7. ASSUME NEW t, NEW p, Route(t, p) PROVE CInv'
  BY <1>7, QuietCounts DEF Route, counts
<1> QED
  BY <1>1, <1>2, <1>3, <1>4, <1>5, <1>6, <1>7, Layer DEF TaskMove

\* At first there is nothing to count.
LEMMA CountsInit ==
  ASSUME Init PROVE CInv
<1>1. /\ nalives = [p \in Policies |-> 0] /\ available_weight = [p \in Policies |-> 0]
      /\ endpoint = [o \in Endpoints |-> NoEndpoint]
  BY DEF Init, UpsInit
<1>2. Live = {}
  BY <1>1 DEF Live, NoEndpoint
<1>3. \A p \in Policies : Unfused(p) = {}
  BY <1>2 DEF Unfused
<1>4. Cardinality({}) = 0 /\ Weighed(endpoint, {})
  BY FS_EmptySet DEF Weighed
<1>5. Sum(endpoint, {}) = 0
  BY <1>4, SumStep
<1> QED
  BY <1>1, <1>3, <1>4, <1>5 DEF CInv

\* The invariant gives CountsExact.
LEMMA CountsGive ==
  ASSUME KInv, CInv PROVE CountsExact
BY DEF KInv, CInv, TotalExact, CountsExact, Unfused, Weights, Sum

-----------------------------------------------------------------------------
(* Under the read lock *)

\* The servers of p stay, and none of them comes into the breaker.
Spared(p) ==
  /\ servers'[p] = servers[p]
  /\ \A o : LiveIn(o, p) => /\ o \in Live' /\ endpoint'[o].policy = p
                            /\ Contains(breaker_list'[p], o) => Contains(breaker_list[p], o)

\* A step that changes neither servers nor this list.
LEMMA SteadySpares ==
  ASSUME KInv, Steady, NEW p \in Policies, servers' = servers, breaker_list'[p] = breaker_list[p] PROVE Spared(p)
<1>1. Live' = Live
  BY SteadyLive
<1> QED
  BY <1>1 DEF Spared, LiveIn, Steady

\* A reference is counted.
LEMMA RefSpares ==
  ASSUME KInv, NEW o \in Live, NEW n \in Int, endpoint' = [endpoint EXCEPT ![o].ref = n],
         NEW p \in Policies, UNCHANGED <<servers, breaker_list>>
  PROVE  Spared(p)
<1>1. Live' = Live /\ \A q \in Live : endpoint'[q].policy = endpoint[q].policy
  BY RefFacts DEF KInv
<1> QED
  BY <1>1 DEF Spared, LiveIn

\* check_breaker_locked takes servers off a list and puts none on it.
LEMMA LockedSpares ==
  ASSUME KInv, BInv, NEW r \in Policies, NEW k \in 0..Len(breaker_list[r]), CheckBreakerLocked(r, k),
         servers' = servers, NEW p \in Policies
  PROVE  Spared(p)
<1>1. /\ Steady /\ breaker_list'[r] = SubSeq(breaker_list[r], k + 1, Len(breaker_list[r]))
      /\ \A q \in Policies : q # r => breaker_list'[q] = breaker_list[q]
  BY LockedFacts
<1>2. CASE p # r
  BY <1>1, <1>2, SteadySpares
<1>3. CASE p = r
  <2>1. PICK l \in Seq(Endpoints) : l = breaker_list[r]
    BY DEF KInv, KeepTypes
  <2>2. /\ Len(breaker_list'[r]) = Len(l) - k
        /\ \A i \in 1..(Len(l) - k) : k + i \in 1..Len(l) /\ breaker_list'[r][i] = l[k + i]
    BY <1>1, <2>1, ListSuffix
  <2>3. \A o : Contains(breaker_list'[r], o) => Contains(l, o)
    BY <2>2 DEF Contains
  <2>4. Live' = Live
    BY <1>1, SteadyLive
  <2> QED
    BY <1>1, <1>3, <2>1, <2>3, <2>4 DEF Spared, LiveIn, Steady
<1> QED
  BY <1>2, <1>3

\* A writer of another policy.
LEMMA OthersSpare ==
  ASSUME KInv, NEW p \in Policies, servers'[p] = servers[p], breaker_list'[p] = breaker_list[p],
         \A o : LiveIn(o, p) => endpoint'[o] = endpoint[o]
  PROVE  Spared(p)
<1>1. \A o : LiveIn(o, p) => o \in Live'
  BY DEF LiveIn, Live
<1> QED
  BY <1>1 DEF Spared, LiveIn

\* add_server of another policy.
LEMMA AddSpares ==
  ASSUME KInv, NEW r \in Policies, NEW address, NEW weight, AddServer(r, address, weight), NEW p \in Policies, p # r
  PROVE  Spared(p)
<1>1. PICK o \in Endpoints : o = Min(Fresh) /\ endpoint[o].state = "free"
  <2>1. Fresh \in SUBSET Nat /\ Fresh # {}
    BY UpstreamAssumption DEF Fresh, AddServer
  <2>2. Min(Fresh) \in Fresh
    BY ONLY <2>1, MinIn
  <2> QED
    BY <2>2 DEF Fresh
<1>2. \E e : endpoint' = [endpoint EXCEPT ![o] = e]
  BY <1>1 DEF AddServer
<1>3. \A q \in Endpoints : q # o => endpoint'[q] = endpoint[q]
  BY <1>2 DEF KInv, KeepTypes
<1>4. \A q : LiveIn(q, p) => q \in Endpoints /\ q # o
  BY <1>1 DEF LiveIn, Live
<1>5. breaker_list' = breaker_list
  BY DEF AddServer
<1>6. servers'[p] = servers[p]
  BY DEF AddServer, KInv, KeepTypes
<1> QED
  BY <1>3, <1>4, <1>5, <1>6, OthersSpare

\* remove_server of another policy.
LEMMA RemoveSpares ==
  ASSUME KInv, NEW r \in Policies, NEW address, RemoveServer(r, address), NEW p \in Policies, p # r
  PROVE  Spared(p)
<1> DEFINE out  == {o \in Range(servers[r]) : endpoint[o].address = address}
           dead == {o \in out : endpoint[o].ref = 1}
<1>1. endpoint' = [o \in Endpoints |->
           CASE o \in dead -> [endpoint[o] EXCEPT !.ref = 0, !.state = "deleted"]
             [] o \in out \ dead -> [endpoint[o] EXCEPT !.ref = @ - 1]
             [] OTHER -> endpoint[o]]
  BY DEF RemoveServer
<1>2. dead \subseteq out /\ \A o \in out : LiveIn(o, r)
  BY ServerFacts
<1> HIDE DEF out, dead
<1>3. \A q : LiveIn(q, p) => q \in Endpoints /\ q \notin out
  BY <1>2 DEF LiveIn, Live
<1>4. \A q : LiveIn(q, p) => endpoint'[q] = endpoint[q]
  BY <1>1, <1>2, <1>3
<1>5. breaker_list'[p] = breaker_list[p] /\ servers'[p] = servers[p]
  BY DEF RemoveServer, PreDeleteServers, KInv, KeepTypes
<1> QED
  BY <1>4, <1>5, OthersSpare

\* The tasks that take the write lock work on another policy.
LEMMA WritersSpare ==
  ASSUME KInv, BInv, NEW t \in Tasks, RecoverServer(t) \/ Failed(t) \/ DeleteServer(t), NEW p \in Policies, ~WrLock(p)
  PROVE  Spared(p)
<1>1. sg[t] \in Policies /\ p # sg[t] /\ servers' = servers
  BY DEF RecoverServer, Failed, DeleteServer, Goto, KInv, TaskTypes, lists
<1>2. PICK r \in Policies : r = sg[t] /\ r # p
  BY <1>1
<1>3. CASE RecoverServer(t)
  <2>1. tpc[t] \in Asking
    BY <1>3 DEF RecoverServer, Goto, Asking
  <2>2. PICK o \in Live : o = Last(history[t])
    BY <2>1, Asked
  <2>3. endpoint' = [endpoint EXCEPT ![o].fail_count = 0] /\ breaker_list'[p] = breaker_list[p]
    BY <1>2, <1>3, <2>2 DEF RecoverServer, KInv, KeepTypes
  <2>4. Steady
    BY <2>3, SteadyFails DEF KInv
  <2> QED
    BY <1>1, <2>3, <2>4, SteadySpares
<1>4. CASE Failed(t)
  <2>1. tpc[t] \in Asking
    BY <1>4 DEF Failed, Asking
  <2>2. PICK o \in Live : o = Last(history[t])
    BY <2>1, Asked
  <2>3. PICK n \in Nat : n = Fails(o) + 1
    BY LiveFacts DEF Fails, KInv
  <2>4. CASE FuseServerToBreaker(r, o, n)
    <3>1. Steady /\ breaker_list'[p] = breaker_list[p]
      BY <1>2, <2>4, FuseFacts DEF KInv, KeepTypes
    <3> QED
      BY <1>1, <3>1, SteadySpares
  <2>5. CASE endpoint' = [endpoint EXCEPT ![o].fail_count = n] /\ UNCHANGED breaker_list
    <3>1. Steady
      BY <2>5, SteadyFails DEF KInv
    <3> QED
      BY <1>1, <2>5, <3>1, SteadySpares
  <2> QED
    BY <1>2, <1>4, <2>2, <2>3, <2>4, <2>5 DEF Failed
<1>5. CASE DeleteServer(t)
  <2>1. tpc[t] = "Delete"
    BY <1>5 DEF DeleteServer, Goto
  <2>2. history[t] # <<>>
    BY <2>1 DEF KInv, Deleting
  <2>3. PICK o : o = Head(history[t]) /\ LiveIn(o, r)
    BY <1>2, <2>2, HeadLive
  <2>4. endpoint' = [endpoint EXCEPT ![o].state = "deleted"] /\ breaker_list'[p] = breaker_list[p]
    BY <1>2, <1>5, <2>3 DEF DeleteServer, PreDeleteServers, KInv, KeepTypes
  <2>5. \A q : LiveIn(q, p) => q # o /\ q \in Endpoints
    BY <1>2, <2>3 DEF LiveIn, Live
  <2>6. \A q : LiveIn(q, p) => endpoint'[q] = endpoint[q]
    BY <2>4, <2>5 DEF KInv, KeepTypes
  <2> QED
    BY <1>1, <2>4, <2>6, OthersSpare
<1> QED
  BY <1>3, <1>4, <1>5

\* What a task does without the write lock.
LEMMA ReadersSpare ==
  ASSUME KInv, BInv, NEW t \in Tasks, NEW p \in Policies,
         \/ CheckBreaker(t) \/ Chooses(t) \/ TryClearBreaker(t) \/ Success(t) \/ SuccessCheck(t) \/ Release(t)
  PROVE  Spared(p)
<1>1. servers' = servers
  BY DEF CheckBreaker, Chooses, TryClearBreaker, Success, SuccessCheck, Release, lists
<1>2. CASE UNCHANGED <<endpoint, breaker_list>>
  <2>1. Steady
    BY <1>2, SteadySame DEF KInv
  <2> QED
    BY <1>1, <1>2, <2>1, SteadySpares
<1>3. CASE CheckBreaker(t)
  <2>1. PICK r \in Policies : r = sg[t]
    BY <1>3 DEF CheckBreaker, KInv, TaskTypes
  <2>2. PICK k \in 0..Len(breaker_list[r]) : k = ExpiredPrefix(r)
    BY PrefixIn
  <2> QED
    BY <1>1, <1>2, <1>3, <2>1, <2>2, LockedSpares DEF CheckBreaker, Unavailable
<1>4. CASE TryClearBreaker(t)
  <2>1. PICK r \in Policies : r = sg[t]
    BY <1>4 DEF TryClearBreaker, Goto, KInv, TaskTypes
  <2>2. Len(breaker_list[r]) \in Nat
    BY LenProperties DEF KInv, KeepTypes
  <2>3. PICK k \in 0..Len(breaker_list[r]) : CheckBreakerLocked(r, k)
    <3>1. 0 \in 0..Len(breaker_list[r]) /\ Len(breaker_list[r]) \in 0..Len(breaker_list[r])
      BY <2>2
    <3> QED
      BY <1>4, <2>1, <3>1 DEF TryClearBreaker
  <2> QED
    BY <1>1, <2>3, LockedSpares
<1>5. CASE Chooses(t)
  <2>1. ASSUME NEW o \in Range(servers[sg[t]]), Select(t, o) PROVE Spared(p)
    <3>1. sg[t] \in Policies
      BY <1>5 DEF Chooses, KInv, TaskTypes, Selecting
    <3>2. o \in Live
      BY <3>1, ServerFacts DEF LiveIn
    <3>3. PICK n \in Int : n = endpoint[o].ref + 1
      BY <3>2, LiveFacts DEF KInv
    <3> QED
      BY <1>1, <1>5, <2>1, <3>2, <3>3, RefSpares DEF Select, Chooses
  <2> QED
    BY <1>2, <1>5, <2>1 DEF Chooses
<1>6. CASE Success(t)
  <2>1. tpc[t] \in Asking
    BY <1>6 DEF Success, Goto, Asking
  <2>2. PICK o \in Live : o = Last(history[t])
    BY <2>1, Asked
  <2>3. endpoint' = [endpoint EXCEPT ![o].fail_count = 0] /\ breaker_list' = breaker_list
    BY <1>6, <2>2 DEF Success
  <2>4. Steady
    BY <2>3, SteadyFails DEF KInv
  <2> QED
    BY <1>1, <2>3, <2>4, SteadySpares
<1>7. CASE SuccessCheck(t)
  BY <1>2, <1>7 DEF SuccessCheck
<1>8. CASE Release(t)
  <2>1. CASE history[t] # <<>> /\ endpoint' = [endpoint EXCEPT ![Head(history[t])].ref = @ - 1]
    <3>1. PICK o \in Live : o = Head(history[t])
      BY <2>1, HeadLive
    <3>2. PICK n \in Int : n = endpoint[o].ref - 1
      BY LiveFacts DEF KInv
    <3> QED
      BY <1>1, <1>8, <2>1, <3>1, <3>2, RefSpares DEF Release
  <2> QED
    BY <1>2, <1>8, <2>1 DEF Release
<1> QED
  BY <1>3, <1>4, <1>5, <1>6, <1>7, <1>8

\* While a task holds the read lock of p.
LEMMA ReadLocked ==
  ASSUME NInv, PlaceSound, KInv, BInv, [Next]_vars, NEW p \in Policies, ~WrLock(p) PROVE Spared(p)
<1>1. CASE UNCHANGED <<servers, breaker_list, endpoint>>
  <2>1. Steady
    BY <1>1, SteadySame DEF KInv
  <2> QED
    BY <1>1, <2>1, SteadySpares
<1>2. CASE UNCHANGED ups
  BY <1>1, <1>2 DEF ups, lists
<1>3. CASE ServersAdd
  <2>1. PICK r \in Policies, a \in Addresses, w \in Nat : AddServer(r, a, w)
    BY <1>3 DEF ServersAdd, InUse
  <2>2. p # r
    BY <2>1 DEF AddServer
  <2> QED
    BY <2>1, <2>2, AddSpares
<1>4. CASE ServersRemove
  <2>1. PICK r \in Policies, a \in Addresses : RemoveServer(r, a)
    BY <1>4 DEF ServersRemove, InUse
  <2>2. p # r
    BY <2>1 DEF RemoveServer
  <2> QED
    BY <2>1, <2>2, RemoveSpares
<1>5. CASE UpstreamNew
  BY <1>1, <1>5 DEF UpstreamNew, CreateUpstream
<1>6. CASE Tick
  BY <1>1, <1>6 DEF Tick, lists
<1>7. ASSUME NEW t \in Tasks, TaskStep(t) PROVE Spared(p)
  BY <1>7, WeightedChooses, HashChooses, FindChooses, AnotherChooses, ReadersSpare, WritersSpare DEF TaskStep
<1>8. ASSUME NEW t, NEW r, Route(t, r) PROVE Spared(p)
  BY <1>1, <1>8 DEF Route, lists
<1> QED
  BY <1>2, <1>3, <1>4, <1>5, <1>6, <1>7, <1>8, Layer DEF TaskMove

\* Who is spinning has been, or has just found nalives # 0 and no server alive.
LEMMA WhoSpins ==
  ASSUME NInv, PlaceSound, KInv, [Next]_vars, NEW t \in Tasks, tpc'[t] = "Spin"
  PROVE  /\ sg'[t] = sg[t] /\ sg[t] \in Policies
         /\ \/ tpc[t] = "Spin"
            \/ nalives[sg[t]] # 0 /\ Alive(sg[t]) = {} /\ UNCHANGED <<servers, breaker_list, endpoint>>
               /\ tpc[t] = "First"
<1>0. tpc \in [Tasks -> TaskStates] /\ \A u \in Tasks : tpc[u] # "Idle" => sg[u] \in Policies
  BY DEF KInv, TaskTypes
<1>1. CASE UNCHANGED <<tpc, sg>>
  BY <1>0, <1>1
<1>2. CASE UNCHANGED ups
  BY <1>1, <1>2 DEF ups, tasks
<1>3. CASE ServersAdd \/ ServersRemove
  BY <1>1, <1>3 DEF ServersAdd, ServersRemove, AddServer, RemoveServer, tasks
<1>4. CASE UpstreamNew \/ Tick
  BY <1>1, <1>4 DEF UpstreamNew, CreateUpstream, Tick, tasks
<1>5. ASSUME NEW u \in Tasks, NEW to, to # "Spin", tpc' = [tpc EXCEPT ![u] = to], \A v \in Tasks : v # u => sg'[v] = sg[v]
      PROVE  tpc[t] = "Spin" /\ sg'[t] = sg[t] /\ sg[t] \in Policies
  BY <1>0, <1>5
<1>6. ASSUME NEW u \in Tasks, TaskStep(u)
      PROVE  /\ sg'[t] = sg[t] /\ sg[t] \in Policies
             /\ \/ tpc[t] = "Spin"
                \/ nalives[sg[t]] # 0 /\ Alive(sg[t]) = {} /\ UNCHANGED <<servers, breaker_list, endpoint>>
                   /\ tpc[t] = "First"
  <2>1. sg' = sg
    BY <1>6 DEF TaskStep, CheckBreaker, WeightedFirstStrategy, HashFirstStrategy, FindNoneLeft, TryClearBreaker, AnotherStrategy,
       Success, SuccessCheck, RecoverServer, Failed, Release, DeleteServer
  <2>2. CASE CheckBreaker(u) \/ TryClearBreaker(u)
    BY <1>5, <2>1, <2>2 DEF CheckBreaker, TryClearBreaker, Goto, Unavailable
  <2>3. CASE WeightedFirstStrategy(u) \/ FindNoneLeft(u) \/ AnotherStrategy(u)
    BY <1>5, <2>1, <2>3 DEF WeightedFirstStrategy, FindNoneLeft, AnotherStrategy, Goto, Unavailable, Select
  <2>4. CASE HashFirstStrategy(u)
    <3>1. CASE Unavailable(u) \/ \E o : Select(u, o)
      BY <1>5, <2>1, <3>1 DEF Unavailable, Select
    <3>2. CASE nalives[sg[u]] # 0 /\ Alive(sg[u]) = {} /\ Goto(u, "First", "Spin") /\ UNCHANGED <<history, endpoint>>
      BY <1>0, <2>1, <2>4, <3>2 DEF Goto, HashFirstStrategy, lists
    <3> QED
      BY <2>4, <3>1, <3>2 DEF HashFirstStrategy
  <2>5. CASE Success(u) \/ SuccessCheck(u) \/ RecoverServer(u) \/ DeleteServer(u)
    BY <1>5, <2>1, <2>5 DEF Success, SuccessCheck, RecoverServer, DeleteServer, Goto
  <2>6. CASE Failed(u)
    BY <1>5, <2>1, <2>6 DEF Failed
  <2>7. CASE Release(u)
    BY <1>1, <1>5, <2>1, <2>7 DEF Release
  <2> QED
    BY <1>6, <2>2, <2>3, <2>4, <2>5, <2>6, <2>7 DEF TaskStep
<1>7. ASSUME NEW u \in Tasks, NEW r, Route(u, r) PROVE tpc[t] = "Spin" /\ sg'[t] = sg[t] /\ sg[t] \in Policies
  <2>1. tpc' = [tpc EXCEPT ![u] = "Select"] /\ \A v \in Tasks : v # u => sg'[v] = sg[v]
    BY <1>7 DEF Route, Goto, KInv, TaskTypes
  <2> QED
    BY <1>5, <2>1
<1> QED
  BY <1>2, <1>3, <1>4, <1>6, <1>7, Layer DEF TaskMove

(***************************************************************************)
(* While a task goes round the ring, the server that made nalives # 0      *)
(* stays where it is: out of the policy, and not in the breaker.           *)
(***************************************************************************)
LEMMA SpinStep ==
  ASSUME NInv, PlaceSound, KInv, BInv, BInv', CInv, SpinsOnlyForRemoved, [Next]_vars PROVE SpinsOnlyForRemoved'
<1> SUFFICES ASSUME NEW t \in Tasks, tpc'[t] = "Spin"
             PROVE  \E o \in Live' : /\ endpoint'[o].policy = sg'[t] /\ ~Contains(servers'[sg'[t]], o)
                                     /\ ~\E q \in Policies : Contains(breaker_list'[q], o)
  BY DEF SpinsOnlyForRemoved, Listed
<1>1. PICK p \in Policies : p = sg[t] /\ p = sg'[t]
  BY WhoSpins
<1>2. \E o : LiveIn(o, p) /\ ~Contains(servers[p], o) /\ ~Contains(breaker_list[p], o)
  <2>1. CASE tpc[t] = "Spin"
    BY <1>1, <2>1 DEF SpinsOnlyForRemoved, LiveIn, Listed
  <2>2. CASE nalives[p] # 0 /\ Alive(p) = {}
    <3>1. Cardinality(Unfused(p)) # 0
      BY <2>2 DEF CInv
    <3>2. Unfused(p) # {}
      BY <3>1, FS_EmptySet
    <3>3. PICK o \in Unfused(p) : TRUE
      BY <3>2
    <3>4. LiveIn(o, p) /\ ~Contains(breaker_list[p], o)
      BY UnfusedFacts
    <3>5. ~Fused(o)
      BY <3>4, ListedWhere DEF BInv, FusedIsListed, LiveIn
    <3>6. ~Contains(servers[p], o)
      BY <2>2, <3>5, ServerFacts DEF Alive
    <3> QED
      BY <3>4, <3>6
  <2> QED
    BY <1>1, <2>1, <2>2, WhoSpins
<1>3. PICK o : LiveIn(o, p) /\ ~Contains(servers[p], o) /\ ~Contains(breaker_list[p], o)
  BY <1>2
<1>4. Spared(p)
  <2>1. tpc[t] \in {"First", "Spin"}
    BY WhoSpins
  <2>2. ~WrLock(p)
    BY <1>1, <2>1 DEF WrLock, Readers
  <2> QED
    BY <2>2, ReadLocked
<1>5. o \in Live' /\ endpoint'[o].policy = p /\ ~Contains(breaker_list'[p], o) /\ ~Contains(servers'[p], o)
  BY <1>3, <1>4 DEF Spared
<1>6. ASSUME NEW q \in Policies, Contains(breaker_list'[q], o) PROVE q = p
  BY <1>5, <1>6 DEF BInv, ListSound, LiveIn, Contains
<1> QED
  BY <1>1, <1>5, <1>6

-----------------------------------------------------------------------------
(* What is done only when all servers are down *)

\* A list that loses nobody.
LEMMA StaysListed ==
  ASSUME NEW o, Listed(o), \A q \in Policies : Contains(breaker_list[q], o) => Contains(breaker_list'[q], o)
  PROVE  Listed(o)'
BY DEF Listed

\* check_breaker_locked with the first k servers of r.
LEMMA LockedFrees ==
  ASSUME KInv, BInv, NEW r \in Policies, NEW k \in 0..Len(breaker_list[r]), CheckBreakerLocked(r, k),
         NEW o \in Live, Listed(o), ~Listed(o)'
  PROVE  endpoint[o].policy = r /\ \E i \in 1..k : o = breaker_list[r][i]
<1>1. /\ breaker_list'[r] = SubSeq(breaker_list[r], k + 1, Len(breaker_list[r]))
      /\ \A q \in Policies : q # r => breaker_list'[q] = breaker_list[q]
  BY LockedFacts
<1>2. PICK l \in Seq(Endpoints) : l = breaker_list[r]
  BY DEF KInv, KeepTypes
<1>3. /\ Len(l) \in Nat /\ Len(breaker_list'[r]) = Len(l) - k
      /\ \A i \in 1..(Len(l) - k) : breaker_list'[r][i] = l[k + i]
  BY <1>1, <1>2, ListSuffix
<1>4. PICK q \in Policies : Contains(breaker_list[q], o) /\ ~Contains(breaker_list'[q], o)
  BY DEF Listed
<1>5. q = r
  BY <1>1, <1>4
<1>6. PICK i \in 1..Len(l) : o = l[i]
  BY <1>2, <1>4, <1>5 DEF Contains
<1>7. i \in 1..k
  <2>1. SUFFICES ASSUME i > k PROVE FALSE
    BY <1>3
  <2>2. PICK j \in 1..(Len(l) - k) : k + j = i
    <3>1. i - k \in 1..(Len(l) - k) /\ k + (i - k) = i
      BY <1>3, <2>1
    <3> QED
      BY <3>1
  <2> QED
    BY <1>3, <1>4, <1>5, <1>6, <2>2 DEF Contains
<1>8. endpoint[o].policy = r
  BY <1>2, <1>6 DEF BInv, ListSound, LiveIn
<1> QED
  BY <1>2, <1>6, <1>7, <1>8

\* What try_clear_breaker does to all servers of a policy at once.
ClearedAll(p) ==
  /\ \E t \in Readers(p) : tpc[t] = "Clear"
  /\ Expired(breaker_list[p][1]) /\ breaker_list'[p] = <<>>

\* Who leaves the list before its time.
LEMMA EarlyStep ==
  ASSUME NInv, PlaceSound, KInv, BInv, [Next]_vars, NEW o \in Live, Listed(o), ~Listed(o)', o \in Live', ~Expired(o)
  PROVE  endpoint'[o].fail_count = 0 \/ ClearedAll(endpoint[o].policy)
<1> DEFINE Goal == endpoint'[o].fail_count = 0 \/ ClearedAll(endpoint[o].policy)
<1>1. ASSUME UNCHANGED breaker_list PROVE FALSE
  BY <1>1 DEF Listed
<1>2. CASE UNCHANGED ups \/ ServersAdd \/ UpstreamNew \/ Tick
  BY <1>1, <1>2 DEF ups, ServersAdd, AddServer, UpstreamNew, CreateUpstream, Tick
<1>3. ASSUME NEW r \in Policies, NEW D, breaker_list' = [breaker_list EXCEPT ![r] = Without(breaker_list[r], D)] PROVE o \in D
  <2>1. /\ \A q \in Policies : q # r => breaker_list'[q] = breaker_list[q]
        /\ Contains(breaker_list'[r], o) <=> Contains(breaker_list[r], o) /\ o \notin D
    BY <1>3, DroppedLists
  <2> QED
    BY <2>1, StaysListed
<1>4. CASE ServersRemove
  <2>1. PICK r \in Policies, address \in Addresses : RemoveServer(r, address)
    BY <1>4 DEF ServersRemove, InUse
  <2> DEFINE out  == {q \in Range(servers[r]) : endpoint[q].address = address}
             dead == {q \in out : endpoint[q].ref = 1}
  <2>2. /\ endpoint' = [q \in Endpoints |->
             CASE q \in dead -> [endpoint[q] EXCEPT !.ref = 0, !.state = "deleted"]
               [] q \in out \ dead -> [endpoint[q] EXCEPT !.ref = @ - 1]
               [] OTHER -> endpoint[q]]
        /\ breaker_list' = [breaker_list EXCEPT ![r] = Without(breaker_list[r], dead)]
    BY <2>1 DEF RemoveServer, PreDeleteServers
  <2> HIDE DEF dead, out
  <2>3. o \in dead /\ o \in Endpoints /\ endpoint[o] \in Objects
    BY <1>3, <2>2, LiveFacts DEF KInv
  <2>4. endpoint'[o].state = "deleted"
    BY <2>2, <2>3 DEF Objects
  <2> QED
    BY <2>4 DEF Live
<1>5. ASSUME NEW t \in Tasks, CheckBreaker(t) PROVE Goal
  <2>1. PICK r \in Policies : r = sg[t]
    BY <1>5 DEF CheckBreaker, KInv, TaskTypes
  <2>2. PICK k \in 0..Len(breaker_list[r]) : k = ExpiredPrefix(r) /\ \A i \in 1..k : Expired(breaker_list[r][i])
    BY PrefixIn
  <2>3. CheckBreakerLocked(r, k)
    BY <1>1, <1>5, <2>1, <2>2 DEF CheckBreaker
  <2> QED
    BY <2>2, <2>3, LockedFrees
<1>6. ASSUME NEW t \in Tasks, TryClearBreaker(t) PROVE Goal
  <2>1. PICK r \in Policies : r = sg[t]
    BY <1>6 DEF TryClearBreaker, Goto, KInv, TaskTypes
  <2>2. Len(breaker_list[r]) \in Nat
    BY LenProperties DEF KInv, KeepTypes
  <2>3. PICK k \in 0..Len(breaker_list[r]) :
          CheckBreakerLocked(r, k) /\ (k = 0 \/ (k = Len(breaker_list[r]) /\ Expired(breaker_list[r][1])))
    <3>1. 0 \in 0..Len(breaker_list[r]) /\ Len(breaker_list[r]) \in 0..Len(breaker_list[r])
      BY <2>2
    <3> QED
      BY <1>6, <2>1, <3>1 DEF TryClearBreaker
  <2>4. endpoint[o].policy = r /\ k # 0
    BY <2>3, LockedFrees
  <2>5. breaker_list'[r] = <<>>
    <3>1. PICK l \in Seq(Endpoints) : l = breaker_list[r]
      BY DEF KInv, KeepTypes
    <3>2. breaker_list'[r] = SubSeq(l, k + 1, Len(l)) /\ k = Len(l) /\ k \in 0..Len(l)
      BY <2>3, <2>4, <3>1, LockedFacts
    <3>3. breaker_list'[r] \in Seq(Endpoints) /\ Len(breaker_list'[r]) = Len(l) - k /\ Len(l) \in Nat
      BY <3>2, ListSuffix
    <3>4. Len(breaker_list'[r]) = 0
      BY <3>2, <3>3
    <3> QED
      BY <3>3, <3>4, EmptySeq
  <2>6. t \in Readers(r) /\ tpc[t] = "Clear"
    BY <1>6, <2>1 DEF TryClearBreaker, Goto, Readers
  <2> QED
    BY <2>3, <2>4, <2>5, <2>6 DEF ClearedAll
<1>7. ASSUME NEW t \in Tasks, Chooses(t) \/ Success(t) \/ SuccessCheck(t) \/ Release(t) PROVE FALSE
  BY <1>1, <1>7 DEF Chooses, Success, SuccessCheck, Release
<1>8. ASSUME NEW t \in Tasks, RecoverServer(t) PROVE Goal
  <2>1. tpc[t] \in Asking
    BY <1>8 DEF RecoverServer, Goto, Asking
  <2>2. PICK q \in Live, r \in Policies : q = Last(history[t]) /\ r = sg[t]
    BY <2>1, Asked
  <2>3. endpoint' = [endpoint EXCEPT ![q].fail_count = 0] /\ breaker_list' = [breaker_list EXCEPT ![r] = Without(breaker_list[r], {q})]
    BY <1>8, <2>2 DEF RecoverServer
  <2>4. endpoint'[q].fail_count = 0
    BY <2>3, SteadyFails DEF KInv
  <2>5. o \in {q}
    BY <1>3, <2>3
  <2> QED
    BY <2>4, <2>5
<1>9. ASSUME NEW t \in Tasks, Failed(t) PROVE FALSE
  <2>1. tpc[t] \in Asking
    BY <1>9 DEF Failed, Asking
  <2>2. PICK q \in Live, r \in Policies : q = Last(history[t]) /\ r = sg[t]
    BY <2>1, Asked
  <2>3. CASE breaker_list' = [breaker_list EXCEPT ![r] = Append(breaker_list[r], q)]
    <3>1. PICK l \in Seq(Endpoints) : l = breaker_list[r]
      BY DEF KInv, KeepTypes
    <3>2. breaker_list'[r] = Append(l, q) /\ \A p \in Policies : p # r => breaker_list'[p] = breaker_list[p]
      BY <2>3, <3>1 DEF KInv, KeepTypes
    <3>3. Len(l) \in Nat /\ q \in Endpoints
      BY LenProperties DEF Live
    <3>4. Len(breaker_list'[r]) = Len(l) + 1 /\ \A i \in 1..Len(l) : i \in 1..(Len(l) + 1) /\ breaker_list'[r][i] = l[i]
      BY <3>2, <3>3, AppendProperties
    <3>5. Contains(l, o) => Contains(breaker_list'[r], o)
      BY <3>4 DEF Contains
    <3> QED
      BY <3>1, <3>2, <3>5, StaysListed
  <2> QED
    BY <1>1, <1>9, <2>2, <2>3 DEF Failed, FuseServerToBreaker
<1>10. ASSUME NEW t \in Tasks, DeleteServer(t) PROVE FALSE
  <2>1. tpc[t] = "Delete"
    BY <1>10 DEF DeleteServer, Goto
  <2>2. history[t] # <<>>
    BY <2>1 DEF KInv, Deleting
  <2>3. PICK q \in Live, r \in Policies : q = Head(history[t]) /\ r = sg[t]
    BY <2>1, <2>2, HeadLive DEF KInv, TaskTypes
  <2>4. endpoint' = [endpoint EXCEPT ![q].state = "deleted"] /\ breaker_list' = [breaker_list EXCEPT ![r] = Without(breaker_list[r], {q})]
    BY <1>10, <2>3 DEF DeleteServer, PreDeleteServers
  <2>5. q \in Endpoints /\ endpoint[q] \in Objects
    BY LiveFacts DEF KInv
  <2>6. endpoint'[q].state = "deleted"
    BY <2>4, <2>5 DEF KInv, KeepTypes, Objects
  <2>7. o \in {q}
    BY <1>3, <2>4
  <2> QED
    BY <2>6, <2>7 DEF Live
<1>11. ASSUME NEW t \in Tasks, TaskStep(t) PROVE Goal
  BY <1>5, <1>6, <1>7, <1>8, <1>9, <1>10, <1>11, WeightedChooses, HashChooses, FindChooses, AnotherChooses DEF TaskStep
<1>12. ASSUME NEW t, NEW p, Route(t, p) PROVE FALSE
  BY <1>1, <1>12 DEF Route
<1> QED
  BY <1>2, <1>4, <1>11, <1>12, Layer DEF TaskMove

\* No weight is left, or no server: all of them are in the breaker.
LEMMA AllDown ==
  ASSUME KInv, BInv, CInv, NEW p \in Policies, nalives[p] = 0 \/ available_weight[p] = 0
  PROVE  \A o \in Range(servers[p]) : Listed(o)
<1>1. PICK U : U = Unfused(p) /\ IsFiniteSet(U) /\ U \subseteq Live
  BY UnfusedFacts
<1>2. U = {}
  <2>1. CASE nalives[p] = 0
    <3>1. Cardinality(U) = 0
      BY <1>1, <2>1 DEF CInv
    <3> QED
      BY <1>1, <3>1, FS_EmptySet
  <2>2. CASE available_weight[p] = 0
    <3>1. Sum(endpoint, U) = 0
      BY <1>1, <2>2 DEF CInv
    <3>2. \A o \in U : endpoint[o].weight \in Nat \ {0}
      BY <1>1, LiveFacts DEF KInv
    <3> QED
      BY <1>1, <3>1, <3>2, SumPositive
  <2> QED
    BY <2>1, <2>2
<1>3. ASSUME NEW o \in Range(servers[p]) PROVE Listed(o)
  <2>1. LiveIn(o, p)
    BY ServerFacts
  <2> QED
    BY <1>1, <1>2, <2>1, UnfusedFacts, ListedWhere
<1> QED
  BY <1>3

\* Who sets out to clear the breaker.
LEMMA ClearStep ==
  ASSUME NInv, PlaceSound, KInv, BInv, CInv, [Next]_vars, NEW t \in Tasks, tpc[t] # "Clear", tpc'[t] = "Clear"
  PROVE  \A o \in Range(servers[sg[t]]) : Listed(o)
<1>1. tpc \in [Tasks -> TaskStates]
  BY DEF KInv, TaskTypes
<1>2. CASE UNCHANGED ups \/ ServersAdd \/ ServersRemove \/ UpstreamNew \/ Tick
  BY <1>2 DEF ups, tasks, ServersAdd, ServersRemove, AddServer, RemoveServer, UpstreamNew, CreateUpstream, Tick
<1>3. ASSUME NEW u \in Tasks, NEW to, to # "Clear", tpc' = [tpc EXCEPT ![u] = to] PROVE FALSE
  BY <1>1, <1>3
<1>4. ASSUME NEW u \in Tasks, NEW r, Route(u, r) PROVE FALSE
  BY <1>3, <1>4 DEF Route, Goto
<1>5. ASSUME NEW u \in Tasks, TaskStep(u), ~FindNoneLeft(u) PROVE FALSE
  <2>1. CASE CheckBreaker(u) \/ TryClearBreaker(u)
    BY <1>3, <2>1 DEF CheckBreaker, TryClearBreaker, Goto, Unavailable
  <2>2. CASE WeightedFirstStrategy(u) \/ AnotherStrategy(u)
    BY <1>3, <2>2 DEF WeightedFirstStrategy, AnotherStrategy, Goto, Unavailable, Select
  <2>3. CASE HashFirstStrategy(u)
    BY <1>3, <2>3 DEF HashFirstStrategy, Goto, Unavailable, Select
  <2>4. CASE Success(u) \/ SuccessCheck(u) \/ RecoverServer(u) \/ DeleteServer(u)
    BY <1>3, <2>4 DEF Success, SuccessCheck, RecoverServer, DeleteServer, Goto
  <2>5. CASE Failed(u)
    BY <1>3, <2>5 DEF Failed
  <2>6. CASE Release(u)
    BY <1>3, <2>6 DEF Release
  <2> QED
    BY <1>5, <2>1, <2>2, <2>3, <2>4, <2>5, <2>6 DEF TaskStep
<1>6. ASSUME NEW u \in Tasks, FindNoneLeft(u) PROVE \A o \in Range(servers[sg[t]]) : Listed(o)
  <2>1. tpc[u] = "Another" /\ available_weight[sg[u]] = 0 /\ tpc' = [tpc EXCEPT ![u] = "Clear"]
    BY <1>3, <1>6 DEF FindNoneLeft, Goto
  <2>2. u = t
    BY <1>1, <2>1
  <2>3. PICK p \in Policies : p = sg[t]
    BY <2>1, <2>2 DEF KInv, TaskTypes
  <2> QED
    BY <2>1, <2>2, <2>3, AllDown
<1> QED
  BY <1>2, <1>4, <1>5, <1>6, Layer DEF TaskMove

\* Who is turned away.
LEMMA RefusedStep ==
  ASSUME NInv, PlaceSound, KInv, BInv, CInv, [Next]_vars, NEW t \in Tasks,
         tpc[t] \in {"Select", "First", "Second"}, tpc'[t] = "Release",
         policy[sg[t]].try_another \/ policy[sg[t]].kind = "consistent_hash"
  PROVE  \A o \in Range(servers[sg[t]]) : Listed(o)
<1> DEFINE Goal == \A o \in Range(servers[sg[t]]) : Listed(o)
<1>0. PICK p \in Policies : p = sg[t]
  BY DEF KInv, TaskTypes
<1>1. tpc \in [Tasks -> TaskStates] /\ tpc'[t] # tpc[t]
  BY DEF KInv, TaskTypes
<1>2. CASE UNCHANGED ups \/ ServersAdd \/ ServersRemove \/ UpstreamNew \/ Tick
  BY <1>1, <1>2 DEF ups, tasks, ServersAdd, ServersRemove, AddServer, RemoveServer, UpstreamNew, CreateUpstream, Tick
<1>3. ASSUME NEW u \in Tasks, u # t, NEW to, tpc' = [tpc EXCEPT ![u] = to] PROVE FALSE
  BY <1>1, <1>3
<1>4. ASSUME NEW u, NEW r, Route(u, r) PROVE FALSE
  BY <1>1, <1>4 DEF Route, Goto
<1>5. ASSUME NEW u \in Tasks, u # t, TaskStep(u) PROVE FALSE
  <2>1. CASE CheckBreaker(u) \/ TryClearBreaker(u)
    BY <1>3, <1>5, <2>1 DEF CheckBreaker, TryClearBreaker, Goto, Unavailable
  <2>2. CASE Chooses(u)
    BY <1>3, <1>5, <2>2 DEF Chooses, Select
  <2>3. CASE Success(u) \/ SuccessCheck(u) \/ RecoverServer(u) \/ DeleteServer(u)
    BY <1>3, <1>5, <2>3 DEF Success, SuccessCheck, RecoverServer, DeleteServer, Goto
  <2>4. CASE Failed(u)
    BY <1>3, <1>5, <2>4 DEF Failed
  <2>5. CASE Release(u)
    BY <1>1, <1>3, <1>5, <2>5 DEF Release
  <2> QED
    BY <1>5, <2>1, <2>2, <2>3, <2>4, <2>5, WeightedChooses, HashChooses, FindChooses, AnotherChooses DEF TaskStep
<1>6. CASE CheckBreaker(t)
  <2>1. tpc' # [tpc EXCEPT ![t] = "First"]
    BY <1>1
  <2>2. servers[p] = <<>>
    BY <1>0, <1>6, <2>1 DEF CheckBreaker
  <2>3. Range(servers[p]) = {}
    BY <2>2 DEF Range
  <2> QED
    BY <1>0, <2>3
<1>7. CASE WeightedFirstStrategy(t)
  <2>1. \A o : ~Select(t, o)
    BY <1>1 DEF Select
  <2>2. ~Goto(t, "First", "Another")
    BY <1>1 DEF Goto
  <2>3. ~policy[sg[t]].try_another /\ policy[sg[t]].kind \in {"weighted_random", "vnswrr"}
    BY <1>7, <2>1, <2>2 DEF WeightedFirstStrategy
  <2> QED
    BY <2>3
<1>8. CASE HashFirstStrategy(t)
  <2>1. \A o : ~Select(t, o)
    BY <1>1 DEF Select
  <2>2. ~Goto(t, "First", "Spin")
    BY <1>1 DEF Goto
  <2>3. nalives[p] = 0
    BY <1>0, <1>8, <2>1, <2>2 DEF HashFirstStrategy
  <2> QED
    BY <1>0, <2>3, AllDown
<1>9. CASE AnotherStrategy(t)
  <2> DEFINE s == servers[p]
             alive == {i \in DOMAIN s : ~Fused(s[i])}
  <2>1. \A o : ~Select(t, o)
    BY <1>1 DEF Select
  <2>2. available_weight[p] = 0 \/ alive = {}
    BY <1>0, <1>9, <2>1 DEF AnotherStrategy
  <2>3. CASE alive = {}
    <3>1. \A o \in Range(servers[p]) : Fused(o)
      BY <2>3 DEF Range
    <3> QED
      BY <1>0, <3>1, ServerFacts DEF BInv, FusedIsListed, LiveIn
  <2> QED
    BY <1>0, <2>2, <2>3, AllDown
<1>10. CASE \/ FindNoneLeft(t) \/ TryClearBreaker(t) \/ Success(t) \/ SuccessCheck(t) \/ RecoverServer(t) \/ Failed(t)
            \/ Release(t) \/ DeleteServer(t)
  BY <1>10 DEF FindNoneLeft, TryClearBreaker, Success, SuccessCheck, RecoverServer, Failed, Release, DeleteServer, Goto
<1> QED
  BY <1>2, <1>4, <1>5, <1>6, <1>7, <1>8, <1>9, <1>10, Layer DEF TaskMove, TaskStep

-----------------------------------------------------------------------------
(* Together *)

Stages ==
  /\ start \in {"Idle", "Upstreams", "Servers", "Cleanup", "Started", "Failed"}
  /\ app \in {"Idle", "Made", "Ready", "Refused", "Deleted"}

\* A step goes from one of these stages to another.
LEMMA StagesStep ==
  ASSUME Stages, [Next]_vars PROVE Stages'
<1>1. start' \in {"Idle", "Upstreams", "Servers", "Cleanup", "Started", "Failed"}
  <2>1. CASE UNCHANGED start
    BY <2>1 DEF Stages
  <2>2. CASE StartStep
    BY <2>1, <2>2 DEF StartStep, BeginStart, MakeUpstream, SkipUpstream, AddConfigured, StartServer, CleanupUpstreams
  <2>3. CASE AppStep \/ Environment \/ UNCHANGED vars
    BY <2>1, <2>3 DEF AppStep, ConfigureUpstream, AddAppServer, AppDelete, ChangeServers, Environment, vars, starting
  <2> QED
    BY <2>1, <2>2, <2>3 DEF Next, RouteTask, starting
<1>2. app' \in {"Idle", "Made", "Ready", "Refused", "Deleted"}
  <2>1. CASE UNCHANGED app
    BY <2>1 DEF Stages
  <2>2. CASE StartStep
    BY <2>1, <2>2 DEF StartStep, BeginStart, MakeUpstream, SkipUpstream, AddConfigured, StartServer, CleanupUpstreams, using
  <2>3. CASE AppStep \/ Environment \/ UNCHANGED vars
    BY <2>1, <2>3 DEF AppStep, ConfigureUpstream, AddAppServer, AppDelete, ChangeServers, Environment, vars, using
  <2> QED
    BY <2>1, <2>2, <2>3 DEF Next, RouteTask, using
<1> QED
  BY <1>1, <1>2 DEF Stages

(***************************************************************************)
(* The parts rest on each other: the counts of references on the choices,  *)
(* the choices on the read lock, the breaker on live servers, the counts   *)
(* of the policy on the breaker, and what a task that walks the ring may   *)
(* find on all of them.                                                    *)
(***************************************************************************)
UInv == NInv /\ Governing /\ PlaceSound /\ Stages /\ KInv /\ BInv /\ CInv /\ SpinsOnlyForRemoved

\* The first state.
LEMMA UpstreamInit ==
  ASSUME Init PROVE UInv
<1>1. Stages /\ Governing
  BY DEF Init, Stages, Governing
<1>2. SpinsOnlyForRemoved
  BY DEF Init, UpsInit, SpinsOnlyForRemoved
<1> QED
  BY <1>1, <1>2, NamesInit, KeepInit, CountsInit DEF UInv

\* One step.
LEMMA UpstreamStep ==
  ASSUME UInv, [Next]_vars PROVE UInv'
<1> USE DEF UInv
<1>1. NInv' /\ Governing' /\ PlaceSound' /\ Stages'
  BY NamesStep, GoverningStep, PlaceStep, StagesStep
<1>2. KInv'
  BY KeepStep
<1>3. BInv'
  BY BreakerStep
<1>4. CInv'
  BY CountsStep
<1>5. SpinsOnlyForRemoved'
  BY <1>3, SpinStep
<1> QED
  BY <1>1, <1>2, <1>3, <1>4, <1>5

\* The types follow.
LEMMA UpstreamTypes ==
  ASSUME UInv PROVE TypeOK
<1>1. NInv /\ Stages /\ KInv /\ CInv
  BY DEF UInv
<1>2. ASSUME NEW p \in Policies
      PROVE  /\ Range(servers[p]) \subseteq Endpoints /\ Range(breaker_list[p]) \subseteq Endpoints
             /\ nalives[p] \in Int /\ available_weight[p] \in Int /\ total_weight[p] \in Int
  <2>1. servers[p] \in Seq(Endpoints) /\ breaker_list[p] \in Seq(Endpoints)
    BY <1>1 DEF KInv, KeepTypes
  <2>2. /\ DOMAIN servers[p] = 1..Len(servers[p]) /\ \A i \in 1..Len(servers[p]) : servers[p][i] \in Endpoints
        /\ DOMAIN breaker_list[p] = 1..Len(breaker_list[p])
        /\ \A i \in 1..Len(breaker_list[p]) : breaker_list[p][i] \in Endpoints
    BY <2>1, LenProperties, ElementOfSeq
  <2>3. Range(servers[p]) \subseteq Endpoints /\ Range(breaker_list[p]) \subseteq Endpoints
    BY <2>2 DEF Range
  <2>4. total_weight[p] \in Int
    <3>1. PICK S : S = Range(servers[p]) /\ Weighed(endpoint, S)
      BY <1>1, ServerFacts
    <3>2. Sum(endpoint, S) \in Int
      BY <3>1, SumStep
    <3> QED
      BY <1>1, <3>1, <3>2 DEF KInv, TotalExact
  <2>5. nalives[p] \in Int /\ available_weight[p] \in Int
    BY <1>1 DEF CInv
  <2> QED
    BY <2>3, <2>4, <2>5
<1>3. ASSUME NEW o \in Live
      PROVE  endpoint[o].fail_count \in Nat /\ endpoint[o].ref \in Nat /\ endpoint[o].weight \in Nat \ {0}
  <2>1. endpoint[o].fail_count \in Nat /\ endpoint[o].weight \in Nat \ {0}
    BY <1>1, LiveFacts DEF KInv
  <2>2. endpoint[o].ref \in Nat
    BY <1>1, RefPositive
  <2> QED
    BY <2>1, <2>2
<1>4. tpc \in [Tasks -> {"Idle", "Select", "First", "Spin", "Another", "Clear", "Second", "Sent",
                         "Succeeded", "Recover", "Release", "Delete", "Done"}]
  <2>1. tpc \in [Tasks -> TaskStates]
    BY <1>1 DEF KInv, TaskTypes
  <2>2. TaskStates = {"Idle", "Select", "First", "Spin", "Another", "Clear", "Second", "Sent",
                      "Succeeded", "Recover", "Release", "Delete", "Done"}
    BY DEF TaskStates, Selecting, Asking
  <2> QED
    BY <2>1, <2>2
<1>5. /\ policy \in [Policies -> [kind : Kinds \cup {"none"}, try_another : BOOLEAN]]
      /\ names \in [Names -> Policies \cup {NoPolicy}] /\ governed \in BOOLEAN
  BY <1>1 DEF NInv, NameTypes, UInv, Governing
<1> QED
  BY <1>1, <1>2, <1>3, <1>4, <1>5 DEF TypeOK, Stages

(***************************************************************************)
(* The inductive invariant holds throughout: for any number of policies,   *)
(* servers, addresses and tasks, any weights, max_fails, mttr and          *)
(* retry_max, and whatever the application changes while the tasks run.    *)
(***************************************************************************)
THEOREM UpstreamInvariant ==
  Spec => []UInv
<1>1. Init => UInv
  BY UpstreamInit
<1>2. UInv /\ [Next]_vars => UInv'
  BY UpstreamStep
<1> QED
  BY <1>1, <1>2, PTL DEF Spec

(***************************************************************************)
(* The types; among them that ref, fail_count and the weights of a server  *)
(* never leave their range (EndpointAddress).                              *)
(***************************************************************************)
THEOREM UpstreamTyped ==
  Spec => []TypeOK
<1>1. UInv => TypeOK
  BY UpstreamTypes
<1> QED
  BY <1>1, UpstreamInvariant, PTL

(***************************************************************************)
(* No server is deleted while the policy or a task refers to it: ref is    *)
(* the number of the references in every interleaving of select,           *)
(* remove_server and tracing_deleter, although the last --ref and the      *)
(* deletion it leads to are two steps.                                     *)
(***************************************************************************)
THEOREM NoServerFreedInUse ==
  Spec => []ServersKept
<1>1. UInv => ServersKept
  BY KeepGives DEF UInv
<1> QED
  BY <1>1, UpstreamInvariant, PTL

(***************************************************************************)
(* The breaker list is ordered, holds a server at most once and never a    *)
(* deleted one, and every server that counts as failed is in it, although  *)
(* success clears fail_count and looks at the list without a lock (failed, *)
(* success, check_breaker_locked).                                         *)
(***************************************************************************)
THEOREM FailedServersComeBack ==
  Spec => []BreakerSound
<1>1. UInv => BreakerSound
  BY BreakerGives DEF UInv
<1> QED
  BY <1>1, UpstreamInvariant, PTL

(***************************************************************************)
(* nalives, available_weight and total_weight are at all times what they   *)
(* stand for (fuse_one_server, recover_one_server, pre_delete_server,      *)
(* add_server, remove_server).                                             *)
(***************************************************************************)
THEOREM CountsAlwaysExact ==
  Spec => []CountsExact
<1>1. UInv => CountsExact
  BY CountsGive DEF UInv
<1> QED
  BY <1>1, UpstreamInvariant, PTL

(***************************************************************************)
(* consistent_hash_with_group walks the ring in vain only because a        *)
(* removed server that a task keeps is counted in nalives; while it walks, *)
(* under the read lock, nothing changes that.                              *)
(***************************************************************************)
THEOREM SpinsForRemoved ==
  Spec => []SpinsOnlyForRemoved
<1>1. UInv => SpinsOnlyForRemoved
  BY DEF UInv
<1> QED
  BY <1>1, UpstreamInvariant, PTL

(***************************************************************************)
(* A server comes back before its time only with all others, after a task  *)
(* found every one of them in the breaker, and a request is turned away    *)
(* only when that is so (another_strategy, try_clear_breaker,              *)
(* first_strategy of consistent_hash).                                     *)
(***************************************************************************)
THEOREM OnlyForLackOfServers ==
  Spec => OnlyWhenAllDown
<1>1. UInv /\ [Next]_vars =>
        [/\ \A t \in Tasks : tpc[t] # "Clear" /\ tpc'[t] = "Clear" =>
              \A o \in Range(servers[sg[t]]) : Listed(o)
         /\ \A o \in Live : Listed(o) /\ ~Listed(o)' /\ o \in Live' /\ ~Expired(o) =>
              \/ endpoint[o]'.fail_count = 0
              \/ LET p == endpoint[o].policy
                 IN  /\ \E t \in Readers(p) : tpc[t] = "Clear"
                     /\ Expired(breaker_list[p][1]) /\ breaker_list'[p] = <<>>]_vars
  <2>1. ASSUME UInv, [Next]_vars, NEW o \in Live, Listed(o), ~Listed(o)', o \in Live', ~Expired(o)
        PROVE  \/ endpoint[o]'.fail_count = 0
               \/ LET p == endpoint[o].policy
                  IN  /\ \E t \in Readers(p) : tpc[t] = "Clear"
                      /\ Expired(breaker_list[p][1]) /\ breaker_list'[p] = <<>>
    BY <2>1, EarlyStep DEF UInv, ClearedAll
  <2>2. ASSUME UInv, [Next]_vars, NEW t \in Tasks, tpc[t] # "Clear", tpc'[t] = "Clear"
        PROVE  \A o \in Range(servers[sg[t]]) : Listed(o)
    BY <2>2, ClearStep DEF UInv
  <2> QED
    BY <2>1, <2>2
<1>2. UInv /\ [Next]_vars =>
        [\A t \in Tasks :
           /\ tpc[t] \in {"Select", "First", "Second"} /\ tpc'[t] = "Release"
           /\ policy[sg[t]].try_another \/ policy[sg[t]].kind = "consistent_hash"
           => \A o \in Range(servers[sg[t]]) : Listed(o)]_vars
  BY RefusedStep DEF UInv
<1>3. Spec => EarlyOnlyWhenAllDown
  BY <1>1, UpstreamInvariant, PTL DEF Spec, EarlyOnlyWhenAllDown
<1>4. Spec => RefusedOnlyWhenAllDown
  BY <1>2, UpstreamInvariant, PTL DEF Spec, RefusedOnlyWhenAllDown
<1> QED
  BY <1>3, <1>4 DEF OnlyWhenAllDown

-----------------------------------------------------------------------------
\* Induction over the subsets of a finite set, for a set of them.
LEMMA SubsetsUp ==
  ASSUME NEW S, IsFiniteSet(S), NEW G, {} \in G,
         \A s \in SUBSET S : \A x \in s : s \ {x} \in G => s \in G
  PROVE  S \in G
<1>0. \A s \in SUBSET S : IsFiniteSet(s) /\ Cardinality(s) \in Nat
  BY FS_Subset, FS_CardinalityType
<1> DEFINE Odd == {s \in SUBSET S : s \notin G}
           Bad == {Cardinality(s) : s \in Odd}
<1> SUFFICES ASSUME Bad # {} PROVE FALSE
  OBVIOUS
<1>1. PICK m \in Bad : \A y \in Nat : y < m => y \notin Bad
  <2>1. Bad \in SUBSET Nat
    BY <1>0
  <2> HIDE DEF Bad
  <2> QED
    BY <2>1, Least
<1>2. PICK s \in SUBSET S : s \in Odd /\ m = Cardinality(s)
  OBVIOUS
<1>3. PICK x \in s : TRUE
  BY <1>2
<1>4. IsFiniteSet(s) /\ m \in Nat /\ Cardinality(s \ {x}) = m - 1 /\ s \ {x} \in SUBSET S
  BY <1>0, <1>2, <1>3, FS_RemoveElement
<1>5. m - 1 \in Nat /\ m - 1 < m
  BY <1>0, <1>4
<1>6. m - 1 \notin Bad
  <2> HIDE DEF Bad
  <2> QED
    BY <1>1, <1>5
<1>7. s \ {x} \in G
  BY <1>4, <1>6
<1> QED
  BY <1>2, <1>3, <1>7

\* Induction from 0 to n, for a set of numbers.
LEMMA NumbersUp ==
  ASSUME NEW n \in Nat, NEW G, 0 \in G, \A k \in 0..n : k < n /\ k \in G => k + 1 \in G
  PROVE  \A k \in 0..n : k \in G
<1> DEFINE Bad == {k \in 0..n : k \notin G}
<1> SUFFICES ASSUME Bad # {} PROVE FALSE
  OBVIOUS
<1>1. PICK m \in Bad : \A y \in Nat : y < m => y \notin Bad
  <2>1. Bad \in SUBSET Nat
    OBVIOUS
  <2> HIDE DEF Bad
  <2> QED
    BY <2>1, Least
<1>2. m \in 0..n /\ m \notin G /\ m # 0
  OBVIOUS
<1>3. m - 1 \in 0..n /\ m - 1 \in Nat /\ m - 1 < m /\ m - 1 < n /\ (m - 1) + 1 = m
  BY <1>2
<1>4. m - 1 \notin Bad
  <2> HIDE DEF Bad
  <2> QED
    BY <1>1, <1>3
<1>5. m - 1 \in G
  BY <1>3, <1>4
<1> HIDE DEF Bad
<1> QED
  BY <1>2, <1>3, <1>5

\* The weights of a part of a set, and of the part without one of its members.
LEMMA Parts ==
  ASSUME NEW eps, NEW S, Weighed(eps, S)
  PROVE  /\ IsFiniteSet(S) /\ Sum(eps, {}) = 0
         /\ \A s \in SUBSET S : Weighed(eps, s) /\ Sum(eps, s) \in Int
         /\ \A s \in SUBSET S : \A x \in s :
              eps[x].weight \in Int /\ Sum(eps, s \ {x}) \in Int /\ Sum(eps, s) = eps[x].weight + Sum(eps, s \ {x})
<1>1. IsFiniteSet(S) /\ \A s \in SUBSET S : Weighed(eps, s)
  BY FS_Subset DEF Weighed
<1>2. \A s \in SUBSET S : Sum(eps, s) \in Int
  BY <1>1, SumStep
<1>3. Sum(eps, {}) = 0
  <2>1. Weighed(eps, {})
    BY <1>1
  <2> QED
    BY <2>1, SumStep
<1>4. ASSUME NEW s \in SUBSET S, NEW x \in s
      PROVE  eps[x].weight \in Int /\ Sum(eps, s \ {x}) \in Int /\ Sum(eps, s) = eps[x].weight + Sum(eps, s \ {x})
  <2>1. s \ {x} \in SUBSET S /\ eps[x].weight \in Int
    BY DEF Weighed
  <2>2. Sum(eps, s) = eps[x].weight + Sum(eps, s \ {x})
    BY <1>1, SumRemove
  <2> QED
    BY <1>2, <2>1, <2>2
<1> QED
  BY <1>1, <1>2, <1>3, <1>4

\* Greater weights, greater sum.
LEMMA SumLe ==
  ASSUME NEW a, NEW b, NEW S, Weighed(a, S), Weighed(b, S), \A o \in S : a[o].weight <= b[o].weight
  PROVE  Sum(a, S) <= Sum(b, S)
<1>a. \A s \in SUBSET S : \A x \in s :
        a[x].weight \in Int /\ Sum(a, s \ {x}) \in Int /\ Sum(a, s) = a[x].weight + Sum(a, s \ {x})
  BY Parts
<1>b. \A s \in SUBSET S : \A x \in s :
        b[x].weight \in Int /\ Sum(b, s \ {x}) \in Int /\ Sum(b, s) = b[x].weight + Sum(b, s \ {x})
  BY Parts
<1> DEFINE G == {s \in SUBSET S : Sum(a, s) <= Sum(b, s)}
<1>1. {} \in G
  BY Parts
<1>2. ASSUME NEW s \in SUBSET S, NEW x \in s, s \ {x} \in G PROVE s \in G
  <2>0. a[x].weight \in Int /\ Sum(a, s \ {x}) \in Int /\ Sum(a, s) = a[x].weight + Sum(a, s \ {x})
    BY <1>a
  <2>1. b[x].weight \in Int /\ Sum(b, s \ {x}) \in Int /\ Sum(b, s) = b[x].weight + Sum(b, s \ {x})
    BY <1>b
  <2>2. a[x].weight <= b[x].weight /\ Sum(a, s \ {x}) <= Sum(b, s \ {x})
    BY <1>2
  <2>3. Sum(a, s) <= Sum(b, s)
    BY ONLY <2>0, <2>1, <2>2
  <2> QED
    BY <2>3
<1>3. IsFiniteSet(S)
  BY DEF Weighed
<1>4. S \in G
  <2> HIDE DEF G
  <2> QED
    BY <1>1, <1>2, <1>3, SubsetsUp
<1> QED
  BY <1>4

\* Equal sums of weights of which none is greater: equal weights.
LEMMA SumTight ==
  ASSUME NEW a, NEW b, NEW S, Weighed(a, S), Weighed(b, S), \A o \in S : a[o].weight <= b[o].weight,
         Sum(a, S) = Sum(b, S), NEW x \in S
  PROVE  a[x].weight = b[x].weight
<1>0. a[x].weight \in Int /\ Sum(a, S \ {x}) \in Int /\ Sum(a, S) = a[x].weight + Sum(a, S \ {x})
  BY Parts
<1>1. b[x].weight \in Int /\ Sum(b, S \ {x}) \in Int /\ Sum(b, S) = b[x].weight + Sum(b, S \ {x})
  BY Parts
<1>2. Weighed(a, S \ {x}) /\ Weighed(b, S \ {x})
  BY Parts
<1>3. Sum(a, S \ {x}) <= Sum(b, S \ {x})
  BY <1>2, SumLe
<1>4. a[x].weight <= b[x].weight
  OBVIOUS
<1>5. Sum(a, S) = Sum(b, S)
  OBVIOUS
<1> QED
  BY ONLY <1>0, <1>1, <1>3, <1>4, <1>5

Adds(a, b, c, S) == \A o \in S : c[o].weight = a[o].weight + b[o].weight

\* Weights that are added member by member.
LEMMA SumPlus ==
  ASSUME NEW a, NEW b, NEW c, NEW S, Weighed(a, S), Weighed(b, S), Adds(a, b, c, S)
  PROVE  Weighed(c, S) /\ Sum(c, S) = Sum(a, S) + Sum(b, S)
<1>0. Weighed(c, S)
  BY DEF Weighed, Adds
<1>a. \A s \in SUBSET S : \A x \in s :
        a[x].weight \in Int /\ Sum(a, s \ {x}) \in Int /\ Sum(a, s) = a[x].weight + Sum(a, s \ {x})
  BY Parts
<1>b. \A s \in SUBSET S : \A x \in s :
        b[x].weight \in Int /\ Sum(b, s \ {x}) \in Int /\ Sum(b, s) = b[x].weight + Sum(b, s \ {x})
  BY Parts
<1>c. \A s \in SUBSET S : \A x \in s :
        c[x].weight \in Int /\ Sum(c, s \ {x}) \in Int /\ Sum(c, s) = c[x].weight + Sum(c, s \ {x})
  BY <1>0, Parts
<1> DEFINE G == {s \in SUBSET S : Sum(c, s) = Sum(a, s) + Sum(b, s)}
<1>1. {} \in G
  BY <1>0, Parts
<1>2. ASSUME NEW s \in SUBSET S, NEW x \in s, s \ {x} \in G PROVE s \in G
  <2>0. a[x].weight \in Int /\ Sum(a, s \ {x}) \in Int /\ Sum(a, s) = a[x].weight + Sum(a, s \ {x})
    BY <1>a
  <2>1. b[x].weight \in Int /\ Sum(b, s \ {x}) \in Int /\ Sum(b, s) = b[x].weight + Sum(b, s \ {x})
    BY <1>b
  <2>2. c[x].weight \in Int /\ Sum(c, s \ {x}) \in Int /\ Sum(c, s) = c[x].weight + Sum(c, s \ {x})
    BY <1>c
  <2>3. c[x].weight = a[x].weight + b[x].weight /\ Sum(c, s \ {x}) = Sum(a, s \ {x}) + Sum(b, s \ {x})
    BY <1>2 DEF Adds
  <2>4. Sum(c, s) = Sum(a, s) + Sum(b, s)
    BY ONLY <2>0, <2>1, <2>2, <2>3
  <2> QED
    BY <2>4
<1>3. IsFiniteSet(S)
  BY DEF Weighed
<1>4. S \in G
  <2> HIDE DEF G
  <2> QED
    BY <1>1, <1>2, <1>3, SubsetsUp
<1> QED
  BY <1>0, <1>4

\* Nothing but zeros.
LEMMA SumZero ==
  ASSUME NEW a, NEW S, Weighed(a, S), \A o \in S : a[o].weight = 0
  PROVE  Sum(a, S) = 0
<1>1. Adds(a, a, a, S)
  BY DEF Adds
<1>2. PICK x : x = Sum(a, S)
  OBVIOUS
<1>3. x = x + x
  BY <1>1, <1>2, SumPlus
<1>4. x \in Int
  BY <1>2, SumStep
<1>5. x = 0
  BY ONLY <1>3, <1>4
<1> QED
  BY <1>2, <1>5

Alters(a, b, S, x) ==
  b[x].weight \in Int /\ \A o \in S : o # x => b[o].weight = a[o].weight

\* One weight changes.
LEMMA SumOne ==
  ASSUME NEW a, NEW b, NEW S, NEW x \in S, Weighed(a, S), Alters(a, b, S, x)
  PROVE  Weighed(b, S) /\ Sum(b, S) = Sum(a, S) + (b[x].weight - a[x].weight)
<1>1. Weighed(b, S)
  <2>1. ASSUME NEW o \in S PROVE b[o].weight \in Int
    <3>1. a[o].weight \in Int /\ a[x].weight \in Int
      BY DEF Weighed
    <3> QED
      BY <3>1 DEF Alters
  <2> QED
    BY <2>1 DEF Weighed
<1>0. a[x].weight \in Int /\ Sum(a, S \ {x}) \in Int /\ Sum(a, S) = a[x].weight + Sum(a, S \ {x})
  BY Parts
<1>2. b[x].weight \in Int /\ Sum(b, S \ {x}) \in Int /\ Sum(b, S) = b[x].weight + Sum(b, S \ {x})
  BY <1>1, Parts
<1>3. Weighed(a, S \ {x})
  BY Parts
<1>4. Sum(b, S \ {x}) = Sum(a, S \ {x})
  <2>1. \A o \in S \ {x} : b[o].weight = a[o].weight
    BY DEF Alters
  <2> QED
    BY <1>3, <2>1, SumEq
<1> QED
  BY <1>0, <1>1, <1>2, <1>4

\* The values b of the places I are the weights of what f has there, S in all.
Along(eps, b, I, f, S) ==
  /\ IsFiniteSet(I) /\ IsFiniteSet(S) /\ S = {f[i] : i \in I}
  /\ \A i \in I : eps[f[i]].weight \in Int /\ b[i].weight = eps[f[i]].weight
  /\ \A i, j \in I : f[i] = f[j] => i = j

\* A sum over the places of a list, each of its own weight.
LEMMA SumAlong ==
  ASSUME NEW eps, NEW b, NEW I, NEW f, NEW S, Along(eps, b, I, f, S)
  PROVE  Sum(b, I) = Sum(eps, S)
<1> USE DEF Along
<1> DEFINE R(s) == {f[i] : i \in s}
           G == {s \in SUBSET I : Sum(b, s) = Sum(eps, R(s))}
<1>0. Weighed(b, I)
  BY DEF Weighed
<1>1. Weighed(eps, R(I))
  BY DEF Weighed
<1>2. {} \in G
  <2>1. R({}) = {}
    OBVIOUS
  <2>2. Sum(b, {}) = 0 /\ Sum(eps, {}) = 0
    BY <1>0, <1>1, Parts
  <2> QED
    BY <2>1, <2>2
<1>3. ASSUME NEW s \in SUBSET I, NEW x \in s, s \ {x} \in G PROVE s \in G
  <2>1. R(s) \in SUBSET R(I) /\ f[x] \in R(s) /\ R(s \ {x}) = R(s) \ {f[x]}
    OBVIOUS
  <2>2. Sum(b, s \ {x}) = Sum(eps, R(s \ {x}))
    BY <1>3
  <2> HIDE DEF R
  <2>3. Sum(b, s) = b[x].weight + Sum(b, s \ {x})
    BY <1>0, Parts
  <2>4. Sum(eps, R(s)) = eps[f[x]].weight + Sum(eps, R(s) \ {f[x]})
    BY <1>1, <2>1, Parts
  <2> QED
    BY <2>1, <2>2, <2>3, <2>4
<1>4. I \in G
  <2> HIDE DEF G
  <2> QED
    BY <1>2, <1>3, SubsetsUp
<1>5. S = R(I)
  OBVIOUS
<1> QED
  BY <1>4, <1>5

-----------------------------------------------------------------------------
(***************************************************************************)
(* Smooth weighted round robin.  In round k every server has been given k  *)
(* times its weight and the chosen ones have paid the total each time, so  *)
(* what a server has is k * weight - total * turns.  All together have the *)
(* total before each choice, so the heaviest has more than 0, and no       *)
(* server ever owes the total or more.  After the cycle, k = total, that   *)
(* leaves no server with more turns than its weight; and there are as many *)
(* turns as weights.                                                       *)
(***************************************************************************)
Turns(v, k, i) == Cardinality({j \in 1..k : v[j] = i})

\* Values by place, as weights to add up.
AsWeights(g, n) == [i \in 1..n |-> [weight |-> g[i]]]

\* The weights of integers.
LEMMA AsWeightsFacts ==
  ASSUME NEW n \in Nat, NEW g, \A i \in 1..n : g[i] \in Int
  PROVE  Weighed(AsWeights(g, n), 1..n) /\ \A i \in 1..n : AsWeights(g, n)[i].weight = g[i]
<1>1. IsFiniteSet(1..n)
  BY FS_Interval
<1> QED
  BY <1>1 DEF AsWeights, Weighed

\* The heaviest of servers that have more than 0 together has more than 0.
LEMMA HeaviestPositive ==
  ASSUME NEW n \in Nat \ {0}, NEW cur \in [1..n -> Int], Sum(AsWeights(cur, n), 1..n) > 0
  PROVE  cur[Heaviest(cur)] > 0
<1> SUFFICES ASSUME ~(cur[Heaviest(cur)] > 0) PROVE FALSE
  OBVIOUS
<1> DEFINE zero == [i \in 1..n |-> 0]
           a == AsWeights(cur, n)
           b == AsWeights(zero, n)
<1>1. \A i \in 1..n : cur[i] \in Int /\ cur[i] <= 0
  <2> SUFFICES ASSUME NEW i \in 1..n PROVE cur[i] \in Int /\ cur[i] <= 0
    OBVIOUS
  <2>1. cur[i] \in Int /\ cur[Heaviest(cur)] \in Int /\ cur[Heaviest(cur)] >= cur[i]
    BY HeaviestIn
  <2> QED
    BY <2>1
<1>2. Weighed(a, 1..n) /\ \A i \in 1..n : a[i].weight = cur[i]
  BY AsWeightsFacts
<1>3. Weighed(b, 1..n) /\ \A i \in 1..n : b[i].weight = 0
  BY AsWeightsFacts
<1> HIDE DEF a, b
<1>4. Sum(b, 1..n) = 0
  BY <1>3, SumZero
<1>5. Sum(a, 1..n) <= Sum(b, 1..n)
  BY <1>1, <1>2, <1>3, SumLe
<1>6. Sum(a, 1..n) \in Int /\ Sum(a, 1..n) > 0
  BY <1>2, SumStep DEF a
<1> QED
  BY <1>4, <1>5, <1>6

\* One turn more.
LEMMA TurnsStep ==
  ASSUME NEW v, NEW k \in Nat, NEW i
  PROVE  /\ Turns(v, k, i) \in Nat /\ Turns(v, 0, i) = 0
         /\ Turns(v, k + 1, i) = Turns(v, k, i) + (IF v[k + 1] = i THEN 1 ELSE 0)
<1> DEFINE S == {j \in 1..k : v[j] = i}
           T == {j \in 1..(k + 1) : v[j] = i}
<1>1. IsFiniteSet(S) /\ Cardinality(S) \in Nat
  <2>1. S \subseteq 1..k /\ IsFiniteSet(1..k)
    BY FS_Interval
  <2> HIDE DEF S
  <2> QED
    BY <2>1, FS_Subset, FS_CardinalityType
<1>2. k + 1 \notin S /\ T = IF v[k + 1] = i THEN S \cup {k + 1} ELSE S
  <2>1. \A j : j \in 1..(k + 1) <=> j \in 1..k \/ j = k + 1
    OBVIOUS
  <2>2. k + 1 \notin 1..k
    OBVIOUS
  <2> QED
    BY <2>1, <2>2
<1>3. Turns(v, 0, i) = 0
  <2>1. {j \in 1..0 : v[j] = i} = {}
    OBVIOUS
  <2> QED
    BY <2>1, FS_EmptySet DEF Turns
<1>4. Turns(v, k, i) = Cardinality(S) /\ Turns(v, k + 1, i) = Cardinality(T)
  BY DEF Turns
<1> HIDE DEF S, T
<1>5. Cardinality(S \cup {k + 1}) = Cardinality(S) + 1
  BY <1>1, <1>2, FS_AddElement
<1> QED
  BY <1>1, <1>2, <1>3, <1>4, <1>5

\* How many turns there were.
LEMMA TurnsNat ==
  ASSUME NEW v, NEW k \in Nat, NEW i PROVE Turns(v, k, i) \in Nat
BY TurnsStep

\* None yet.
LEMMA TurnsNone ==
  ASSUME NEW v, NEW i PROVE Turns(v, 0, i) = 0
<1>1. 0 \in Nat
  OBVIOUS
<1> QED
  BY <1>1, TurnsStep

\* Whose turn it is has one more.
LEMMA TurnsMore ==
  ASSUME NEW v, NEW k \in Nat, NEW i, NEW j, v[k + 1] = j
  PROVE  (i = j => Turns(v, k + 1, i) = Turns(v, k, i) + 1) /\ (i # j => Turns(v, k + 1, i) = Turns(v, k, i))
<1>1. Turns(v, k + 1, i) = Turns(v, k, i) + (IF v[k + 1] = i THEN 1 ELSE 0)
  BY TurnsStep
<1>2. Turns(v, k, i) \in Nat
  BY TurnsNat
<1> QED
  BY <1>1, <1>2

\* What server i has after k rounds, all that it was given and has paid.
Due(v, w, total, k, i) == k * w[i] - total * Turns(v, k, i)

\* A number, at first 0.
LEMMA DueInt ==
  ASSUME NEW v, NEW w, NEW total \in Int, NEW k \in Nat, NEW i, w[i] \in Int
  PROVE  Due(v, w, total, k, i) \in Int
<1>1. Turns(v, k, i) \in Int
  BY TurnsNat
<1> QED
  BY <1>1 DEF Due

\* Nothing yet.
LEMMA DueNone ==
  ASSUME NEW v, NEW w, NEW total \in Int, NEW i, w[i] \in Int
  PROVE  Due(v, w, total, 0, i) = 0
<1>1. Turns(v, 0, i) = 0
  BY TurnsNone
<1> QED
  BY <1>1 DEF Due

\* No server owes the total or more after the cycle: it had no turn too many.
LEMMA Enough ==
  ASSUME NEW w \in Int, NEW total \in Nat \ {0}, NEW c \in Int, total * w - total * c > -total
  PROVE  c <= w
<1> SUFFICES ASSUME c > w PROVE FALSE
  OBVIOUS
<1>1. PICK d \in Nat : c = w + 1 + d
  <2>1. c - w - 1 \in Nat /\ c = w + 1 + (c - w - 1)
    OBVIOUS
  <2> QED
    BY <2>1
<1>2. total * c = total * w + total + total * d
  BY <1>1
<1>3. total * d \in Nat /\ total * w \in Int
  OBVIOUS
<1> QED
  BY <1>2, <1>3

\* After k rounds no server owes the total or more, and there were k turns.
TurnsOf(v, k, n) == [i \in 1..n |-> Turns(v, k, i)]

Settled(v, w, total, n, k) ==
  /\ \A i \in 1..n : Due(v, w, total, k, i) > -total
  /\ Sum(AsWeights(TurnsOf(v, k, n), n), 1..n) = k

\* Before the next choice all have the total together.
Given(cur, v, w, total, n, k) ==
  /\ \A i \in 1..n : cur[i] = Due(v, w, total, k, i) + w[i]
  /\ Sum(AsWeights(cur, n), 1..n) = total

\* The turns, as weights.
LEMMA TurnsWeigh ==
  ASSUME NEW v, NEW k \in Nat, NEW n \in Nat
  PROVE  /\ Weighed(AsWeights(TurnsOf(v, k, n), n), 1..n)
         /\ \A i \in 1..n : AsWeights(TurnsOf(v, k, n), n)[i].weight = Turns(v, k, i) /\ Turns(v, k, i) \in Int
<1>1. \A i \in 1..n : Turns(v, k, i) \in Int
  BY TurnsNat
<1>2. \A i \in 1..n : TurnsOf(v, k, n)[i] = Turns(v, k, i)
  BY DEF TurnsOf
<1>3. PICK g : g = TurnsOf(v, k, n) /\ \A i \in 1..n : g[i] = Turns(v, k, i)
  BY <1>2
<1>4. Weighed(AsWeights(g, n), 1..n) /\ \A i \in 1..n : AsWeights(g, n)[i].weight = g[i]
  BY <1>1, <1>3, AsWeightsFacts
<1> QED
  BY <1>1, <1>3, <1>4

\* Before the first round.
LEMMA FirstSettled ==
  ASSUME NEW n \in Nat \ {0}, NEW w \in [1..n -> Nat \ {0}], NEW total \in Nat \ {0},
         Sum(AsWeights(w, n), 1..n) = total, NEW v
  PROVE  Settled(v, w, total, n, 0) /\ Given(w, v, w, total, n, 0)
<1>1. ASSUME NEW i \in 1..n PROVE Due(v, w, total, 0, i) = 0 /\ w[i] \in Int
  <2>1. w[i] \in Int /\ total \in Int
    OBVIOUS
  <2> QED
    BY <2>1, DueNone
<1>2. PICK a : a = AsWeights(TurnsOf(v, 0, n), n)
  OBVIOUS
<1>3. Weighed(a, 1..n) /\ \A i \in 1..n : a[i].weight = 0
  <2>1. 0 \in Nat /\ \A i \in 1..n : Turns(v, 0, i) = 0
    BY TurnsNone
  <2> QED
    BY <1>2, <2>1, TurnsWeigh
<1>4. Sum(a, 1..n) = 0
  BY <1>3, SumZero
<1>5. \A i \in 1..n : w[i] = Due(v, w, total, 0, i) + w[i] /\ Due(v, w, total, 0, i) > -total
  BY <1>1
<1> QED
  BY <1>2, <1>4, <1>5 DEF Settled, Given

Pays(next, cur, w, n, t, total) ==
  next[t] = cur[t] + w[t] - total /\ \A i \in 1..n : i # t => next[i] = cur[i] + w[i]

Worth(g, n, total) == Sum(AsWeights(g, n), 1..n) = total

\* The values after a round.
LEMMA RoundGives ==
  ASSUME NEW n \in Nat \ {0}, NEW w \in [1..n -> Nat \ {0}], NEW total \in Nat \ {0}, NEW cur \in [1..n -> Int],
         NEW next, NEW t \in 1..n,
         Worth(w, n, total), Worth(cur, n, total), Pays(next, cur, w, n, t, total)
  PROVE  Worth(next, n, total)
<1> USE DEF Pays, Worth
<1>0. PICK e \in Int : e = -total
  OBVIOUS
<1>1. \A i \in 1..n : [j \in 1..n |-> cur[j] + w[j]][i] = cur[i] + w[i] /\ cur[i] + w[i] \in Int
  OBVIOUS
<1>2. PICK mid : \A i \in 1..n : mid[i] = cur[i] + w[i] /\ mid[i] \in Int
  BY <1>1
<1>3. \A i \in 1..n : next[i] \in Int
  <2>1. next[t] \in Int
    OBVIOUS
  <2> QED
    BY <1>2, <2>1
<1>4. PICK a, b, c, d : a = AsWeights(cur, n) /\ b = AsWeights(w, n) /\ c = AsWeights(mid, n) /\ d = AsWeights(next, n)
  OBVIOUS
<1>16. n \in Nat /\ (\A i \in 1..n : cur[i] \in Int) /\ (\A i \in 1..n : w[i] \in Int)
  OBVIOUS
<1>5. Weighed(a, 1..n) /\ \A i \in 1..n : a[i].weight = cur[i]
  BY ONLY <1>4, <1>16, AsWeightsFacts
<1>6. Weighed(b, 1..n) /\ \A i \in 1..n : b[i].weight = w[i]
  BY ONLY <1>4, <1>16, AsWeightsFacts
<1>7. Weighed(c, 1..n) /\ \A i \in 1..n : c[i].weight = mid[i]
  BY ONLY <1>2, <1>4, <1>16, AsWeightsFacts
<1>8. Weighed(d, 1..n) /\ \A i \in 1..n : d[i].weight = next[i]
  BY ONLY <1>3, <1>4, <1>16, AsWeightsFacts
<1>9. Sum(a, 1..n) = total /\ Sum(b, 1..n) = total
  BY <1>4
<1>10. Adds(a, b, c, 1..n)
  BY <1>2, <1>5, <1>6, <1>7 DEF Adds
<1>11. Sum(c, 1..n) = Sum(a, 1..n) + Sum(b, 1..n)
  BY <1>5, <1>6, <1>10, SumPlus
<1>12. Alters(c, d, 1..n, t) /\ d[t].weight = c[t].weight + e
  <2>1. \A i \in 1..n : i # t => d[i].weight = c[i].weight
    BY <1>2, <1>7, <1>8
  <2>5. d[t].weight \in Int
    BY <1>3, <1>8
  <2>2. next[t] = cur[t] + w[t] - total /\ cur[t] \in Int /\ w[t] \in Int
    OBVIOUS
  <2>3. c[t].weight = cur[t] + w[t] /\ d[t].weight = next[t]
    BY <1>2, <1>7, <1>8
  <2>4. d[t].weight = c[t].weight + e
    BY <1>0, <2>2, <2>3
  <2> QED
    BY <2>1, <2>4, <2>5 DEF Alters
<1>13. Sum(d, 1..n) = Sum(c, 1..n) + (d[t].weight - c[t].weight)
  BY <1>7, <1>12, SumOne
<1>15. c[t].weight \in Int
  BY <1>2, <1>7
<1>14. Sum(d, 1..n) = total
  <2>1. d[t].weight - c[t].weight = e
    BY <1>12, <1>15
  <2>2. Sum(c, 1..n) = total + total
    BY <1>9, <1>11
  <2> QED
    BY <1>0, <1>13, <2>1, <2>2
<1> QED
  BY <1>4, <1>14

\* One round: the heaviest has its turn and pays the total.
LEMMA RoundSettles ==
  ASSUME NEW n \in Nat \ {0}, NEW w \in [1..n -> Nat \ {0}], NEW total \in Nat \ {0},
         Sum(AsWeights(w, n), 1..n) = total, NEW v, NEW k \in Nat, NEW cur \in [1..n -> Int],
         Settled(v, w, total, n, k), Given(cur, v, w, total, n, k), v[k + 1] = Heaviest(cur)
  PROVE  Settled(v, w, total, n, k + 1) /\ Given(NextRound(cur, w, total), v, w, total, n, k + 1)
<1>1. PICK t \in 1..n : t = v[k + 1] /\ t = Heaviest(cur) /\ cur[t] > 0
  <2>1. Sum(AsWeights(cur, n), 1..n) > 0
    BY DEF Given
  <2> QED
    BY <2>1, HeaviestIn, HeaviestPositive
<1>2. ASSUME NEW i \in 1..n
      PROVE  /\ cur[i] \in Int /\ w[i] \in Nat \ {0}
             /\ Due(v, w, total, k + 1, i) \in Int
             /\ Due(v, w, total, k + 1, i) = cur[i] - (IF i = t THEN total ELSE 0)
             /\ Due(v, w, total, k + 1, i) > -total
  <2>1. cur[i] \in Int /\ w[i] \in Nat \ {0} /\ w[i] \in Int /\ total \in Int /\ k + 1 \in Nat
    OBVIOUS
  <2>2. cur[i] = Due(v, w, total, k, i) + w[i] /\ Due(v, w, total, k, i) > -total
    BY DEF Given, Settled
  <2>3. Due(v, w, total, k, i) \in Int /\ Due(v, w, total, k + 1, i) \in Int
    BY <2>1, DueInt
  <2>4. /\ i = t => Due(v, w, total, k + 1, i) = Due(v, w, total, k, i) + w[i] - total
        /\ i # t => Due(v, w, total, k + 1, i) = Due(v, w, total, k, i) + w[i]
    <3>1. PICK c \in Int, x \in Int : c = Turns(v, k, i) /\ x = w[i]
      BY <2>1, TurnsNat
    <3>2. (i = t => Turns(v, k + 1, i) = c + 1) /\ (i # t => Turns(v, k + 1, i) = c)
      BY <1>1, <3>1, TurnsMore
    <3>3. /\ (k + 1) * x - total * (c + 1) = (k * x - total * c) + x - total
          /\ (k + 1) * x - total * c = (k * x - total * c) + x
      OBVIOUS
    <3>4. Due(v, w, total, k, i) = k * x - total * c
      BY <3>1 DEF Due
    <3>5. i = t => Due(v, w, total, k + 1, i) = (k + 1) * x - total * (c + 1)
      BY <3>1, <3>2 DEF Due
    <3>6. i # t => Due(v, w, total, k + 1, i) = (k + 1) * x - total * c
      BY <3>1, <3>2 DEF Due
    <3> QED
      BY <3>1, <3>3, <3>4, <3>5, <3>6
  <2>5. Due(v, w, total, k + 1, i) = cur[i] - (IF i = t THEN total ELSE 0)
    <3>1. CASE i = t
      BY <2>1, <2>2, <2>3, <2>4, <3>1
    <3>2. CASE i # t
      <4>1. Due(v, w, total, k + 1, i) = cur[i]
        BY <2>2, <2>4, <3>2
      <4> QED
        BY <2>1, <3>2, <4>1
    <3> QED
      BY <3>1, <3>2
  <2>6. Due(v, w, total, k + 1, i) > -total
    <3>1. CASE i = t
      <4>1. Due(v, w, total, k + 1, i) = cur[t] - total
        BY <2>5, <3>1
      <4> QED
        BY <1>1, <2>1, <3>1, <4>1
    <3>2. CASE i # t
      <4>1. Due(v, w, total, k + 1, i) = Due(v, w, total, k, i) + w[i]
        BY <2>4, <3>2
      <4> QED
        BY <2>1, <2>2, <2>3, <4>1
    <3> QED
      BY <3>1, <3>2
  <2> QED
    BY <2>1, <2>3, <2>5, <2>6
<1>3. Sum(AsWeights(TurnsOf(v, k + 1, n), n), 1..n) = k + 1
  <2>1. PICK a, b, S : a = AsWeights(TurnsOf(v, k, n), n) /\ b = AsWeights(TurnsOf(v, k + 1, n), n) /\ S = 1..n
    OBVIOUS
  <2>2. Weighed(a, S) /\ \A i \in 1..n : a[i].weight = Turns(v, k, i) /\ a[i].weight \in Int
    <3>1. /\ Weighed(AsWeights(TurnsOf(v, k, n), n), 1..n)
          /\ \A i \in 1..n : AsWeights(TurnsOf(v, k, n), n)[i].weight = Turns(v, k, i) /\ Turns(v, k, i) \in Int
      BY TurnsWeigh
    <3> QED
      BY ONLY <2>1, <3>1
  <2>3. \A i \in 1..n : b[i].weight = Turns(v, k + 1, i)
    <3>1. k + 1 \in Nat
      OBVIOUS
    <3> QED
      BY <2>1, <3>1, TurnsWeigh
  <2>4. ASSUME NEW i \in 1..n
        PROVE  (i = t => Turns(v, k + 1, i) = Turns(v, k, i) + 1) /\ (i # t => Turns(v, k + 1, i) = Turns(v, k, i))
    BY <1>1, TurnsMore
  <2>5. t \in S /\ Alters(a, b, S, t) /\ a[t].weight \in Int /\ b[t].weight = a[t].weight + 1
    BY <2>1, <2>2, <2>3, <2>4 DEF Alters
  <2>6. Sum(b, S) = Sum(a, S) + (b[t].weight - a[t].weight)
    BY <2>2, <2>5, SumOne
  <2>7. Sum(a, S) = k
    BY <2>1 DEF Settled
  <2> QED
    BY <2>1, <2>5, <2>6, <2>7
<1>4. \A i \in 1..n : NextRound(cur, w, total)[i] = cur[i] + w[i] - (IF i = t THEN total ELSE 0)
  BY <1>1 DEF NextRound
<1>5. PICK next : next = NextRound(cur, w, total)
  OBVIOUS
<1>6. ASSUME NEW i \in 1..n PROVE next[i] = Due(v, w, total, k + 1, i) + w[i]
  <2>1. /\ cur[i] \in Int /\ w[i] \in Nat \ {0} /\ next[i] = cur[i] + w[i] - (IF i = t THEN total ELSE 0)
        /\ Due(v, w, total, k + 1, i) = cur[i] - (IF i = t THEN total ELSE 0)
    BY <1>2, <1>4, <1>5
  <2> QED
    BY <2>1
<1>7. Sum(AsWeights(next, n), 1..n) = total
  <2>1. next[t] = cur[t] + w[t] - total
    BY <1>4, <1>5
  <2>2. ASSUME NEW i \in 1..n, i # t PROVE next[i] = cur[i] + w[i]
    <3>1. next[i] = cur[i] + w[i] - 0 /\ cur[i] \in Int /\ w[i] \in Int
      BY <1>4, <1>5, <2>2
    <3> QED
      BY <3>1
  <2>3. Sum(AsWeights(cur, n), 1..n) = total
    BY DEF Given
  <2>4. Pays(next, cur, w, n, t, total)
    BY <2>1, <2>2 DEF Pays
  <2>5. Worth(w, n, total) /\ Worth(cur, n, total)
    BY <2>3 DEF Worth
  <2>6. Worth(next, n, total)
    BY <2>4, <2>5, RoundGives
  <2> QED
    BY <2>6 DEF Worth
<1> QED
  BY <1>2, <1>3, <1>5, <1>6, <1>7 DEF Settled, Given

\* All rounds of a cycle.
LEMMA Cycle ==
  ASSUME NEW n \in Nat \ {0}, NEW w \in [1..n -> Nat \ {0}], NEW total \in Nat \ {0},
         Sum(AsWeights(w, n), 1..n) = total, NEW f,
         RoundsOf(f, n, w, total), NEW v, v = [i \in 1..total |-> Heaviest(f[i])]
  PROVE  Settled(v, w, total, n, total)
<1> DEFINE G == {k \in 0..total : Settled(v, w, total, n, k) /\ (k < total => Given(f[k + 1], v, w, total, n, k))}
<1>1. 0 \in G
  <2>1. 0 \in 0..total /\ 1 \in 1..total /\ 0 + 1 = 1
    OBVIOUS
  <2>2. f[1] = w
    BY <2>1 DEF RoundsOf
  <2> QED
    BY <2>1, <2>2, FirstSettled
<1>2. ASSUME NEW k \in 0..total, k < total, k \in G PROVE k + 1 \in G
  <2>1. k \in Nat /\ k + 1 \in 0..total /\ k + 1 \in 1..total
    BY <1>2
  <2>2. Settled(v, w, total, n, k) /\ Given(f[k + 1], v, w, total, n, k)
    BY <1>2
  <2> HIDE DEF G
  <2>3. PICK cur \in [1..n -> Int] : cur = f[k + 1] /\ v[k + 1] = Heaviest(cur)
    BY <2>1 DEF RoundsOf
  <2>4. Settled(v, w, total, n, k + 1) /\ Given(NextRound(cur, w, total), v, w, total, n, k + 1)
    BY <2>1, <2>2, <2>3, RoundSettles
  <2>5. k + 1 < total => f[(k + 1) + 1] = NextRound(cur, w, total)
    <3> SUFFICES ASSUME k + 1 < total PROVE f[(k + 1) + 1] = NextRound(cur, w, total)
      OBVIOUS
    <3>1. (k + 1) + 1 \in 1..total /\ (k + 1) + 1 # 1 /\ ((k + 1) + 1) - 1 = k + 1
      BY <2>1
    <3> QED
      BY <2>3, <3>1 DEF RoundsOf
  <2> QED
    BY <2>1, <2>4, <2>5 DEF G
<1>3. total \in G
  <2>1. total \in 0..total /\ total \in Nat
    OBVIOUS
  <2> HIDE DEF G
  <2> QED
    BY <1>1, <1>2, <2>1, NumbersUp
<1> QED
  BY <1>3

\* In a cycle each server has its turn as often as its weight says.
LEMMA CycleFair ==
  ASSUME NEW n \in Nat \ {0}, NEW w \in [1..n -> Nat \ {0}], NEW total \in Nat \ {0},
         Sum(AsWeights(w, n), 1..n) = total
  PROVE  /\ Len(VirtualNodes(w, total)) = total /\ DOMAIN VirtualNodes(w, total) = 1..total
         /\ \A i \in 1..n : Turns(VirtualNodes(w, total), total, i) = w[i]
<1>0. w \in [1..n -> Int] /\ total \in Nat
  OBVIOUS
<1>1. PICK f : RoundsOf(f, n, w, total) /\ VirtualNodes(w, total) = [i \in 1..total |-> Heaviest(f[i])]
  BY <1>0, VirtualNodesAre
<1>2. PICK v : v = VirtualNodes(w, total) /\ v = [i \in 1..total |-> Heaviest(f[i])]
  BY <1>1
<1>3. Len(v) = total /\ DOMAIN v = 1..total
  <2>1. v \in Seq(1..n) /\ DOMAIN v = 1..total
    BY <1>0, <1>2, VirtualNodesIn
  <2>2. Len(v) \in Nat /\ DOMAIN v = 1..Len(v)
    BY <2>1, LenProperties
  <2> QED
    BY <2>1, <2>2
<1>4. Settled(v, w, total, n, total)
  BY <1>1, <1>2, Cycle
<1>5. PICK a, b, S : a = AsWeights(TurnsOf(v, total, n), n) /\ b = AsWeights(w, n) /\ S = 1..n
  OBVIOUS
<1>6. Weighed(a, S) /\ \A i \in 1..n : a[i].weight = Turns(v, total, i) /\ Turns(v, total, i) \in Int
  BY <1>5, TurnsWeigh
<1>7. Weighed(b, S) /\ \A i \in 1..n : b[i].weight = w[i]
  BY <1>5, AsWeightsFacts
<1>8. Sum(a, S) = total /\ Sum(b, S) = total
  BY <1>4, <1>5 DEF Settled
<1>9. ASSUME NEW i \in S PROVE a[i].weight <= b[i].weight
  <2>1. w[i] \in Int /\ Turns(v, total, i) \in Int /\ total * w[i] - total * Turns(v, total, i) > -total
    BY <1>4, <1>5, <1>6 DEF Settled, Due
  <2>2. Turns(v, total, i) <= w[i]
    BY <2>1, Enough
  <2> QED
    BY <1>5, <1>6, <1>7, <2>2
<1>10. ASSUME NEW i \in S PROVE a[i].weight = b[i].weight
  BY <1>6, <1>7, <1>8, <1>9, SumTight
<1> QED
  BY <1>2, <1>3, <1>5, <1>6, <1>7, <1>10

-----------------------------------------------------------------------------
(***************************************************************************)
(* VirtualNodesFair is not inductive: what a cycle of virtual nodes does   *)
(* for each server follows only from how it was made.  The invariant says  *)
(* that the virtual nodes are still those of the present servers and       *)
(* weights, and that a policy has no server twice, so that its total is    *)
(* the sum over the places of the list.                                    *)
(***************************************************************************)
WeightsOf(s, eps) == [i \in 1..Len(s) |-> eps[s[i]].weight]

Distinct(s) == \A i, j \in 1..Len(s) : s[i] = s[j] => i = j

VInv ==
  \A p \in Policies :
    /\ Distinct(servers[p])
    /\ policy[p].kind = "vnswrr" /\ servers[p] # <<>> =>
         pre_generated_vec[p] = VirtualNodes(WeightsOf(servers[p], endpoint), total_weight[p])

\* The weights of a list of servers add up to something.
LEMMA ListTotal ==
  ASSUME NEW s \in Seq(Endpoints), NEW eps, \A i \in 1..Len(s) : eps[s[i]].weight \in Nat \ {0}, s # <<>>
  PROVE  /\ Len(s) \in Nat \ {0} /\ Weighed(eps, Range(s)) /\ Sum(eps, Range(s)) \in Nat \ {0}
         /\ Range(s) = {s[i] : i \in 1..Len(s)}
<1>1. Len(s) \in Nat /\ Len(s) # 0 /\ DOMAIN s = 1..Len(s) /\ \A i \in 1..Len(s) : s[i] \in Endpoints
  BY LenProperties, EmptySeq, ElementOfSeq
<1>2. Range(s) = {s[i] : i \in 1..Len(s)}
  BY <1>1 DEF Range
<1>3. Range(s) \subseteq Endpoints /\ s[1] \in Range(s)
  BY <1>1, <1>2
<1>4. IsFiniteSet(Range(s))
  BY <1>3, UpstreamAssumption, FS_Subset
<1>5. \A o \in Range(s) : eps[o].weight \in Nat \ {0}
  BY <1>2
<1>6. Weighed(eps, Range(s))
  BY <1>4, <1>5 DEF Weighed
<1>7. Sum(eps, Range(s)) \in Nat \ {0}
  <2>1. PICK S : S = Range(s) /\ IsFiniteSet(S) /\ S # {} /\ \A o \in S : eps[o].weight \in Nat \ {0}
    BY <1>3, <1>4, <1>5
  <2>2. Weighed(eps, S)
    BY <1>6, <2>1
  <2>3. Sum(eps, S) \in Int
    BY <2>2, SumStep
  <2>4. Sum(eps, S) > 0
    BY <2>1, <2>2, SumPositive
  <2> QED
    BY <2>1, <2>3, <2>4
<1> QED
  BY <1>1, <1>2, <1>6, <1>7

\* The virtual nodes of the present servers are fair.
LEMMA VirtualGives ==
  ASSUME KInv, VInv PROVE VirtualNodesFair
<1> SUFFICES ASSUME NEW p \in Policies, policy[p].kind = "vnswrr", servers[p] # <<>>
             PROVE  /\ Len(pre_generated_vec[p]) = total_weight[p]
                    /\ \A i \in DOMAIN servers[p] :
                         Cardinality({k \in DOMAIN pre_generated_vec[p] : pre_generated_vec[p][k] = i})
                           = endpoint[servers[p][i]].weight
  BY DEF VirtualNodesFair
<1>1. PICK s \in Seq(Endpoints) : s = servers[p] /\ s # <<>>
  BY ServerFacts
<1>2. \A i \in 1..Len(s) : endpoint[s[i]].weight \in Nat \ {0}
  BY <1>1, LiveFacts DEF KInv, ServersLive, LiveIn
<1>3. PICK n \in Nat \ {0}, total \in Nat \ {0} :
         n = Len(s) /\ DOMAIN s = 1..n /\ total = total_weight[p] /\ total = Sum(endpoint, {s[i] : i \in 1..n})
  <2>1. DOMAIN s = 1..Len(s)
    BY LenProperties
  <2> QED
    BY <1>1, <1>2, <2>1, ListTotal DEF KInv, TotalExact
<1>4. PICK w \in [1..n -> Nat \ {0}] : w = WeightsOf(s, endpoint) /\ \A i \in 1..n : w[i] = endpoint[s[i]].weight
  <2> DEFINE g == [i \in 1..n |-> endpoint[s[i]].weight]
  <2>1. g = WeightsOf(s, endpoint)
    BY <1>3 DEF WeightsOf
  <2>2. g \in [1..n -> Nat \ {0}] /\ \A i \in 1..n : g[i] = endpoint[s[i]].weight
    BY <1>2, <1>3
  <2> QED
    BY <2>1, <2>2
<1>5. Sum(AsWeights(w, n), 1..n) = total
  <2>0. n \in Nat /\ \A i \in 1..n : w[i] \in Int
    OBVIOUS
  <2>8. \A i \in 1..n : AsWeights(w, n)[i].weight = w[i]
    BY ONLY <2>0, AsWeightsFacts
  <2>1. PICK b : b = AsWeights(w, n) /\ \A i \in 1..n : b[i].weight = endpoint[s[i]].weight
    BY <1>4, <2>8
  <2>2. PICK I : I = 1..n /\ IsFiniteSet(I)
    BY FS_Interval
  <2>3. IsFiniteSet({s[i] : i \in I})
    BY <1>1, <1>2, <1>3, <2>2, ListTotal DEF Weighed
  <2>4. \A i, j \in I : s[i] = s[j] => i = j
    BY <1>1, <1>3, <2>2 DEF VInv, Distinct
  <2>5. \A i \in I : endpoint[s[i]].weight \in Int /\ b[i].weight = endpoint[s[i]].weight
    BY <1>2, <1>3, <2>1, <2>2
  <2>6. Along(endpoint, b, I, s, {s[i] : i \in I})
    BY <2>2, <2>3, <2>4, <2>5 DEF Along
  <2>7. Sum(b, I) = Sum(endpoint, {s[i] : i \in I})
    BY <2>6, SumAlong
  <2> QED
    BY <1>3, <2>1, <2>2, <2>7
<1>6. PICK v : v = pre_generated_vec[p] /\ v = VirtualNodes(w, total)
  BY <1>1, <1>3, <1>4 DEF VInv
<1>7. Len(v) = total /\ DOMAIN v = 1..total /\ \A i \in 1..n : Turns(v, total, i) = w[i]
  <2>1. n \in Nat \ {0} /\ w \in [1..n -> Nat \ {0}] /\ total \in Nat \ {0}
    OBVIOUS
  <2>2. /\ Len(VirtualNodes(w, total)) = total /\ DOMAIN VirtualNodes(w, total) = 1..total
        /\ \A i \in 1..n : Turns(VirtualNodes(w, total), total, i) = w[i]
    BY ONLY <1>5, <2>1, CycleFair
  <2> QED
    BY <1>6, <2>2
<1>8. ASSUME NEW i \in 1..n PROVE Cardinality({k \in DOMAIN v : v[k] = i}) = endpoint[s[i]].weight
  <2>1. {k \in DOMAIN v : v[k] = i} = {k \in 1..total : v[k] = i}
    BY <1>7
  <2>2. Cardinality({k \in 1..total : v[k] = i}) = w[i]
    BY <1>7 DEF Turns
  <2> QED
    BY <1>4, <2>1, <2>2
<1>9. \A i \in DOMAIN s : Cardinality({k \in DOMAIN v : v[k] = i}) = endpoint[s[i]].weight
  BY <1>3, <1>8
<1>10. Len(v) = total_weight[p]
  BY <1>3, <1>7
<1> QED
  BY <1>1, <1>6, <1>9, <1>10

\* Nothing of it changes while lists, totals and weights stay.
LEMMA VirtualFrame ==
  ASSUME KInv, VInv, UNCHANGED <<servers, pre_generated_vec, total_weight>>,
         \A p \in Policies : servers[p] # <<>> => policy'[p].kind = policy[p].kind,
         \A o \in Live : endpoint'[o].weight = endpoint[o].weight
  PROVE  VInv'
<1> SUFFICES ASSUME NEW p \in Policies
             PROVE  /\ Distinct(servers[p])
                    /\ policy[p].kind = "vnswrr" /\ servers[p] # <<>> =>
                         pre_generated_vec[p] = VirtualNodes(WeightsOf(servers[p], endpoint'), total_weight[p])
  BY DEF VInv
<1>1. WeightsOf(servers[p], endpoint') = WeightsOf(servers[p], endpoint)
  BY DEF KInv, ServersLive, LiveIn, WeightsOf
<1> QED
  BY <1>1 DEF VInv

\* No server has another weight than before.
SameWeights == \A o \in Live : endpoint'[o].weight = endpoint[o].weight

\* add and remove: init makes the virtual nodes again.
LEMMA NodesMade ==
  ASSUME KInv, KInv', VInv, NEW p \in Policies, NEW s \in Seq(Endpoints), NEW eps, Distinct(s),
         servers' = [servers EXCEPT ![p] = s], policy' = policy, SameWeights,
         \A r \in Policies : r # p => total_weight'[r] = total_weight[r],
         \A i \in 1..Len(s) : eps[s[i]].weight = endpoint'[s[i]].weight, InitVnswrr(p, s, total_weight'[p], eps)
  PROVE  VInv'
<1>1. servers'[p] = s /\ \A r \in Policies : r # p => servers'[r] = servers[r]
  BY DEF KInv, KeepTypes
<1>2. ASSUME NEW r \in Policies, r # p
      PROVE  /\ Distinct(servers'[r])
             /\ policy'[r].kind = "vnswrr" /\ servers'[r] # <<>> =>
                  pre_generated_vec'[r] = VirtualNodes(WeightsOf(servers'[r], endpoint'), total_weight'[r])
  <2>1. WeightsOf(servers[r], endpoint') = WeightsOf(servers[r], endpoint)
    BY DEF KInv, ServersLive, LiveIn, WeightsOf, SameWeights
  <2>2. pre_generated_vec'[r] = pre_generated_vec[r]
    BY <1>2 DEF InitVnswrr, KInv, TotalExact
  <2> QED
    BY <1>1, <1>2, <2>1, <2>2 DEF VInv
<1>3. ASSUME policy[p].kind = "vnswrr", s # <<>>
      PROVE  pre_generated_vec'[p] = VirtualNodes(WeightsOf(s, endpoint'), total_weight'[p])
  <2>1. \A i \in 1..Len(s) : s[i] \in Live'
    BY <1>1 DEF KInv, ServersLive, LiveIn
  <2>2. \A i \in 1..Len(s) : endpoint'[s[i]].weight \in Nat \ {0}
    <3> SUFFICES ASSUME NEW i \in 1..Len(s) PROVE endpoint'[s[i]].weight \in Nat \ {0}
      OBVIOUS
    <3>1. s[i] \in Endpoints /\ endpoint'[s[i]].state = "live" /\ endpoint'[s[i]] \in Objects \cup {NoEndpoint}
      BY <2>1 DEF Live, KInv, KeepTypes
    <3>2. NoEndpoint.state = "free"
      BY DEF NoEndpoint
    <3>3. endpoint'[s[i]] \in Objects
      BY <3>1, <3>2
    <3> QED
      BY <3>3 DEF Objects
  <2>3. Sum(endpoint', Range(s)) \in Nat \ {0}
    BY <1>3, <2>2, ListTotal
  <2>4. total_weight'[p] \in Nat \ {0}
    BY <1>1, <2>3 DEF KInv, TotalExact
  <2>5. [i \in 1..Len(s) |-> eps[s[i]].weight] = WeightsOf(s, endpoint')
    BY DEF WeightsOf
  <2>6. ~(policy[p].kind # "vnswrr" \/ total_weight'[p] <= 0)
    BY <1>3, <2>4
  <2>7. pre_generated_vec' = [pre_generated_vec EXCEPT ![p] = VirtualNodes(WeightsOf(s, endpoint'), total_weight'[p])]
    BY <2>5, <2>6 DEF InitVnswrr
  <2> QED
    BY <2>7 DEF KInv, TotalExact
<1> QED
  BY <1>1, <1>2, <1>3 DEF VInv

\* add_server: the new server is not in the list yet.
LEMMA AddVirtual ==
  ASSUME KInv, KInv', VInv, NEW p \in Policies, NEW address, NEW weight, AddServer(p, address, weight) PROVE VInv'
<1>1. PICK o \in Endpoints : o = Min(Fresh) /\ endpoint[o].state = "free"
  <2>1. Fresh \in SUBSET Nat /\ Fresh # {}
    BY UpstreamAssumption DEF Fresh, AddServer
  <2>2. Min(Fresh) \in Fresh
    BY ONLY <2>1, MinIn
  <2> QED
    BY <2>2 DEF Fresh
<1> DEFINE s == Append(servers[p], o)
<1>2. /\ \E e : endpoint' = [endpoint EXCEPT ![o] = e]
      /\ servers' = [servers EXCEPT ![p] = s] /\ policy' = policy
      /\ \E w : total_weight' = [total_weight EXCEPT ![p] = @ + w]
      /\ InitVnswrr(p, s, total_weight'[p], endpoint')
  BY <1>1 DEF AddServer
<1>3. \A q \in Live : q \in Endpoints /\ q # o
  BY <1>1 DEF Live
<1>4. SameWeights
  BY <1>2, <1>3 DEF SameWeights, KInv, KeepTypes
<1>5. \A r \in Policies : r # p => total_weight'[r] = total_weight[r]
  BY <1>2 DEF KInv, TotalExact
<1>6. servers[p] \in Seq(Endpoints) /\ Len(servers[p]) \in Nat
  BY ServerFacts
<1>7. /\ s \in Seq(Endpoints) /\ Len(s) = Len(servers[p]) + 1 /\ s[Len(servers[p]) + 1] = o
      /\ \A i \in 1..Len(servers[p]) : s[i] = servers[p][i]
  BY <1>6, AppendProperties
<1> HIDE DEF s
<1>8. Distinct(s)
  <2>1. \A i \in 1..Len(s) : i \in 1..Len(servers[p]) \/ i = Len(servers[p]) + 1
    BY <1>6, <1>7
  <2>2. \A i \in 1..Len(servers[p]) : s[i] # o
    BY <1>3, <1>7 DEF KInv, ServersLive, LiveIn
  <2>3. \A i, j \in 1..Len(servers[p]) : s[i] = s[j] => i = j
    BY <1>7 DEF VInv, Distinct
  <2> QED
    BY <1>7, <2>1, <2>2, <2>3 DEF Distinct
<1>9. PICK eps : eps = endpoint'
  OBVIOUS
<1> QED
  BY <1>2, <1>4, <1>5, <1>7, <1>8, <1>9, NodesMade

\* What is kept of a list without repetitions has none.
LEMMA WithoutDistinct ==
  ASSUME NEW X, NEW list \in Seq(X), NEW S, Distinct(list) PROVE Distinct(Without(list, S))
<1>1. PICK kept \in Seq(X) : kept = Without(list, S)
  BY WithoutIs
<1>2. PICK at : Subsequence(kept, list, S, Len(list), at)
  BY <1>1, WithoutIs
<1>3. Len(kept) \in Nat /\ Len(list) \in Nat
  BY LenProperties
<1>4. ASSUME NEW i \in 1..Len(kept), NEW j \in 1..Len(kept), kept[i] = kept[j] PROVE i = j
  <2>1. at[i] \in 1..Len(list) /\ at[j] \in 1..Len(list) /\ list[at[i]] = list[at[j]]
    BY <1>2, <1>4 DEF Subsequence
  <2>2. at[i] = at[j]
    BY <2>1 DEF Distinct
  <2>3. ~(i < j) /\ ~(j < i)
    <3>1. (i < j => at[i] < at[j]) /\ (j < i => at[j] < at[i])
      BY <1>2 DEF Subsequence
    <3> QED
      BY <1>3, <2>1, <2>2, <3>1
  <2> QED
    BY <1>3, <2>3
<1> QED
  BY <1>1, <1>4 DEF Distinct

\* remove_server.
LEMMA RemoveVirtual ==
  ASSUME KInv, KInv', VInv, NEW p \in Policies, NEW address, RemoveServer(p, address) PROVE VInv'
<1> DEFINE out  == {o \in Range(servers[p]) : endpoint[o].address = address}
           dead == {o \in out : endpoint[o].ref = 1}
           s    == Without(servers[p], out)
<1>1. /\ servers' = [servers EXCEPT ![p] = s] /\ policy' = policy
      /\ endpoint' = [o \in Endpoints |->
           CASE o \in dead -> [endpoint[o] EXCEPT !.ref = 0, !.state = "deleted"]
             [] o \in out \ dead -> [endpoint[o] EXCEPT !.ref = @ - 1]
             [] OTHER -> endpoint[o]]
      /\ \E w : total_weight' = [total_weight EXCEPT ![p] = @ - w]
      /\ InitVnswrr(p, s, total_weight'[p], endpoint)
  BY DEF RemoveServer
<1>2. dead \subseteq out
  OBVIOUS
<1>3. s \in Seq(Endpoints) /\ \A i \in 1..Len(s) : s[i] \in Range(servers[p]) \ out
  BY ServerFacts, WithoutRange
<1>4. Distinct(s)
  <2>1. servers[p] \in Seq(Endpoints) /\ Distinct(servers[p])
    BY ServerFacts DEF VInv
  <2> HIDE DEF out
  <2> QED
    BY <2>1, WithoutDistinct
<1> HIDE DEF out, dead, s
<1>5. SameWeights
  <2> SUFFICES ASSUME NEW o \in Live PROVE endpoint'[o].weight = endpoint[o].weight
    BY DEF SameWeights
  <2>1. o \in Endpoints /\ endpoint[o] \in Objects
    BY LiveFacts DEF KInv
  <2>2. CASE o \in dead
    <3>1. endpoint'[o] = [endpoint[o] EXCEPT !.ref = 0, !.state = "deleted"]
      BY <1>1, <2>1, <2>2
    <3> QED
      BY <2>1, <3>1 DEF Objects
  <2>3. CASE o \in out \ dead
    <3>1. endpoint'[o] = [endpoint[o] EXCEPT !.ref = @ - 1]
      BY <1>1, <2>1, <2>3
    <3> QED
      BY <2>1, <3>1 DEF Objects
  <2>4. CASE o \notin out
    BY <1>1, <1>2, <2>1, <2>4
  <2> QED
    BY <2>2, <2>3, <2>4
<1>6. \A r \in Policies : r # p => total_weight'[r] = total_weight[r]
  BY <1>1 DEF KInv, TotalExact
<1>7. \A i \in 1..Len(s) : endpoint[s[i]].weight = endpoint'[s[i]].weight
  BY <1>3, <1>5, ServerFacts DEF LiveIn, SameWeights
<1> QED
  BY <1>1, <1>3, <1>4, <1>5, <1>6, <1>7, NodesMade

\* A task changes no list, no total and no weight.
LEMMA TasksVirtual ==
  ASSUME KInv, BInv, NEW t \in Tasks, TaskStep(t)
  PROVE  UNCHANGED <<policy, servers, pre_generated_vec, total_weight>> /\ SameWeights
<1>0. ASSUME Steady PROVE SameWeights
  BY <1>0 DEF Steady, SameWeights
<1>1. ASSUME UNCHANGED endpoint PROVE SameWeights
  BY <1>1 DEF SameWeights
<1>2. ASSUME NEW o \in Live, NEW n \in Int, endpoint' = [endpoint EXCEPT ![o].ref = n] PROVE SameWeights
  BY <1>2, RefFacts DEF SameWeights, KInv
<1>3. CASE CheckBreaker(t)
  <2>1. PICK r \in Policies : r = sg[t]
    BY <1>3 DEF CheckBreaker, KInv, TaskTypes
  <2>2. PICK k \in 0..Len(breaker_list[r]) : k = ExpiredPrefix(r)
    BY PrefixIn
  <2>3. CheckBreakerLocked(r, k) => SameWeights
    BY <1>0, LockedFacts
  <2> QED
    BY <1>1, <1>3, <2>1, <2>2, <2>3 DEF CheckBreaker, Unavailable, lists
<1>4. CASE TryClearBreaker(t)
  <2>1. PICK r \in Policies : r = sg[t]
    BY <1>4 DEF TryClearBreaker, Goto, KInv, TaskTypes
  <2>2. Len(breaker_list[r]) \in Nat
    BY LenProperties DEF KInv, KeepTypes
  <2>3. PICK k \in 0..Len(breaker_list[r]) : CheckBreakerLocked(r, k)
    <3>1. 0 \in 0..Len(breaker_list[r]) /\ Len(breaker_list[r]) \in 0..Len(breaker_list[r])
      BY <2>2
    <3> QED
      BY <1>4, <2>1, <3>1 DEF TryClearBreaker
  <2>4. SameWeights
    BY <1>0, <2>3, LockedFacts
  <2> QED
    BY <1>4, <2>4 DEF TryClearBreaker, lists
<1>5. CASE Chooses(t)
  <2>1. ASSUME NEW o \in Range(servers[sg[t]]), Select(t, o) PROVE SameWeights
    <3>1. sg[t] \in Policies
      BY <1>5 DEF Chooses, KInv, TaskTypes, Selecting
    <3>2. o \in Live
      BY <3>1, ServerFacts DEF LiveIn
    <3>3. PICK n \in Int : n = endpoint[o].ref + 1
      BY <3>2, LiveFacts DEF KInv
    <3> QED
      BY <1>2, <2>1, <3>2, <3>3 DEF Select
  <2> QED
    BY <1>1, <1>5, <2>1 DEF Chooses, lists, counts
<1>6. CASE Success(t) \/ RecoverServer(t)
  <2>1. tpc[t] \in Asking
    BY <1>6 DEF Success, RecoverServer, Goto, Asking
  <2>2. PICK o \in Live : o = Last(history[t])
    BY <2>1, Asked
  <2>3. endpoint' = [endpoint EXCEPT ![o].fail_count = 0]
    BY <1>6, <2>2 DEF Success, RecoverServer
  <2>4. SameWeights
    BY <1>0, <2>3, SteadyFails DEF KInv
  <2> QED
    BY <1>6, <2>4 DEF Success, RecoverServer, lists, counts
<1>7. CASE SuccessCheck(t)
  BY <1>1, <1>7 DEF SuccessCheck, lists, counts
<1>8. CASE Failed(t)
  <2>1. tpc[t] \in Asking /\ sg[t] \in Policies
    BY <1>8 DEF Failed, Asking, KInv, TaskTypes
  <2>2. PICK o \in Live : o = Last(history[t])
    BY <2>1, Asked
  <2>3. PICK n \in Nat : n = Fails(o) + 1
    BY LiveFacts DEF Fails, KInv
  <2>4. FuseServerToBreaker(sg[t], o, n) => SameWeights
    BY <1>0, <2>1, FuseFacts
  <2>5. endpoint' = [endpoint EXCEPT ![o].fail_count = n] => SameWeights
    BY <1>0, SteadyFails DEF KInv
  <2> QED
    BY <1>8, <2>2, <2>3, <2>4, <2>5 DEF Failed, lists
<1>9. CASE Release(t)
  <2>1. CASE history[t] # <<>> /\ endpoint' = [endpoint EXCEPT ![Head(history[t])].ref = @ - 1]
    <3>1. PICK o \in Live : o = Head(history[t])
      BY <2>1, HeadLive
    <3>2. PICK n \in Int : n = endpoint[o].ref - 1
      BY LiveFacts DEF KInv
    <3>3. SameWeights
      BY <1>2, <2>1, <3>1, <3>2
    <3> QED
      BY <1>9, <3>3 DEF Release, lists, counts
  <2> QED
    BY <1>1, <1>9, <2>1 DEF Release, lists, counts
<1>10. CASE DeleteServer(t)
  <2>1. tpc[t] = "Delete"
    BY <1>10 DEF DeleteServer, Goto
  <2>2. history[t] # <<>>
    BY <2>1 DEF KInv, Deleting
  <2>3. PICK o \in Live : o = Head(history[t])
    BY <2>2, HeadLive
  <2>4. endpoint' = [endpoint EXCEPT ![o].state = "deleted"]
    BY <1>10, <2>3 DEF DeleteServer
  <2>5. o \in Endpoints /\ endpoint[o] \in Objects
    BY LiveFacts DEF KInv
  <2>6. ASSUME NEW q \in Live PROVE endpoint'[q].weight = endpoint[q].weight
    <3>1. q \in Endpoints
      BY DEF Live
    <3> QED
      BY <2>4, <2>5, <3>1 DEF KInv, KeepTypes, Objects
  <2> QED
    BY <1>10, <2>6 DEF DeleteServer, SameWeights, lists
<1> QED
  BY <1>3, <1>4, <1>5, <1>6, <1>7, <1>8, <1>9, <1>10, WeightedChooses, HashChooses, FindChooses, AnotherChooses DEF TaskStep

\* One step.
LEMMA VirtualStep ==
  ASSUME UInv, UInv', VInv, [Next]_vars PROVE VInv'
<1> USE DEF UInv
<1>0. CASE UNCHANGED <<policy, servers, pre_generated_vec, total_weight>> /\ SameWeights
  BY <1>0, VirtualFrame DEF SameWeights
<1>1. CASE UNCHANGED <<policy, servers, pre_generated_vec, total_weight, endpoint>>
  BY <1>0, <1>1 DEF SameWeights
<1>2. CASE UNCHANGED ups \/ Tick
  BY <1>1, <1>2 DEF Tick, ups, lists, counts
<1>3. CASE ServersAdd
  BY <1>3, AddVirtual DEF ServersAdd, InUse
<1>4. CASE ServersRemove
  BY <1>4, RemoveVirtual DEF ServersRemove, InUse
<1>5. CASE UpstreamNew
  <2>1. PICK n, kind, try, who : CreateUpstream(n, kind, try, who)
    BY <1>5 DEF UpstreamNew
  <2>2. PICK p \in NewPolicies : policy' = [policy EXCEPT ![p] = [kind |-> kind, try_another |-> try]]
    BY <2>1, FirstNew DEF CreateUpstream
  <2>3. UNCHANGED <<servers, pre_generated_vec, total_weight, endpoint>>
    BY <2>1 DEF CreateUpstream, counts
  <2>4. p \in Policies /\ servers[p] = <<>>
    BY DEF KInv, VirtualSound, NewPolicies
  <2>5. \A r \in Policies : servers[r] # <<>> => policy'[r].kind = policy[r].kind
    BY <2>2, <2>4 DEF NInv, NameTypes
  <2> QED
    BY <2>3, <2>5, VirtualFrame
<1>6. ASSUME NEW t \in Tasks, TaskStep(t) PROVE VInv'
  BY <1>0, <1>6, TasksVirtual
<1>7. ASSUME NEW t, NEW p, Route(t, p) PROVE VInv'
  BY <1>1, <1>7 DEF Route, lists, counts
<1> QED
  BY <1>2, <1>3, <1>4, <1>5, <1>6, <1>7, Layer DEF TaskMove

\* At first no policy has a server.
LEMMA VirtualInit ==
  ASSUME Init PROVE VInv
<1>1. \A p \in Policies : servers[p] = <<>>
  BY DEF Init, UpsInit
<1> QED
  BY <1>1 DEF VInv, Distinct

(***************************************************************************)
(* In a cycle of the virtual nodes each server of a vnswrr policy has its  *)
(* turn exactly as often as its weight says, for any number of servers and *)
(* any weights and after any adding and removing (UPSVNSWRRPolicy's init,  *)
(* init_virtual_nodes, add_server_locked and remove_server_locked).        *)
(***************************************************************************)
THEOREM TurnsAreFair ==
  Spec => []VirtualNodesFair
<1>1. Init => VInv
  BY VirtualInit
<1>2. UInv /\ UInv' /\ VInv /\ [Next]_vars => VInv'
  BY VirtualStep
<1>3. UInv /\ VInv => VirtualNodesFair
  BY VirtualGives DEF UInv
<1> QED
  BY <1>1, <1>2, <1>3, UpstreamInvariant, PTL DEF Spec
=============================================================================
