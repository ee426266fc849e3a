--------------------------- MODULE DdpDataProofs ---------------------------
(***************************************************************************)
(* Facts about the operators of DdpSync: sorting and filling buckets,      *)
(* picking names out of a sequence, flattening and cutting out.  Before    *)
(* them, induction over the naturals, stated of sets, and what it gives:   *)
(* that a function defined by recursion exists, and that a finite set has  *)
(* a sequence in any strict order of it.                                   *)
(***************************************************************************)
EXTENDS DdpSync, FiniteSetTheorems, TLAPS

-----------------------------------------------------------------------------
(* Induction and recursion.                                                 *)

\* A set of naturals that is not empty has a least element.
LEMMA LeastOf ==
    ASSUME NEW T, T \subseteq Nat, T # {}
    PROVE  \E x \in T : \A y \in T : ~(y < x)
<1> DEFINE F == {1 .. n : n \in T}
<1>1. IsWellFoundedOn(StrictSubsetOrdering(Nat), FiniteSubsetsOf(Nat))
  BY FS_StrictSubsetOrderingWellFounded
<1>2. F \subseteq FiniteSubsetsOf(Nat) /\ F # {}
  <2>1. \A n \in T : IsFiniteSet(1 .. n) /\ 1 .. n \subseteq Nat
    BY FS_Interval
  <2>2. \A n \in T : 1 .. n \in FiniteSubsetsOf(Nat)
    BY <2>1 DEF FiniteSubsetsOf
  <2> QED BY <2>2
<1>3. PICK A \in F : \A B \in F : ~(<<B, A>> \in StrictSubsetOrdering(Nat))
  <2> HIDE DEF F
  <2> QED BY <1>1, <1>2, WFMin
<1>4. PICK x \in T : A = 1 .. x
  OBVIOUS
<1>5. \A y \in T : y < x => <<1 .. y, 1 .. x>> \in StrictSubsetOrdering(Nat)
  BY DEF StrictSubsetOrdering
<1> QED BY <1>3, <1>4, <1>5

\* A set that holds 0 and the successor of each of its naturals holds them all.
LEMMA InductionIn ==
    ASSUME NEW S, 0 \in S, \A n \in Nat : n \in S => n + 1 \in S
    PROVE  Nat \subseteq S
<1> DEFINE T == Nat \ S
<1>1. SUFFICES ASSUME T # {} PROVE FALSE
  OBVIOUS
<1>2. PICK x \in T : \A y \in T : ~(y < x)
  BY <1>1, LeastOf
<1>3. x \in Nat /\ x # 0 /\ x - 1 \in Nat /\ x - 1 < x
  OBVIOUS
<1>4. x - 1 \in S
  BY <1>2, <1>3
<1>5. (x - 1) + 1 \in S
  BY <1>3, <1>4
<1> QED BY <1>3, <1>5

\* The same up to a bound.
LEMMA InductionUpTo ==
    ASSUME NEW N \in Nat, NEW S, 0 \in S, \A n \in 1 .. N : n - 1 \in S => n \in S
    PROVE  0 .. N \subseteq S
<1> DEFINE T == {n \in Nat : n <= N => n \in S}
<1>1. 0 \in T
  OBVIOUS
<1>2. \A n \in Nat : n \in T => n + 1 \in T
  <2> SUFFICES ASSUME NEW n \in Nat, n \in T, n + 1 <= N PROVE n + 1 \in S
    OBVIOUS
  <2>1. n \in S /\ n + 1 \in 1 .. N /\ (n + 1) - 1 = n
    OBVIOUS
  <2> QED BY <2>1
<1> HIDE DEF T
<1>3. Nat \subseteq T
  BY <1>1, <1>2, InductionIn
<1> QED BY <1>3 DEF T

\* With all smaller numbers in the hypothesis.
LEMMA InductionBelow ==
    ASSUME NEW N \in Nat, NEW S, \A n \in 1 .. N : 1 .. n - 1 \subseteq S => n \in S
    PROVE  1 .. N \subseteq S
<1> DEFINE T == {n \in Nat : 1 .. n \subseteq S}
<1>1. 0 \in T
  OBVIOUS
<1>2. \A n \in 1 .. N : n - 1 \in T => n \in T
  <2> SUFFICES ASSUME NEW n \in 1 .. N, n - 1 \in T PROVE 1 .. n \subseteq S
    OBVIOUS
  <2>1. 1 .. n - 1 \subseteq S
    OBVIOUS
  <2>2. n \in S
    BY <2>1
  <2> QED BY <2>1, <2>2
<1> HIDE DEF T
<1>3. 0 .. N \subseteq T
  BY <1>1, <1>2, InductionUpTo
<1>4. N \in T
  BY <1>3
<1> QED BY <1>4 DEF T

\* The functions up to N that start with x0 and go on by F.
Recursions(N, X, x0, F) ==
    {g \in [0 .. N -> X] : g[0] = x0 /\ \A n \in 1 .. N : g[n] = F[<<n, g[n - 1]>>]}

\* There is one.
LEMMA RecursionExists ==
    ASSUME NEW N \in Nat, NEW X, NEW x0 \in X, NEW F \in [(1 .. N) \X X -> X]
    PROVE  \E g : g \in Recursions(N, X, x0, F)
<1> DEFINE Good(m, g) == g[0] = x0 /\ \A n \in 1 .. m : g[n] = F[<<n, g[n - 1]>>]
           S == {m \in Nat : \E g \in [0 .. m -> X] : Good(m, g)}
<1>1. 0 \in S
  <2>1. [n \in 0 .. 0 |-> x0] \in [0 .. 0 -> X] /\ Good(0, [n \in 0 .. 0 |-> x0])
    OBVIOUS
  <2> QED BY <2>1
<1>2. \A m \in 1 .. N : m - 1 \in S => m \in S
  <2> SUFFICES ASSUME NEW m \in 1 .. N, m - 1 \in S PROVE m \in S
    OBVIOUS
  <2>1. PICK g \in [0 .. m - 1 -> X] : Good(m - 1, g)
    OBVIOUS
  <2> DEFINE h == [n \in 0 .. m |-> IF n = m THEN F[<<m, g[m - 1]>>] ELSE g[n]]
  <2>2. m \in Nat /\ m - 1 \in 0 .. m - 1 /\ g[m - 1] \in X
    OBVIOUS
  <2>3. F[<<m, g[m - 1]>>] \in X
    BY <2>2
  <2>4. h \in [0 .. m -> X]
    BY <2>3
  <2>5. h[0] = x0
    BY <2>1
  <2>6. ASSUME NEW n \in 1 .. m PROVE h[n] = F[<<n, h[n - 1]>>]
    <3>1. h[n - 1] = g[n - 1]
      OBVIOUS
    <3>2. CASE n = m
      BY <3>1, <3>2
    <3>3. CASE n # m
      <4>1. n \in 1 .. m - 1 /\ h[n] = g[n]
        BY <3>3
      <4> QED BY <2>1, <3>1, <4>1
    <3> QED BY <3>2, <3>3
  <2> HIDE DEF h
  <2>7. Good(m, h)
    BY <2>5, <2>6
  <2> QED BY <2>2, <2>4, <2>7
<1> HIDE DEF S
<1>3. N \in S
  BY <1>1, <1>2, InductionUpTo
<1>4. \E g \in [0 .. N -> X] : Good(N, g)
  BY <1>3 DEF S
<1> QED BY <1>4 DEF Recursions

\* A function that never repeats a value takes all of as many values.
LEMMA FillsUp ==
    ASSUME NEW S, NEW T, IsFiniteSet(T), Cardinality(S) = Cardinality(T), NEW f \in [S -> T],
           \A x, y \in S : f[x] = f[y] => x = y
    PROVE  \A z \in T : \E x \in S : f[x] = z
<1>1. f \in Injection(S, T)
  BY DEF Injection, IsInjective
<1>2. f \in Surjection(S, T)
  BY <1>1, FS_Injection
<1> QED BY <1>2 DEF Surjection

\* A finite set with a strict total order can be listed in that order.
LEMMA SortExists ==
    ASSUME NEW P, IsFiniteSet(P), NEW R,
           \A p \in P : <<p, p>> \notin R,
           \A p, q, s \in P : <<p, q>> \in R /\ <<q, s>> \in R => <<p, s>> \in R,
           \A p, q \in P : p # q => <<p, q>> \in R \/ <<q, p>> \in R
    PROVE  \E o \in [1 .. Cardinality(P) -> P] :
              /\ \A i, j \in 1 .. Cardinality(P) : o[i] = o[j] => i = j
              /\ \A p \in P : \E i \in 1 .. Cardinality(P) : o[i] = p
              /\ \A i, j \in 1 .. Cardinality(P) : i < j => <<o[i], o[j]>> \in R
<1> DEFINE N == Cardinality(P)
           Before(p) == {q \in P : <<q, p>> \in R}
           f == [p \in P |-> Cardinality(Before(p)) + 1]
<1>1. N \in Nat
  BY FS_CardinalityType
<1>2. \A p \in P : /\ IsFiniteSet(Before(p)) /\ Cardinality(Before(p)) \in Nat
                   /\ Cardinality(Before(p)) + 1 <= N
  <2> SUFFICES ASSUME NEW p \in P
               PROVE  /\ IsFiniteSet(Before(p)) /\ Cardinality(Before(p)) \in Nat
                      /\ Cardinality(Before(p)) + 1 <= N
    OBVIOUS
  <2>1. Before(p) \in SUBSET P /\ Before(p) # P
    OBVIOUS
  <2> HIDE DEF Before
  <2>2. /\ IsFiniteSet(Before(p)) /\ Cardinality(Before(p)) <= N
        /\ N = Cardinality(Before(p)) => P = Before(p)
    BY <2>1, FS_Subset
  <2>3. Cardinality(Before(p)) \in Nat
    BY <2>2, FS_CardinalityType
  <2> HIDE DEF N
  <2>4. N # Cardinality(Before(p))
    BY <2>1, <2>2
  <2> QED BY <1>1, <2>2, <2>3, <2>4
<1>3. \A p, q \in P : <<q, p>> \in R => Cardinality(Before(q)) < Cardinality(Before(p))
  <2> SUFFICES ASSUME NEW p \in P, NEW q \in P, <<q, p>> \in R
               PROVE  Cardinality(Before(q)) < Cardinality(Before(p))
    OBVIOUS
  <2>1. Before(q) \in SUBSET Before(p) /\ Before(q) # Before(p)
    <3>1. q \in Before(p) /\ q \notin Before(q)
      OBVIOUS
    <3> QED BY <3>1
  <2> HIDE DEF Before
  <2>2. /\ Cardinality(Before(q)) <= Cardinality(Before(p))
        /\ Cardinality(Before(p)) # Cardinality(Before(q))
    BY <1>2, <2>1, FS_Subset
  <2> QED BY <1>2, <2>2
<1> HIDE DEF Before, N
<1>4. f \in [P -> 1 .. N]
  BY <1>1, <1>2
<1>5. \A p, q \in P : <<q, p>> \in R => f[q] < f[p]
  BY <1>2, <1>3
<1> HIDE DEF f
<1>6. \A p, q \in P : f[p] = f[q] => p = q
  <2> SUFFICES ASSUME NEW p \in P, NEW q \in P, f[p] = f[q], p # q PROVE FALSE
    OBVIOUS
  <2>1. f[p] \in Int /\ f[q] \in Int
    BY <1>1, <1>4
  <2>2. CASE <<p, q>> \in R
    BY <1>5, <2>1, <2>2
  <2>3. CASE <<q, p>> \in R
    BY <1>5, <2>1, <2>3
  <2> QED BY <2>2, <2>3
<1>7. IsFiniteSet(1 .. N) /\ Cardinality(1 .. N) = N
  BY <1>1, FS_Interval
<1>8. \A i \in 1 .. N : \E p \in P : f[p] = i
  <2>1. Cardinality(P) = Cardinality(1 .. N)
    BY <1>7 DEF N
  <2> DEFINE T == 1 .. N
  <2>2. IsFiniteSet(T) /\ Cardinality(P) = Cardinality(T) /\ f \in [P -> T]
    BY <1>4, <1>7, <2>1
  <2> HIDE DEF T
  <2>3. \A i \in T : \E p \in P : f[p] = i
    BY <1>6, <2>2, FillsUp
  <2> QED BY <2>3 DEF T
<1> DEFINE o == [i \in 1 .. N |-> CHOOSE p \in P : f[p] = i]
<1>9. o \in [1 .. N -> P] /\ \A i \in 1 .. N : f[o[i]] = i
  BY <1>8
<1> HIDE DEF o
<1>10. \A p \in P : \E i \in 1 .. N : o[i] = p
  <2> SUFFICES ASSUME NEW p \in P PROVE o[f[p]] = p
    BY <1>4
  <2> QED BY <1>4, <1>6, <1>9
<1>11. \A i, j \in 1 .. N : o[i] = o[j] => i = j
  BY <1>9
<1>12. ASSUME NEW i \in 1 .. N, NEW j \in 1 .. N, i < j PROVE <<o[i], o[j]>> \in R
  <2>1. o[i] # o[j] /\ o[i] \in P /\ o[j] \in P /\ f[o[i]] = i /\ f[o[j]] = j
    BY <1>9, <1>12
  <2>2. ~(<<o[j], o[i]>> \in R)
    BY <1>5, <1>12, <2>1
  <2> QED BY <2>1, <2>2
<1>13. \E w \in [1 .. N -> P] : /\ \A i, j \in 1 .. N : w[i] = w[j] => i = j
                                /\ \A p \in P : \E i \in 1 .. N : w[i] = p
                                /\ \A i, j \in 1 .. N : i < j => <<w[i], w[j]>> \in R
  BY <1>9, <1>10, <1>11, <1>12
<1> QED BY <1>13 DEF N
-----------------------------------------------------------------------------
(* Sorting.                                                                 *)

NP == Cardinality(Params)

LEMMA ParamsCount == NP \in Nat \ {0}
BY DdpAssumption, FS_CardinalityType, FS_EmptySet DEF NP

LEMMA OrderFacts ==
    ASSUME NEW o \in Orders
    PROVE  /\ o \in Seq(Params) /\ Len(o) = NP /\ DOMAIN o = 1 .. NP
           /\ \A i, j \in 1 .. NP : o[i] = o[j] => i = j
           /\ \A p \in Params : \E i \in 1 .. NP : o[i] = p
<1>1. /\ o \in [1 .. NP -> Params] /\ DOMAIN o = 1 .. NP
      /\ \A i, j \in 1 .. NP : o[i] = o[j] => i = j
      /\ \A p \in Params : \E i \in 1 .. NP : o[i] = p
  BY DEF Orders, NP
<1>2. o \in Seq(Params) /\ Len(o) = NP
  BY <1>1, ParamsCount
<1> QED BY <1>1, <1>2

\* The order in which a rank fills its buckets exists.
LEMMA SortedOrder ==
    ASSUME NEW s \in Setup, NEW r \in Ranks
    PROVE  SortedBySize(s, r) \in Orders
<1> DEFINE h == s.hash[r]
           R == {z \in Params \X Params :
                    \/ s.size[z[1]] > s.size[z[2]]
                    \/ /\ s.size[z[1]] = s.size[z[2]]
                       /\ \E k, l \in 1 .. NP : k < l /\ h[k] = z[1] /\ h[l] = z[2]}
<1>1. h \in Orders /\ s.size \in [Params -> Nat \ {0}]
  BY DEF Setup
<1>2. /\ \A i, j \in 1 .. NP : h[i] = h[j] => i = j
      /\ \A p \in Params : \E i \in 1 .. NP : h[i] = p
      /\ \A p \in Params : s.size[p] \in Nat
      /\ NP \in Nat
  BY <1>1, OrderFacts, ParamsCount
<1> HIDE DEF h
<1>3. \A p \in Params : <<p, p>> \notin R
  BY <1>2
<1>4. \A p, q, u \in Params : <<p, q>> \in R /\ <<q, u>> \in R => <<p, u>> \in R
  <2> SUFFICES ASSUME NEW p \in Params, NEW q \in Params, NEW u \in Params,
                      <<p, q>> \in R, <<q, u>> \in R
               PROVE  <<p, u>> \in R
    OBVIOUS
  <2>1. CASE s.size[p] = s.size[q] /\ s.size[q] = s.size[u]
    <3>1. PICK k1, l1 \in 1 .. NP : k1 < l1 /\ h[k1] = p /\ h[l1] = q
      BY <1>2, <2>1
    <3>2. PICK k2, l2 \in 1 .. NP : k2 < l2 /\ h[k2] = q /\ h[l2] = u
      BY <1>2, <2>1
    <3>3. l1 = k2
      BY <1>2, <3>1, <3>2
    <3>4. k1 < l2
      BY <3>1, <3>2, <3>3
    <3> QED BY <2>1, <3>1, <3>2, <3>4
  <2>2. CASE ~(s.size[p] = s.size[q] /\ s.size[q] = s.size[u])
    BY <1>2, <2>2
  <2> QED BY <2>1, <2>2
<1>5. \A p, q \in Params : p # q => <<p, q>> \in R \/ <<q, p>> \in R
  <2> SUFFICES ASSUME NEW p \in Params, NEW q \in Params, p # q, s.size[p] = s.size[q]
               PROVE  <<p, q>> \in R \/ <<q, p>> \in R
    BY <1>2
  <2>1. PICK k \in 1 .. NP : h[k] = p
    BY <1>2
  <2>2. PICK l \in 1 .. NP : h[l] = q
    BY <1>2
  <2>3. k < l \/ l < k
    BY <2>1, <2>2
  <2> QED BY <2>1, <2>2, <2>3
<1>6. \A p, q \in Params : <<p, q>> \in R =>
          \/ s.size[p] > s.size[q]
          \/ /\ s.size[p] = s.size[q]
             /\ \E k, l \in 1 .. NP : k < l /\ h[k] = p /\ h[l] = q
  OBVIOUS
<1> HIDE DEF R
<1>7. PICK o \in [1 .. NP -> Params] :
          /\ \A i, j \in 1 .. NP : o[i] = o[j] => i = j
          /\ \A p \in Params : \E i \in 1 .. NP : o[i] = p
          /\ \A i, j \in 1 .. NP : i < j => <<o[i], o[j]>> \in R
  <2>1. IsFiniteSet(Params)
    BY DdpAssumption
  <2> QED BY <1>3, <1>4, <1>5, <2>1, SortExists DEF NP
<1>8. o \in Orders /\ DOMAIN o = 1 .. NP
  BY <1>7 DEF Orders, NP
<1>9. \A i, j \in DOMAIN o : i < j =>
          \/ s.size[o[i]] > s.size[o[j]]
          \/ /\ s.size[o[i]] = s.size[o[j]]
             /\ \E k, l \in 1 .. NP : k < l /\ h[k] = o[i] /\ h[l] = o[j]
  <2> SUFFICES ASSUME NEW i \in 1 .. NP, NEW j \in 1 .. NP, i < j
               PROVE  \/ s.size[o[i]] > s.size[o[j]]
                      \/ /\ s.size[o[i]] = s.size[o[j]]
                         /\ \E k, l \in 1 .. NP : k < l /\ h[k] = o[i] /\ h[l] = o[j]
    BY <1>8
  <2>1. o[i] \in Params /\ o[j] \in Params /\ <<o[i], o[j]>> \in R
    BY <1>7
  <2> QED BY <1>6, <2>1
<1>10. \A i, j \in DOMAIN o : i < j =>
          \/ s.size[o[i]] > s.size[o[j]]
          \/ /\ s.size[o[i]] = s.size[o[j]]
             /\ \E k, l \in DOMAIN o : k < l /\ s.hash[r][k] = o[i] /\ s.hash[r][l] = o[j]
  BY <1>8, <1>9 DEF h
<1> QED BY <1>8, <1>10 DEF SortedBySize

\* With no two parameters of one size it is the same for all ranks.
LEMMA SortedAlike ==
    ASSUME NEW s \in Setup, NEW q \in Ranks, NEW r \in Ranks,
           \A x, y \in Params : s.size[x] = s.size[y] => x = y
    PROVE  SortedBySize(s, q) = SortedBySize(s, r)
<1> DEFINE S(o, u) == \A i, j \in DOMAIN o : i < j =>
                         \/ s.size[o[i]] > s.size[o[j]]
                         \/ /\ s.size[o[i]] = s.size[o[j]]
                            /\ \E k, l \in DOMAIN o : k < l /\ s.hash[u][k] = o[i]
                                                            /\ s.hash[u][l] = o[j]
<1>1. \A o \in Orders : S(o, q) <=> S(o, r)
  <2> SUFFICES ASSUME NEW o \in Orders
               PROVE  S(o, q) <=> S(o, r)
    OBVIOUS
  <2>1. \A i, j \in DOMAIN o : i < j => s.size[o[i]] # s.size[o[j]]
    <3>1. /\ DOMAIN o = 1 .. NP /\ \A i, j \in 1 .. NP : o[i] = o[j] => i = j
          /\ \A i \in 1 .. NP : o[i] \in Params
      BY OrderFacts
    <3> QED BY <3>1
  <2> QED BY <2>1
<1> HIDE DEF S
<1>2. (CHOOSE o \in Orders : S(o, q)) = (CHOOSE o \in Orders : S(o, r))
  BY <1>1
<1> QED BY <1>2 DEF SortedBySize, S

\* What the buckets of a model are: every parameter is in one of them, once.
Partition(B) ==
    /\ B \in Seq(Seq(Params)) /\ Len(B) \in 1 .. NP
    /\ \A b \in DOMAIN B : B[b] # <<>>
    /\ \A p \in Params : \E b \in DOMAIN B : \E i \in DOMAIN B[b] : B[b][i] = p
    /\ \A b, c \in DOMAIN B : \A i \in DOMAIN B[b], j \in DOMAIN B[c] :
          B[b][i] = B[c][j] => b = c /\ i = j

\* The same of the first n parameters of an order.
FilledTo(o, n, B) ==
    /\ B \in Seq(Seq(Params)) /\ Len(B) <= n /\ (n > 0 => B # <<>>)
    /\ \A b \in DOMAIN B : B[b] # <<>>
    /\ \A k \in 1 .. n : \E b \in DOMAIN B : \E i \in DOMAIN B[b] : B[b][i] = o[k]
    /\ \A b \in DOMAIN B : \A i \in DOMAIN B[b] : \E k \in 1 .. n : B[b][i] = o[k]
    /\ \A b, c \in DOMAIN B : \A i \in DOMAIN B[b], j \in DOMAIN B[c] :
          B[b][i] = B[c][j] => b = c /\ i = j

LEMMA AddTyped ==
    ASSUME NEW s, NEW B \in Seq(Seq(Params)), NEW p \in Params
    PROVE  AddToBuckets(s, B, p) \in Seq(Seq(Params))
<1>1. CASE B = <<>> \/ BucketSize(s, Last(B)) + s.size[p] > s.cap
  <2>1. <<p>> \in Seq(Params)
    OBVIOUS
  <2> DEFINE SP == Seq(Params)
  <2> HIDE DEF SP
  <2>2. Append(B, <<p>>) \in Seq(SP)
    BY <2>1 DEF SP
  <2> QED BY <1>1, <2>2 DEF AddToBuckets, SP
<1>2. CASE ~(B = <<>> \/ BucketSize(s, Last(B)) + s.size[p] > s.cap)
  <2>1. Len(B) \in DOMAIN B /\ B[Len(B)] \in Seq(Params)
    BY <1>2
  <2>2. Append(B[Len(B)], p) \in Seq(Params)
    BY <2>1
  <2> DEFINE SP == Seq(Params)
  <2> HIDE DEF SP
  <2>3. [B EXCEPT ![Len(B)] = Append(B[Len(B)], p)] \in Seq(SP)
    BY <2>1, <2>2 DEF SP
  <2> QED BY <1>2, <2>3 DEF AddToBuckets, SP
<1> QED BY <1>1, <1>2

\* The next parameter, whether it opens a bucket or not.
LEMMA AddFills ==
    ASSUME NEW s, NEW o \in Orders, NEW n \in 1 .. NP, NEW B, FilledTo(o, n - 1, B)
    PROVE  FilledTo(o, n, AddToBuckets(s, B, o[n]))
<1> DEFINE p == o[n]
           A == AddToBuckets(s, B, p)
<1>1. /\ p \in Params /\ NP \in Nat
      /\ \A k \in 1 .. n - 1 : o[k] # p
  BY OrderFacts, ParamsCount
<1>2. B \in Seq(Seq(Params)) /\ Len(B) \in Nat /\ DOMAIN B = 1 .. Len(B)
  BY DEF FilledTo
<1>3. \A b \in DOMAIN B : /\ B[b] \in Seq(Params) /\ Len(B[b]) \in Nat
                          /\ DOMAIN B[b] = 1 .. Len(B[b])
  BY <1>2
<1>4. A \in Seq(Seq(Params))
  BY <1>1, <1>2, AddTyped
<1>F. /\ \A b \in DOMAIN B : B[b] # <<>>
      /\ \A k \in 1 .. n - 1 : \E b \in DOMAIN B : \E i \in DOMAIN B[b] : B[b][i] = o[k]
      /\ \A b \in DOMAIN B : \A i \in DOMAIN B[b] : \E k \in 1 .. n - 1 : B[b][i] = o[k]
      /\ \A b, c \in DOMAIN B : \A i \in DOMAIN B[b], j \in DOMAIN B[c] :
            B[b][i] = B[c][j] => b = c /\ i = j
  BY DEF FilledTo
<1>5. \A b \in DOMAIN B : \A i \in DOMAIN B[b] : B[b][i] # p
  <2> SUFFICES ASSUME NEW b \in DOMAIN B, NEW i \in DOMAIN B[b] PROVE B[b][i] # p
    OBVIOUS
  <2>1. PICK k \in 1 .. n - 1 : B[b][i] = o[k]
    BY <1>F
  <2> QED BY <1>1, <2>1
<1>6. CASE B = <<>> \/ BucketSize(s, Last(B)) + s.size[p] > s.cap
  <2>1. A = Append(B, <<p>>)
    BY <1>6 DEF AddToBuckets
  <2>2. /\ DOMAIN A = 1 .. Len(B) + 1 /\ Len(A) = Len(B) + 1
        /\ \A b \in 1 .. Len(B) : A[b] = B[b]
        /\ A[Len(B) + 1] = <<p>>
    BY <1>2, <2>1
  <2> HIDE DEF A
  <2>3. DOMAIN <<p>> = {1} /\ <<p>>[1] = p /\ <<p>> # <<>>
    OBVIOUS
  <2>4. \A b \in DOMAIN A : A[b] # <<>>
    <3> SUFFICES ASSUME NEW b \in DOMAIN A PROVE A[b] # <<>>
      OBVIOUS
    <3>1. CASE b = Len(B) + 1
      BY <2>2, <2>3, <3>1
    <3>2. CASE b # Len(B) + 1
      <4>1. b \in DOMAIN B /\ A[b] = B[b]
        BY <1>2, <2>2, <3>2
      <4> QED BY <1>F, <4>1
    <3> QED BY <3>1, <3>2
  <2>5. ASSUME NEW k \in 1 .. n
        PROVE  \E b \in DOMAIN A : \E i \in DOMAIN A[b] : A[b][i] = o[k]
    <3>1. CASE k = n
      BY <1>2, <2>2, <2>3, <3>1
    <3>2. CASE k # n
      <4>1. k \in 1 .. n - 1
        BY <3>2
      <4>2. PICK b \in DOMAIN B : \E i \in DOMAIN B[b] : B[b][i] = o[k]
        BY <1>F, <4>1
      <4> QED BY <1>2, <2>2, <4>2
    <3> QED BY <3>1, <3>2
  <2>6. ASSUME NEW b \in DOMAIN A, NEW i \in DOMAIN A[b]
        PROVE  \E k \in 1 .. n : A[b][i] = o[k]
    <3>1. CASE b = Len(B) + 1
      BY <2>2, <2>3, <3>1
    <3>2. CASE b # Len(B) + 1
      <4>1. b \in DOMAIN B /\ A[b] = B[b]
        BY <1>2, <2>2, <3>2
      <4>2. PICK k \in 1 .. n - 1 : B[b][i] = o[k]
        BY <1>F, <4>1
      <4> QED BY <4>1, <4>2
    <3> QED BY <3>1, <3>2
  <2>7. ASSUME NEW b \in DOMAIN A, NEW c \in DOMAIN A, NEW i \in DOMAIN A[b],
               NEW j \in DOMAIN A[c], A[b][i] = A[c][j]
        PROVE  b = c /\ i = j
    <3>1. CASE b = Len(B) + 1 /\ c = Len(B) + 1
      BY <2>2, <2>3, <3>1
    <3>2. CASE b # Len(B) + 1 /\ c # Len(B) + 1
      <4>1. b \in DOMAIN B /\ A[b] = B[b] /\ c \in DOMAIN B /\ A[c] = B[c]
        BY <1>2, <2>2, <3>2
      <4> QED BY <1>F, <2>7, <4>1
    <3>3. CASE b = Len(B) + 1 /\ c # Len(B) + 1
      <4>1. c \in DOMAIN B /\ A[c] = B[c] /\ A[b][i] = p
        BY <1>2, <2>2, <2>3, <3>3
      <4> QED BY <1>5, <2>7, <4>1
    <3>4. CASE b # Len(B) + 1 /\ c = Len(B) + 1
      <4>1. b \in DOMAIN B /\ A[b] = B[b] /\ A[c][j] = p
        BY <1>2, <2>2, <2>3, <3>4
      <4> QED BY <1>5, <2>7, <4>1
    <3> QED BY <3>1, <3>2, <3>3, <3>4
  <2>8. A # <<>> /\ Len(A) <= n
    <3>1. Len(B) <= n - 1
      BY DEF FilledTo
    <3> QED BY <1>2, <2>2, <3>1
  <2> QED BY <1>4, <2>4, <2>5, <2>6, <2>7, <2>8 DEF FilledTo, A
<1>7. CASE ~(B = <<>> \/ BucketSize(s, Last(B)) + s.size[p] > s.cap)
  <2> DEFINE m == Len(B)
  <2>1. A = [B EXCEPT ![m] = Append(B[m], p)]
    BY <1>7 DEF AddToBuckets
  <2>2. m \in DOMAIN B
    BY <1>2, <1>7
  <2>3. /\ DOMAIN A = DOMAIN B /\ Len(A) = Len(B)
        /\ \A b \in DOMAIN B : b # m => A[b] = B[b]
        /\ A[m] = Append(B[m], p)
    BY <1>2, <2>1, <2>2
  <2> HIDE DEF A, m
  <2>4. /\ DOMAIN A[m] = 1 .. Len(B[m]) + 1 /\ A[m] # <<>>
        /\ \A i \in 1 .. Len(B[m]) : A[m][i] = B[m][i]
        /\ A[m][Len(B[m]) + 1] = p
        /\ Len(B[m]) \in Nat /\ DOMAIN B[m] = 1 .. Len(B[m])
    BY <1>1, <1>3, <2>2, <2>3
  <2>5. \A b \in DOMAIN A : A[b] # <<>>
    <3> SUFFICES ASSUME NEW b \in DOMAIN A PROVE A[b] # <<>>
      OBVIOUS
    <3>1. CASE b = m
      BY <2>4, <3>1
    <3>2. CASE b # m
      BY <1>F, <2>3, <3>2
    <3> QED BY <3>1, <3>2
  <2>6. \A b \in DOMAIN B : DOMAIN B[b] \subseteq DOMAIN A[b]
                            /\ \A i \in DOMAIN B[b] : A[b][i] = B[b][i]
    <3> SUFFICES ASSUME NEW b \in DOMAIN B
                 PROVE  DOMAIN B[b] \subseteq DOMAIN A[b]
                        /\ \A i \in DOMAIN B[b] : A[b][i] = B[b][i]
      OBVIOUS
    <3>1. CASE b = m
      BY <2>4, <3>1
    <3>2. CASE b # m
      BY <2>3, <3>2
    <3> QED BY <3>1, <3>2
  <2>7. \A b \in DOMAIN A : \A i \in DOMAIN A[b] :
            \/ i \in DOMAIN B[b] /\ A[b][i] = B[b][i]
            \/ b = m /\ i = Len(B[m]) + 1 /\ A[b][i] = p
    BY <2>3, <2>4
  <2>8. ASSUME NEW k \in 1 .. n
        PROVE  \E b \in DOMAIN A : \E i \in DOMAIN A[b] : A[b][i] = o[k]
    <3>1. CASE k = n
      <4>1. Len(B[m]) + 1 \in DOMAIN A[m]
        BY <2>4
      <4> QED BY <2>2, <2>3, <2>4, <3>1, <4>1
    <3>2. CASE k # n
      <4>1. k \in 1 .. n - 1
        BY <3>2
      <4>2. PICK b \in DOMAIN B : \E i \in DOMAIN B[b] : B[b][i] = o[k]
        BY <1>F, <4>1
      <4> QED BY <2>3, <2>6, <4>2
    <3> QED BY <3>1, <3>2
  <2>9. ASSUME NEW b \in DOMAIN A, NEW i \in DOMAIN A[b]
        PROVE  \E k \in 1 .. n : A[b][i] = o[k]
    <3>1. CASE A[b][i] = p
      BY <3>1
    <3>2. CASE i \in DOMAIN B[b] /\ A[b][i] = B[b][i]
      <4> b \in DOMAIN B
        BY <2>3
      <4>1. PICK k \in 1 .. n - 1 : B[b][i] = o[k]
        BY <1>F, <3>2
      <4> QED BY <3>2, <4>1
    <3> QED BY <2>7, <3>1, <3>2
  <2>10. ASSUME NEW b \in DOMAIN A, NEW c \in DOMAIN A, NEW i \in DOMAIN A[b],
                NEW j \in DOMAIN A[c], A[b][i] = A[c][j]
         PROVE  b = c /\ i = j
    <3>1. CASE A[b][i] = p
      <4>1. b = m /\ i = Len(B[m]) + 1
        BY <1>5, <2>3, <2>7, <3>1
      <4>2. A[c][j] = p
        BY <2>10, <3>1
      <4>3. c = m /\ j = Len(B[m]) + 1
        BY <1>5, <2>3, <2>7, <4>2
      <4> QED BY <4>1, <4>3
    <3>2. CASE A[b][i] # p
      <4>1. /\ i \in DOMAIN B[b] /\ A[b][i] = B[b][i]
            /\ j \in DOMAIN B[c] /\ A[c][j] = B[c][j]
        BY <2>7, <2>10, <3>2
      <4>2. b \in DOMAIN B /\ c \in DOMAIN B /\ B[b][i] = B[c][j]
        BY <2>3, <2>10, <4>1
      <4> QED BY <1>F, <4>1, <4>2
    <3> QED BY <3>1, <3>2
  <2>11. A # <<>> /\ Len(A) <= n
    <3>1. Len(B) <= n - 1
      BY DEF FilledTo
    <3> QED BY <1>2, <1>7, <2>3, <3>1
  <2> QED BY <1>4, <2>5, <2>8, <2>9, <2>10, <2>11 DEF FilledTo, A
<1> HIDE DEF A
<1> QED BY <1>6, <1>7 DEF A

\* Filling them one by one puts every parameter into one bucket.
LEMMA FilledIsPartition ==
    ASSUME NEW s, NEW o \in Orders
    PROVE  Partition(Filled(s, o))
<1> DEFINE X == Seq(Seq(Params))
           F == [z \in (1 .. NP) \X X |-> AddToBuckets(s, z[2], o[z[1]])]
           e == <<>>
           f == CHOOSE bs : bs = [n \in 0 .. Len(o) |->
                    IF n = 0 THEN <<>> ELSE AddToBuckets(s, bs[n - 1], o[n])]
<1>1. NP \in Nat /\ Len(o) = NP /\ \A n \in 1 .. NP : o[n] \in Params
  BY OrderFacts, ParamsCount
<1>2. e \in X
  OBVIOUS
<1> HIDE DEF X, e
<1>3. F \in [(1 .. NP) \X X -> X]
  BY <1>1, AddTyped DEF X
<1>4. PICK g \in [0 .. NP -> X] : g[0] = e /\ \A n \in 1 .. NP : g[n] = F[<<n, g[n - 1]>>]
  <2> HIDE DEF F, f
  <2>1. \E g : g \in Recursions(NP, X, e, F)
    BY <1>1, <1>2, <1>3, RecursionExists
  <2> QED BY <2>1 DEF Recursions
<1>5. \A n \in 1 .. NP : g[n] = AddToBuckets(s, g[n - 1], o[n])
  <2> SUFFICES ASSUME NEW n \in 1 .. NP PROVE g[n] = AddToBuckets(s, g[n - 1], o[n])
    OBVIOUS
  <2>1. g[n - 1] \in X
    BY <1>1
  <2>2. F[<<n, g[n - 1]>>] = AddToBuckets(s, g[n - 1], o[n])
    BY <2>1
  <2> QED BY <1>4, <2>2
<1>6. g = [n \in 0 .. NP |-> IF n = 0 THEN <<>> ELSE AddToBuckets(s, g[n - 1], o[n])]
  BY <1>1, <1>4, <1>5 DEF e
<1>7. f = [n \in 0 .. NP |-> IF n = 0 THEN <<>> ELSE AddToBuckets(s, f[n - 1], o[n])]
  BY <1>1, <1>6
<1>8. Filled(s, o) = f[NP]
  BY <1>1 DEF Filled
<1> HIDE DEF f
<1>9. f[0] = <<>> /\ \A n \in 1 .. NP : f[n] = AddToBuckets(s, f[n - 1], o[n])
  BY <1>1, <1>7
<1> DEFINE S == {n \in 0 .. NP : FilledTo(o, n, f[n])}
<1>10. 0 \in S
  <2>1. FilledTo(o, 0, <<>>)
    BY DEF FilledTo
  <2> QED BY <1>1, <1>9, <2>1
<1>11. \A n \in 1 .. NP : n - 1 \in S => n \in S
  BY <1>9, AddFills
<1> HIDE DEF S
<1>12. NP \in S
  BY <1>1, <1>10, <1>11, InductionUpTo
<1>13. FilledTo(o, NP, f[NP])
  BY <1>12 DEF S
<1> DEFINE B == f[NP]
<1>14. /\ B \in Seq(Seq(Params)) /\ Len(B) <= NP /\ (NP > 0 => B # <<>>)
       /\ \A b \in DOMAIN B : B[b] # <<>>
       /\ \A k \in 1 .. NP : \E b \in DOMAIN B : \E i \in DOMAIN B[b] : B[b][i] = o[k]
       /\ \A b, c \in DOMAIN B : \A i \in DOMAIN B[b], j \in DOMAIN B[c] :
             B[b][i] = B[c][j] => b = c /\ i = j
  BY <1>13 DEF FilledTo
<1> HIDE DEF B
<1>15. Len(B) \in 1 .. NP
  BY <1>14, ParamsCount
<1>16. \A p \in Params : \E b \in DOMAIN B : \E i \in DOMAIN B[b] : B[b][i] = p
  <2> SUFFICES ASSUME NEW p \in Params
               PROVE  \E b \in DOMAIN B : \E i \in DOMAIN B[b] : B[b][i] = p
    OBVIOUS
  <2>1. PICK k \in 1 .. NP : o[k] = p
    BY OrderFacts
  <2> QED BY <1>14, <2>1
<1>17. Partition(B)
  BY <1>14, <1>15, <1>16 DEF Partition
<1> QED BY <1>8, <1>17 DEF B

\* What Among(names, S) is, as a predicate on the result after n names.
PickedTo(names, S, n, a) ==
    /\ Len(a) <= n
    /\ \A i \in DOMAIN a : a[i] \in S /\ \E j \in 1 .. n : names[j] = a[i]
    /\ \A j \in 1 .. n : names[j] \in S => \E i \in DOMAIN a : a[i] = names[j]

Unrepeated(names) == \A i, j \in DOMAIN names : names[i] = names[j] => i = j

LEMMA PickNext ==
    ASSUME NEW X, NEW names \in Seq(X), Unrepeated(names), NEW S, NEW n \in 1 .. Len(names),
           NEW a \in Seq(X), PickedTo(names, S, n - 1, a), Unrepeated(a)
    PROVE  /\ names[n] \notin S => PickedTo(names, S, n, a)
           /\ names[n] \in S => /\ PickedTo(names, S, n, Append(a, names[n]))
                                /\ Unrepeated(Append(a, names[n]))
<1>1. /\ Len(a) <= n - 1
      /\ \A i \in DOMAIN a : a[i] \in S /\ \E j \in 1 .. n - 1 : names[j] = a[i]
      /\ \A j \in 1 .. n - 1 : names[j] \in S => \E i \in DOMAIN a : a[i] = names[j]
  BY DEF PickedTo
<1>2. Len(a) \in Nat /\ DOMAIN a = 1 .. Len(a) /\ names[n] \in X
  OBVIOUS
<1>3. ASSUME names[n] \notin S PROVE PickedTo(names, S, n, a)
  <2>1. \A i \in DOMAIN a : a[i] \in S /\ \E j \in 1 .. n : names[j] = a[i]
    BY <1>1
  <2>2. \A j \in 1 .. n : names[j] \in S => \E i \in DOMAIN a : a[i] = names[j]
    BY <1>1, <1>3
  <2>3. Len(a) <= n
    BY <1>1, <1>2
  <2> QED BY <2>1, <2>2, <2>3 DEF PickedTo
<1>4. ASSUME names[n] \in S
      PROVE  PickedTo(names, S, n, Append(a, names[n])) /\ Unrepeated(Append(a, names[n]))
  <2> DEFINE c == Append(a, names[n])
  <2>1. /\ Len(c) = Len(a) + 1 /\ DOMAIN c = 1 .. Len(a) + 1
        /\ \A i \in 1 .. Len(a) : c[i] = a[i]
        /\ c[Len(a) + 1] = names[n]
    BY <1>2
  <2> HIDE DEF c
  <2>2. ASSUME NEW i \in DOMAIN c
        PROVE  c[i] \in S /\ \E j \in 1 .. n : names[j] = c[i]
    <3>1. CASE i = Len(a) + 1
      BY <1>4, <2>1, <3>1
    <3>2. CASE i # Len(a) + 1
      <4>1. i \in DOMAIN a /\ c[i] = a[i]
        BY <1>2, <2>1, <3>2
      <4> QED BY <1>1, <4>1
    <3> QED BY <3>1, <3>2
  <2>3. ASSUME NEW j \in 1 .. n, names[j] \in S
        PROVE  \E i \in DOMAIN c : c[i] = names[j]
    <3>1. CASE j = n
      BY <1>2, <2>1, <3>1
    <3>2. CASE j # n
      <4>1. PICK i \in DOMAIN a : a[i] = names[j]
        BY <1>1, <2>3, <3>2
      <4> QED BY <1>2, <2>1, <4>1
    <3> QED BY <3>1, <3>2
  <2>4. \A i \in DOMAIN a : a[i] # names[n]
    <3> SUFFICES ASSUME NEW i \in DOMAIN a PROVE a[i] # names[n]
      OBVIOUS
    <3>1. PICK j \in 1 .. n - 1 : names[j] = a[i]
      BY <1>1
    <3>2. j \in DOMAIN names /\ n \in DOMAIN names /\ j # n
      OBVIOUS
    <3> QED BY <3>1, <3>2 DEF Unrepeated
  <2>5. ASSUME NEW i \in DOMAIN c, NEW j \in DOMAIN c, c[i] = c[j] PROVE i = j
    <3>1. CASE i = Len(a) + 1
      BY <1>2, <2>1, <2>4, <2>5, <3>1
    <3>2. CASE j = Len(a) + 1
      BY <1>2, <2>1, <2>4, <2>5, <3>2
    <3>3. CASE i # Len(a) + 1 /\ j # Len(a) + 1
      <4>1. i \in DOMAIN a /\ j \in DOMAIN a /\ a[i] = a[j]
        BY <1>2, <2>1, <2>5, <3>3
      <4> QED BY <4>1 DEF Unrepeated
    <3> QED BY <3>1, <3>2, <3>3
  <2>6. Len(c) <= n
    BY <1>1, <1>2, <2>1
  <2> QED BY <2>2, <2>3, <2>5, <2>6 DEF PickedTo, Unrepeated, c
<1> QED BY <1>3, <1>4

\* What keeps the names that are in S, name after name.
LEMMA AmongRecursion ==
    ASSUME NEW X, NEW names \in Seq(X), NEW S
    PROVE  \E f : /\ Among(names, S) = f[Len(names)] /\ f[0] = <<>>
                  /\ \A n \in 1 .. Len(names) :
                        f[n] = IF names[n] \in S THEN Append(f[n - 1], names[n]) ELSE f[n - 1]
<1> DEFINE N == Len(names)
           XS == Seq(X)
           e == <<>>
           F == [z \in (1 .. N) \X XS |->
                   IF names[z[1]] \in S THEN Append(z[2], names[z[1]]) ELSE z[2]]
           f == CHOOSE kept : kept = [n \in 0 .. N |->
                   IF n = 0 THEN <<>>
                   ELSE IF names[n] \in S THEN Append(kept[n - 1], names[n]) ELSE kept[n - 1]]
<1>1. N \in Nat /\ DOMAIN names = 1 .. N /\ \A n \in 1 .. N : names[n] \in X
  OBVIOUS
<1>2. e \in XS
  OBVIOUS
<1>3. F \in [(1 .. N) \X XS -> XS]
  OBVIOUS
<1> HIDE DEF XS, e, N
<1>4. PICK g \in [0 .. N -> XS] : g[0] = e /\ \A n \in 1 .. N : g[n] = F[<<n, g[n - 1]>>]
  <2> HIDE DEF F, f
  <2>1. \E g : g \in Recursions(N, XS, e, F)
    BY <1>1, <1>2, <1>3, RecursionExists
  <2> QED BY <2>1 DEF Recursions
<1>5. \A n \in 1 .. N :
         g[n] = IF names[n] \in S THEN Append(g[n - 1], names[n]) ELSE g[n - 1]
  <2> SUFFICES ASSUME NEW n \in 1 .. N
               PROVE  g[n] = IF names[n] \in S THEN Append(g[n - 1], names[n]) ELSE g[n - 1]
    OBVIOUS
  <2>1. g[n - 1] \in XS
    BY <1>1
  <2>2. F[<<n, g[n - 1]>>] = IF names[n] \in S THEN Append(g[n - 1], names[n]) ELSE g[n - 1]
    BY <2>1
  <2> QED BY <1>4, <2>2
<1>6. g = [n \in 0 .. N |->
             IF n = 0 THEN <<>>
             ELSE IF names[n] \in S THEN Append(g[n - 1], names[n]) ELSE g[n - 1]]
  <2> HIDE DEF f, F
  <2> DEFINE G(n) == IF n = 0 THEN <<>>
                     ELSE IF names[n] \in S THEN Append(g[n - 1], names[n]) ELSE g[n - 1]
  <2>1. \A n \in 0 .. N : g[n] = G(n)
    <3>1. G(0) = <<>> /\ \A n \in 1 .. N : G(n) = g[n]
      BY <1>5
    <3>2. g[0] = <<>> /\ \A n \in 0 .. N : n = 0 \/ n \in 1 .. N
      BY <1>1, <1>4 DEF e
    <3> HIDE DEF G
    <3> QED BY <3>1, <3>2
  <2> HIDE DEF G
  <2>2. g = [n \in 0 .. N |-> G(n)]
    BY <2>1
  <2> QED BY <2>2 DEF G
<1>7. f = [n \in 0 .. N |->
             IF n = 0 THEN <<>>
             ELSE IF names[n] \in S THEN Append(f[n - 1], names[n]) ELSE f[n - 1]]
  BY <1>6
<1>8. Among(names, S) = f[N]
  BY DEF Among, N
<1> HIDE DEF f, F
<1>9. f[0] = <<>> /\ \A n \in 1 .. N :
         f[n] = IF names[n] \in S THEN Append(f[n - 1], names[n]) ELSE f[n - 1]
  <2>1. 0 \in 0 .. N /\ \A n \in 1 .. N : n \in 0 .. N /\ n # 0
    BY <1>1
  <2>2. \A n \in 0 .. N : f[n] = IF n = 0 THEN <<>>
             ELSE IF names[n] \in S THEN Append(f[n - 1], names[n]) ELSE f[n - 1]
    BY <1>7
  <2> HIDE <1>7
  <2> QED BY <2>1, <2>2
<1> QED BY <1>8, <1>9 DEF N

\* For the names, S and T may be told apart elsewhere.
LEMMA AmongAlike ==
    ASSUME NEW X, NEW names \in Seq(X), NEW S, NEW T,
           \A j \in DOMAIN names : names[j] \in S <=> names[j] \in T
    PROVE  Among(names, S) = Among(names, T)
<1> DEFINE N == Len(names)
<1>1. N \in Nat /\ DOMAIN names = 1 .. N
  OBVIOUS
<1> HIDE DEF N
<1>2. PICK f : /\ Among(names, S) = f[N] /\ f[0] = <<>>
               /\ \A n \in 1 .. N :
                     f[n] = IF names[n] \in S THEN Append(f[n - 1], names[n]) ELSE f[n - 1]
  BY AmongRecursion DEF N
<1>3. PICK g : /\ Among(names, T) = g[N] /\ g[0] = <<>>
               /\ \A n \in 1 .. N :
                     g[n] = IF names[n] \in T THEN Append(g[n - 1], names[n]) ELSE g[n - 1]
  BY AmongRecursion DEF N
<1> DEFINE W == {n \in 0 .. N : f[n] = g[n]}
<1>4. 0 \in W
  BY <1>1, <1>2, <1>3
<1>5. \A n \in 1 .. N : n - 1 \in W => n \in W
  BY <1>1, <1>2, <1>3
<1> HIDE DEF W
<1>6. N \in W
  <2>1. 0 .. N \subseteq W
    BY <1>1, <1>4, <1>5, InductionUpTo
  <2> QED BY <1>1, <2>1
<1> QED BY <1>2, <1>3, <1>6 DEF W

\* The names of a sequence without repetitions that are in S: those, once each.
LEMMA AmongFacts ==
    ASSUME NEW X, NEW names \in Seq(X), NEW S, Unrepeated(names)
    PROVE  /\ Among(names, S) \in Seq(X) /\ Len(Among(names, S)) <= Len(names)
           /\ \A i \in DOMAIN Among(names, S) :
                 Among(names, S)[i] \in S /\ \E j \in DOMAIN names : names[j] = Among(names, S)[i]
           /\ \A j \in DOMAIN names : names[j] \in S =>
                 \E i \in DOMAIN Among(names, S) : Among(names, S)[i] = names[j]
           /\ Unrepeated(Among(names, S))
<1> DEFINE N == Len(names)
<1>1. N \in Nat /\ DOMAIN names = 1 .. N /\ \A n \in 1 .. N : names[n] \in X
  OBVIOUS
<1> HIDE DEF N
<1>2. PICK f : /\ Among(names, S) = f[N] /\ f[0] = <<>>
               /\ \A n \in 1 .. N :
                     f[n] = IF names[n] \in S THEN Append(f[n - 1], names[n]) ELSE f[n - 1]
  BY AmongRecursion DEF N
<1>8. Among(names, S) = f[N]
  BY <1>2
<1>9. f[0] = <<>> /\ \A n \in 1 .. N :
         f[n] = IF names[n] \in S THEN Append(f[n - 1], names[n]) ELSE f[n - 1]
  BY <1>2
<1> DEFINE T == {n \in 0 .. N : /\ f[n] \in Seq(X) /\ PickedTo(names, S, n, f[n])
                                /\ Unrepeated(f[n])}
<1>10. 0 \in T
  <2>1. <<>> \in Seq(X) /\ PickedTo(names, S, 0, <<>>) /\ Unrepeated(<<>>)
    BY DEF PickedTo, Unrepeated
  <2>2. f[0] = <<>> /\ 0 \in 0 .. N
    BY <1>1, <1>9
  <2>3. f[0] \in Seq(X) /\ PickedTo(names, S, 0, f[0]) /\ Unrepeated(f[0])
    BY <2>1, <2>2
  <2> QED BY <2>2, <2>3
<1>11. \A n \in 1 .. N : n - 1 \in T => n \in T
  <2> SUFFICES ASSUME NEW n \in 1 .. N, n - 1 \in T
               PROVE  f[n] \in Seq(X) /\ PickedTo(names, S, n, f[n]) /\ Unrepeated(f[n])
    OBVIOUS
  <2>1. f[n - 1] \in Seq(X) /\ PickedTo(names, S, n - 1, f[n - 1]) /\ Unrepeated(f[n - 1])
    OBVIOUS
  <2> HIDE DEF T
  <2>2. n \in 1 .. Len(names)
    BY DEF N
  <2>3. CASE names[n] \in S
    <3>1. f[n] = Append(f[n - 1], names[n])
      BY <1>9, <2>3
    <3> QED BY <1>1, <2>1, <2>2, <2>3, <3>1, PickNext
  <2>4. CASE names[n] \notin S
    <3>1. f[n] = f[n - 1]
      BY <1>9, <2>4
    <3> QED BY <2>1, <2>2, <2>4, <3>1, PickNext
  <2> QED BY <2>3, <2>4
<1> HIDE DEF T
<1>12. N \in T
  BY <1>1, <1>10, <1>11, InductionUpTo
<1>13. f[N] \in Seq(X) /\ PickedTo(names, S, N, f[N]) /\ Unrepeated(f[N])
  BY <1>12 DEF T
<1> QED BY <1>1, <1>8, <1>13 DEF PickedTo, N

\* Where the parts begin: at the sum of the sizes before.
LEMMA OffsetsFacts ==
    ASSUME NEW names \in Seq(Params), setup.size \in [Params -> Nat \ {0}]
    PROVE  /\ Offsets(names) \in [0 .. Len(names) -> Nat]
           /\ Offsets(names)[0] = 0
           /\ \A i \in 1 .. Len(names) :
                 Offsets(names)[i] = Offsets(names)[i - 1] + setup.size[names[i]]
<1> DEFINE N == Len(names)
           F == [z \in (1 .. N) \X Nat |-> z[2] + setup.size[names[z[1]]]]
           f == CHOOSE off : off = [i \in 0 .. N |->
                   IF i = 0 THEN 0 ELSE off[i - 1] + setup.size[names[i]]]
<1>1. N \in Nat /\ \A n \in 1 .. N : names[n] \in Params /\ setup.size[names[n]] \in Nat
  OBVIOUS
<1> HIDE DEF N
<1>2. F \in [(1 .. N) \X Nat -> Nat]
  BY <1>1
<1>3. PICK g \in [0 .. N -> Nat] : g[0] = 0 /\ \A n \in 1 .. N : g[n] = F[<<n, g[n - 1]>>]
  <2> HIDE DEF F, f
  <2>1. 0 \in Nat
    OBVIOUS
  <2>2. \E g : g \in Recursions(N, Nat, 0, F)
    BY <1>1, <1>2, <2>1, RecursionExists
  <2> QED BY <2>2 DEF Recursions
<1>4. \A n \in 1 .. N : g[n] = g[n - 1] + setup.size[names[n]]
  <2> SUFFICES ASSUME NEW n \in 1 .. N PROVE g[n] = g[n - 1] + setup.size[names[n]]
    OBVIOUS
  <2>1. g[n - 1] \in Nat
    BY <1>1
  <2>2. F[<<n, g[n - 1]>>] = g[n - 1] + setup.size[names[n]]
    BY <2>1
  <2> QED BY <1>3, <2>2
<1>5. g = [i \in 0 .. N |-> IF i = 0 THEN 0 ELSE g[i - 1] + setup.size[names[i]]]
  <2> HIDE DEF F, f
  <2> DEFINE G(n) == IF n = 0 THEN 0 ELSE g[n - 1] + setup.size[names[n]]
  <2>1. \A n \in 0 .. N : g[n] = G(n)
    <3>1. G(0) = 0 /\ \A n \in 1 .. N : G(n) = g[n]
      BY <1>4
    <3>2. g[0] = 0 /\ \A n \in 0 .. N : n = 0 \/ n \in 1 .. N
      BY <1>1, <1>3
    <3> HIDE DEF G
    <3> QED BY <3>1, <3>2
  <2> HIDE DEF G
  <2>2. g = [n \in 0 .. N |-> G(n)]
    BY <2>1
  <2> QED BY <2>2 DEF G
<1>6. f = [i \in 0 .. N |-> IF i = 0 THEN 0 ELSE f[i - 1] + setup.size[names[i]]]
  BY <1>5
<1>7. Offsets(names) = f
  BY DEF Offsets, N
<1> HIDE DEF f, F
<1>8. /\ DOMAIN f = 0 .. N /\ f[0] = 0
      /\ \A n \in 1 .. N : f[n] = f[n - 1] + setup.size[names[n]]
  <2>1. 0 \in 0 .. N /\ \A n \in 1 .. N : n \in 0 .. N /\ n # 0
    BY <1>1
  <2>2. /\ DOMAIN f = 0 .. N
        /\ \A i \in 0 .. N : f[i] = IF i = 0 THEN 0 ELSE f[i - 1] + setup.size[names[i]]
    BY <1>6
  <2> HIDE <1>6
  <2> QED BY <2>1, <2>2
<1> DEFINE T == {n \in 0 .. N : f[n] \in Nat}
<1>9. 0 \in T
  BY <1>1, <1>8
<1>10. \A n \in 1 .. N : n - 1 \in T => n \in T
  <2> SUFFICES ASSUME NEW n \in 1 .. N, f[n - 1] \in Nat PROVE f[n] \in Nat
    BY <1>1
  <2>1. setup.size[names[n]] \in Nat /\ f[n] = f[n - 1] + setup.size[names[n]]
    BY <1>1, <1>8
  <2> QED BY <2>1
<1> HIDE DEF T
<1>11. 0 .. N \subseteq T
  BY <1>1, <1>9, <1>10, InductionUpTo
<1>12. \A n \in 0 .. N : f[n] \in Nat
  BY <1>11 DEF T
<1>13. f \in [0 .. N -> Nat]
  BY <1>6, <1>12
<1> QED BY <1>7, <1>8, <1>13 DEF N

\* Every element of the flat tensor is of the part that its place says.
LEMMA PartAtFacts ==
    ASSUME NEW names \in Seq(Params), setup.size \in [Params -> Nat \ {0}],
           NEW i \in 1 .. Len(names),
           NEW e \in Offsets(names)[i - 1] + 1 .. Offsets(names)[i]
    PROVE  /\ PartAt(Offsets(names), e) = i
           /\ e \in 1 .. Offsets(names)[Len(names)]
<1> DEFINE N == Len(names)
           off == Offsets(names)
<1>1. /\ N \in Nat /\ i \in 1 .. N /\ off \in [0 .. N -> Nat] /\ DOMAIN off \ {0} = 1 .. N
      /\ \A j \in 1 .. N : off[j - 1] <= off[j]
  <2>1. \A j \in 1 .. N : setup.size[names[j]] \in Nat
    OBVIOUS
  <2>2. /\ off \in [0 .. N -> Nat] /\ off[0] = 0
        /\ \A j \in 1 .. N : off[j] = off[j - 1] + setup.size[names[j]]
    BY OffsetsFacts
  <2>3. N \in Nat
    OBVIOUS
  <2> HIDE DEF N, off
  <2>4. ASSUME NEW j \in 1 .. N PROVE off[j - 1] <= off[j]
    <3>1. off[j - 1] \in Nat /\ setup.size[names[j]] \in Nat
      BY <2>1, <2>2, <2>3
    <3> QED BY <2>2, <3>1
  <2>5. DOMAIN off \ {0} = 1 .. N
    BY <2>2, <2>3
  <2> QED BY <2>2, <2>3, <2>4, <2>5 DEF N
<1>2. e \in off[i - 1] + 1 .. off[i]
  OBVIOUS
<1> HIDE DEF N, off
\* The offsets grow.
<1> DEFINE T == {n \in 0 .. N : \A j \in 0 .. n : off[j] <= off[n]}
<1>3. 0 \in T
  BY <1>1
<1>4. \A n \in 1 .. N : n - 1 \in T => n \in T
  <2> SUFFICES ASSUME NEW n \in 1 .. N, n - 1 \in T, NEW j \in 0 .. n PROVE off[j] <= off[n]
    OBVIOUS
  <2>1. off[n] \in Nat /\ off[n - 1] \in Nat /\ off[n - 1] <= off[n] /\ off[j] \in Nat
    BY <1>1
  <2>2. CASE j = n
    BY <2>1, <2>2
  <2>3. CASE j # n
    <3>1. j \in 0 .. n - 1
      BY <2>3
    <3>2. off[j] <= off[n - 1]
      BY <3>1
    <3> QED BY <2>1, <3>2
  <2> QED BY <2>2, <2>3
<1> HIDE DEF T
<1>5. 0 .. N \subseteq T
  BY <1>1, <1>3, <1>4, InductionUpTo
<1>6. \A n \in 0 .. N : \A j \in 0 .. n : off[j] <= off[n]
  BY <1>5 DEF T
<1>7. off[i - 1] < e /\ e <= off[i] /\ e \in Int
  BY <1>1, <1>2
<1>8. \A j \in 1 .. N : off[j - 1] < e /\ e <= off[j] => j = i
  <2> SUFFICES ASSUME NEW j \in 1 .. N, off[j - 1] < e, e <= off[j], j # i PROVE FALSE
    OBVIOUS
  <2>1. off[j] \in Nat /\ off[j - 1] \in Nat /\ off[i] \in Nat /\ off[i - 1] \in Nat
    BY <1>1
  <2>2. CASE j < i
    <3>1. off[j] <= off[i - 1]
      BY <1>1, <1>6, <2>2
    <3> QED BY <1>7, <2>1, <3>1
  <2>3. CASE j > i
    <3>1. off[i] <= off[j - 1]
      BY <1>1, <1>6, <2>3
    <3> QED BY <1>7, <2>1, <3>1
  <2> QED BY <1>1, <2>2, <2>3
<1>9. PartAt(off, e) = i
  <2>1. \E j \in DOMAIN off \ {0} : off[j - 1] < e /\ e <= off[j]
    BY <1>1, <1>7
  <2>2. /\ PartAt(off, e) \in DOMAIN off \ {0}
        /\ off[PartAt(off, e) - 1] < e /\ e <= off[PartAt(off, e)]
    BY <2>1 DEF PartAt
  <2> QED BY <1>1, <1>8, <2>2
<1>10. e \in 1 .. off[N]
  <2>1. off[i] <= off[N] /\ off[i - 1] \in Nat /\ off[i] \in Nat /\ off[N] \in Nat
    BY <1>1, <1>6
  <2> QED BY <1>7, <2>1
<1> QED BY <1>9, <1>10 DEF N, off
=============================================================================
