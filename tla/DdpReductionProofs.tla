------------------------- MODULE DdpReductionProofs -------------------------
(***************************************************************************)
(* Proofs about the calls that DdpSync's reductions make, for any ranks,   *)
(* parameters and setups: that a bucket is reduced whole, that ranks make  *)
(* the same calls under the same numbers, sync_gradients and the           *)
(* reductions that overlap the backward pass, and what is summed when they *)
(* do not.                                                                 *)
(***************************************************************************)
EXTENDS DdpSyncProofs

-----------------------------------------------------------------------------
(* Whole buckets.                                                           *)

Has(s, p) == \E i \in DOMAIN s : s[i] = p

\* As many names of a sequence as it has, none twice, are all of its names.
LEMMA AllOfThem ==
    ASSUME NEW X, NEW a \in Seq(X), NEW b \in Seq(X), Len(a) = Len(b),
           Unrepeated(a), Unrepeated(b), \A i \in DOMAIN a : Has(b, a[i]), NEW j \in DOMAIN b
    PROVE  Has(a, b[j])
<1> DEFINE N == Len(b)
           f == [i \in 1 .. N |-> CHOOSE m \in 1 .. N : b[m] = a[i]]
<1>1. N \in Nat /\ DOMAIN a = 1 .. N /\ DOMAIN b = 1 .. N
  OBVIOUS
<1> HIDE DEF N
<1>2. \A i \in 1 .. N : \E m \in 1 .. N : b[m] = a[i]
  BY <1>1 DEF Has
<1>3. \A i \in 1 .. N : f[i] \in 1 .. N /\ b[f[i]] = a[i]
  <2> SUFFICES ASSUME NEW i \in 1 .. N PROVE f[i] \in 1 .. N /\ b[f[i]] = a[i]
    OBVIOUS
  <2>1. f[i] = CHOOSE m \in 1 .. N : b[m] = a[i]
    OBVIOUS
  <2> QED BY <1>2, <2>1
<1>4. f \in [1 .. N -> 1 .. N]
  <2>1. f = [i \in 1 .. N |-> f[i]]
    OBVIOUS
  <2> HIDE DEF f
  <2> QED BY <1>3, <2>1
<1> HIDE DEF f
<1>5. \A x, y \in 1 .. N : f[x] = f[y] => x = y
  BY <1>1, <1>3 DEF Unrepeated
<1>6. IsFiniteSet(1 .. N)
  BY <1>1, FS_Interval
<1>7. \A z \in 1 .. N : \E x \in 1 .. N : f[x] = z
  <2> DEFINE S == 1 .. N
             T == 1 .. N
  <2>1. /\ f \in [S -> T] /\ IsFiniteSet(T) /\ Cardinality(S) = Cardinality(T)
        /\ \A x, y \in S : f[x] = f[y] => x = y
    BY <1>4, <1>5, <1>6
  <2> HIDE DEF S, T
  <2>2. \A z \in T : \E x \in S : f[x] = z
    BY <2>1, FillsUp
  <2> QED BY <2>2 DEF S, T
<1>8. PICK x \in 1 .. N : f[x] = j
  BY <1>1, <1>7
<1>9. x \in DOMAIN a /\ a[x] = b[j]
  BY <1>1, <1>3, <1>8
<1> QED BY <1>9 DEF Has

\* Fewer names than a sequence has miss one.
LEMMA OneMissing ==
    ASSUME NEW X, NEW a \in Seq(X), NEW b \in Seq(X), Len(a) < Len(b), Unrepeated(b)
    PROVE  \E j \in DOMAIN b : ~Has(a, b[j])
<1> DEFINE N == Len(b)
           M == Len(a)
           f == [j \in 1 .. N |-> CHOOSE m \in 1 .. M : a[m] = b[j]]
<1>1. /\ N \in Nat /\ DOMAIN b = 1 .. N /\ M \in Nat /\ DOMAIN a = 1 .. M /\ M < N
  OBVIOUS
<1> SUFFICES ASSUME \A j \in DOMAIN b : Has(a, b[j]) PROVE FALSE
  OBVIOUS
<1> HIDE DEF N, M
<1>2. \A j \in 1 .. N : \E m \in 1 .. M : a[m] = b[j]
  BY <1>1 DEF Has
<1>3. \A j \in 1 .. N : f[j] \in 1 .. M /\ a[f[j]] = b[j]
  <2> SUFFICES ASSUME NEW j \in 1 .. N PROVE f[j] \in 1 .. M /\ a[f[j]] = b[j]
    OBVIOUS
  <2>1. f[j] = CHOOSE m \in 1 .. M : a[m] = b[j]
    OBVIOUS
  <2> QED BY <1>2, <2>1
<1>4. f \in [1 .. N -> 1 .. M]
  <2>1. f = [j \in 1 .. N |-> f[j]]
    OBVIOUS
  <2> HIDE DEF f
  <2> QED BY <1>3, <2>1
<1> HIDE DEF f
<1>5. /\ IsFiniteSet(1 .. N) /\ Cardinality(1 .. N) = N
      /\ IsFiniteSet(1 .. M) /\ Cardinality(1 .. M) = M
  <2> SUFFICES ASSUME NEW n \in Nat PROVE IsFiniteSet(1 .. n) /\ Cardinality(1 .. n) = n
    BY <1>1
  <2>1. 1 \in Int /\ n \in Int
    OBVIOUS
  <2>2. /\ IsFiniteSet(1 .. n)
        /\ Cardinality(1 .. n) = IF 1 > n THEN 0 ELSE n - 1 + 1
    BY <2>1, FS_Interval
  <2> QED BY <2>2
<1>6. \E x, y \in 1 .. N : x # y /\ f[x] = f[y]
  BY <1>1, <1>4, <1>5, FS_PigeonHole
<1> QED BY <1>1, <1>3, <1>6 DEF Unrepeated

\* What a rank sends its worker of a parameter and a backward pass.
Item(r, p, i) == [name |-> p, grad |-> {<<r, p, i>>}]

PassOf(g) == (CHOOSE z : z \in g.grad)[3]

IsItem(r, g, st) == PassOf(g) \in 1 .. st /\ g = Item(r, g.name, PassOf(g))

LEMMA ItemFacts ==
    ASSUME NEW r, NEW p, NEW i
    PROVE  /\ Item(r, p, i).name = p /\ PassOf(Item(r, p, i)) = i
           /\ Item(r, p, i).grad = {<<r, p, i>>}
<1>1. (CHOOSE z : z \in {<<r, p, i>>}) = <<r, p, i>>
  OBVIOUS
<1>2. PassOf(Item(r, p, i)) = i
  BY <1>1 DEF Item, PassOf
<1> QED BY <1>2 DEF Item

\* Something of the parameter and the pass is on its way.
Live(r, B, ch, pd, td, st, p, i) ==
    \/ Has(ch, Item(r, p, i))
    \/ \E b \in DOMAIN B : Has(pd[b], Item(r, p, i))
    \/ Has(td, p) /\ i = st

\* What is on its way from the backward pass to a reduction, by its place:
\* still to be registered, in the channel, or pending.
ItemsRight(r, B, ch, pd, st) ==
    /\ \A k \in DOMAIN ch : IsItem(r, ch[k], st)
    /\ \A b \in DOMAIN B : \A k \in DOMAIN pd[b] :
          IsItem(r, pd[b][k], st) /\ Has(B[b], pd[b][k].name)

InOrder(B, ch, pd) ==
    /\ \A k, l \in DOMAIN ch : k < l => PassOf(ch[k]) <= PassOf(ch[l]) /\ ch[k] # ch[l]
    /\ \A b \in DOMAIN B : \A k, l \in DOMAIN pd[b] :
          PassOf(pd[b][k]) = PassOf(pd[b][l]) /\ (pd[b][k] = pd[b][l] => k = l)
    /\ \A b \in DOMAIN B : \A k \in DOMAIN pd[b], l \in DOMAIN ch :
          PassOf(pd[b][k]) <= PassOf(ch[l]) /\ pd[b][k] # ch[l]

ToComeRight(r, B, ch, pd, td, st) ==
    /\ Unrepeated(td)
    /\ \A t \in DOMAIN td : /\ ~Has(ch, Item(r, td[t], st))
                            /\ \A b \in DOMAIN B : ~Has(pd[b], Item(r, td[t], st))

\* No bucket is full, and all of a bucket is on its way or none of it.
Closed(r, B, ch, pd, td, st) ==
    /\ \A b \in DOMAIN B : Len(pd[b]) < Len(B[b])
    /\ \A b \in DOMAIN B : \A m, n \in DOMAIN B[b] : \A i \in 1 .. st :
          Live(r, B, ch, pd, td, st, B[b][m], i) => Live(r, B, ch, pd, td, st, B[b][n], i)

Whole(r, B, ch, pd, td, st) ==
    /\ ItemsRight(r, B, ch, pd, st) /\ InOrder(B, ch, pd)
    /\ ToComeRight(r, B, ch, pd, td, st) /\ Closed(r, B, ch, pd, td, st)

LEMMA WholeBackward ==
    ASSUME NEW r \in Ranks, NEW B, Partition(B), NEW ch \in Items, NEW pd \in Slots,
           NEW st \in Nat, Whole(r, B, ch, pd, <<>>, st),
           NEW td \in Names, Unrepeated(td), td = <<>> \/ \A p \in Params : Has(td, p)
    PROVE  Whole(r, B, ch, pd, td, st + 1)
<1>1. ItemsRight(r, B, ch, pd, st) /\ InOrder(B, ch, pd) /\ Closed(r, B, ch, pd, <<>>, st)
  BY DEF Whole
<1>2. 1 .. st \subseteq 1 .. st + 1
  OBVIOUS
<1>3. ItemsRight(r, B, ch, pd, st + 1)
  BY <1>1, <1>2 DEF ItemsRight, IsItem
<1>4. \A p : /\ ~Has(ch, Item(r, p, st + 1))
             /\ \A b \in DOMAIN B : ~Has(pd[b], Item(r, p, st + 1))
  <2> SUFFICES ASSUME NEW p
               PROVE  /\ ~Has(ch, Item(r, p, st + 1))
                      /\ \A b \in DOMAIN B : ~Has(pd[b], Item(r, p, st + 1))
    OBVIOUS
  <2>1. PassOf(Item(r, p, st + 1)) = st + 1
    BY ItemFacts
  <2>2. ~(st + 1 \in 1 .. st)
    OBVIOUS
  <2> QED BY <1>1, <2>1, <2>2 DEF ItemsRight, IsItem, Has
<1>5. ToComeRight(r, B, ch, pd, td, st + 1)
  BY <1>4 DEF ToComeRight
<1>6. Closed(r, B, ch, pd, td, st + 1)
  <2>1. \A b \in DOMAIN B : Len(pd[b]) < Len(B[b])
    BY <1>1 DEF Closed
  <2> SUFFICES ASSUME NEW b \in DOMAIN B, NEW m \in DOMAIN B[b], NEW n \in DOMAIN B[b],
                      NEW i \in 1 .. st + 1, Live(r, B, ch, pd, td, st + 1, B[b][m], i)
               PROVE  Live(r, B, ch, pd, td, st + 1, B[b][n], i)
    BY <2>1 DEF Closed
  <2>2. B[b][n] \in Params
    BY DEF Partition
  <2>3. CASE i = st + 1
    <3>1. Has(td, B[b][m])
      BY <1>4, <2>3 DEF Live
    <3>2. Has(td, B[b][n])
      BY <2>2, <3>1 DEF Has
    <3> QED BY <2>3, <3>2 DEF Live
  <2>4. CASE i \in 1 .. st
    <3>1. Live(r, B, ch, pd, <<>>, st, B[b][m], i)
      BY <2>4 DEF Live
    <3>2. Live(r, B, ch, pd, <<>>, st, B[b][n], i)
      BY <1>1, <2>4, <3>1 DEF Closed
    <3> QED BY <3>2 DEF Live, Has
  <2> QED BY <2>3, <2>4
<1> QED BY <1>1, <1>3, <1>5, <1>6 DEF Whole

\* A sequence with one more, and without its first.
LEMMA HasMore ==
    ASSUME NEW X, NEW s \in Seq(X), NEW g
    PROVE  /\ \A x : Has(Append(s, g), x) <=> Has(s, x) \/ x = g
           /\ s # <<>> => /\ \A x : Has(s, x) <=> x = Head(s) \/ Has(Tail(s), x)
                          /\ \A k \in DOMAIN Tail(s) : /\ k + 1 \in DOMAIN s
                                                       /\ Tail(s)[k] = s[k + 1]
                                                       /\ 1 < k + 1 /\ k \in Nat
                          /\ 1 \in DOMAIN s /\ s[1] = Head(s)
<1>1. \A x : Has(Append(s, g), x) <=> Has(s, x) \/ x = g
  <2>1. /\ DOMAIN s = 1 .. Len(s) /\ Len(s) \in Nat
        /\ DOMAIN Append(s, g) = 1 .. Len(s) + 1
        /\ \A i \in 1 .. Len(s) : Append(s, g)[i] = s[i]
        /\ Append(s, g)[Len(s) + 1] = g
    BY AppendFacts
  <2>2. \A i \in 1 .. Len(s) + 1 : i \in 1 .. Len(s) \/ i = Len(s) + 1
    BY <2>1
  <2>3. Len(s) + 1 \in 1 .. Len(s) + 1 /\ 1 .. Len(s) \subseteq 1 .. Len(s) + 1
    BY <2>1
  <2> QED BY <2>1, <2>2, <2>3 DEF Has
<1>2. ASSUME s # <<>>
      PROVE  /\ \A k \in DOMAIN Tail(s) : /\ k + 1 \in DOMAIN s /\ Tail(s)[k] = s[k + 1]
                                          /\ 1 < k + 1 /\ k \in Nat
             /\ 1 \in DOMAIN s /\ s[1] = Head(s)
  BY <1>2
<1>3. ASSUME s # <<>>, NEW x
      PROVE  Has(s, x) <=> x = Head(s) \/ Has(Tail(s), x)
  <2>1. \A k \in DOMAIN s : k = 1 \/ (k - 1 \in DOMAIN Tail(s) /\ Tail(s)[k - 1] = s[k])
    BY <1>3
  <2> QED BY <1>2, <1>3, <2>1 DEF Has
<1> QED BY <1>1, <1>2, <1>3

LEMMA WholeRegister ==
    ASSUME NEW r \in Ranks, NEW B, Partition(B), NEW ch \in Items, NEW pd \in Slots,
           NEW st \in Nat \ {0}, NEW td \in Names, td # <<>>, Whole(r, B, ch, pd, td, st)
    PROVE  Whole(r, B, Append(ch, Item(r, Head(td), st)), pd, Tail(td), st)
<1> DEFINE p == Head(td)
           g == Item(r, p, st)
           ch2 == Append(ch, g)
           rest == Tail(td)
<1>1. /\ ItemsRight(r, B, ch, pd, st) /\ InOrder(B, ch, pd)
      /\ ToComeRight(r, B, ch, pd, td, st) /\ Closed(r, B, ch, pd, td, st)
  BY DEF Whole
<1>2. /\ \A x : Has(td, x) <=> x = p \/ Has(rest, x)
      /\ \A k \in DOMAIN rest : k + 1 \in DOMAIN td /\ rest[k] = td[k + 1] /\ 1 < k + 1 /\ k \in Nat
      /\ 1 \in DOMAIN td /\ td[1] = p
  BY HasMore DEF Names
<1>3. /\ \A x : Has(ch2, x) <=> Has(ch, x) \/ x = g
      /\ DOMAIN ch2 = DOMAIN ch \union {Len(ch) + 1} /\ Len(ch) \in Nat /\ DOMAIN ch = 1 .. Len(ch)
      /\ \A i \in DOMAIN ch : ch2[i] = ch[i]
      /\ ch2[Len(ch) + 1] = g
  <2>1. \A x : Has(ch2, x) <=> Has(ch, x) \/ x = g
    BY HasMore DEF Items
  <2>2. /\ DOMAIN ch = 1 .. Len(ch) /\ Len(ch) \in Nat
        /\ DOMAIN ch2 = 1 .. Len(ch) + 1
        /\ \A i \in 1 .. Len(ch) : ch2[i] = ch[i]
        /\ ch2[Len(ch) + 1] = g
    BY AppendFacts DEF Items
  <2> HIDE DEF ch2
  <2> QED BY <2>1, <2>2
<1>4. g.name = p /\ PassOf(g) = st
  BY ItemFacts
<1>5. IsItem(r, g, st)
  BY <1>4 DEF IsItem
<1>6. ~Has(ch, g) /\ \A b \in DOMAIN B : ~Has(pd[b], g)
  BY <1>1, <1>2 DEF ToComeRight
<1>7. \A t \in DOMAIN rest : Item(r, rest[t], st) # g
  <2> SUFFICES ASSUME NEW t \in DOMAIN rest, Item(r, rest[t], st) = g PROVE FALSE
    OBVIOUS
  <2>1. rest[t] = p
    BY ItemFacts
  <2>2. td[t + 1] = td[1] /\ t + 1 # 1 /\ t + 1 \in DOMAIN td
    BY <1>2, <2>1
  <2> QED BY <1>1, <1>2, <2>2 DEF ToComeRight, Unrepeated
<1> HIDE DEF ch2, rest, g, p
<1>8. ItemsRight(r, B, ch2, pd, st)
  BY <1>1, <1>3, <1>5 DEF ItemsRight
<1>9. InOrder(B, ch2, pd)
  <2>1. \A k \in DOMAIN ch : PassOf(ch[k]) <= st /\ ch[k] # g /\ k < Len(ch) + 1
    BY <1>1, <1>3, <1>6 DEF ItemsRight, IsItem, Has
  <2>2. \A b \in DOMAIN B : \A k \in DOMAIN pd[b] : PassOf(pd[b][k]) <= st /\ pd[b][k] # g
    BY <1>1, <1>6 DEF ItemsRight, IsItem, Has
  <2>3. \A k, l \in DOMAIN ch2 : k < l =>
            PassOf(ch2[k]) <= PassOf(ch2[l]) /\ ch2[k] # ch2[l]
    <3> SUFFICES ASSUME NEW k \in DOMAIN ch2, NEW l \in DOMAIN ch2, k < l
                 PROVE  PassOf(ch2[k]) <= PassOf(ch2[l]) /\ ch2[k] # ch2[l]
      OBVIOUS
    <3>1. k \in DOMAIN ch
      BY <1>3
    <3>2. CASE l \in DOMAIN ch
      BY <1>1, <1>3, <3>1, <3>2 DEF InOrder
    <3>3. CASE l = Len(ch) + 1
      BY <1>3, <1>4, <2>1, <3>1, <3>3
    <3> QED BY <1>3, <3>2, <3>3
  <2>4. \A b \in DOMAIN B : \A k \in DOMAIN pd[b], l \in DOMAIN ch2 :
            PassOf(pd[b][k]) <= PassOf(ch2[l]) /\ pd[b][k] # ch2[l]
    BY <1>1, <1>3, <1>4, <2>2 DEF InOrder
  <2> QED BY <1>1, <2>3, <2>4 DEF InOrder
<1>10. ToComeRight(r, B, ch2, pd, rest, st)
  <2>1. Unrepeated(rest)
    BY <1>1, <1>2 DEF ToComeRight, Unrepeated
  <2>2. \A t \in DOMAIN rest : /\ ~Has(ch, Item(r, rest[t], st))
                               /\ \A b \in DOMAIN B : ~Has(pd[b], Item(r, rest[t], st))
    BY <1>1, <1>2 DEF ToComeRight
  <2> QED BY <1>3, <1>7, <2>1, <2>2 DEF ToComeRight
<1>11. \A x : \A i \in 1 .. st :
          Live(r, B, ch2, pd, rest, st, x, i) <=> Live(r, B, ch, pd, td, st, x, i)
  <2> SUFFICES ASSUME NEW x, NEW i \in 1 .. st
               PROVE  Live(r, B, ch2, pd, rest, st, x, i) <=> Live(r, B, ch, pd, td, st, x, i)
    OBVIOUS
  <2>1. Item(r, x, i) = g <=> x = p /\ i = st
    BY ItemFacts DEF g
  <2> QED BY <1>2, <1>3, <2>1 DEF Live
<1>12. Closed(r, B, ch2, pd, rest, st)
  BY <1>1, <1>11 DEF Closed
<1>13. Whole(r, B, ch2, pd, rest, st)
  BY <1>8, <1>9, <1>10, <1>12 DEF Whole
<1> QED BY <1>13 DEF ch2, rest, g, p

LEMMA PartitionFacts ==
    ASSUME NEW B, Partition(B)
    PROVE  /\ DOMAIN B \subseteq 1 .. NP
           /\ \A b \in DOMAIN B : B[b] \in Seq(Params) /\ Unrepeated(B[b])
           /\ \A b, c \in DOMAIN B : \A x : Has(B[b], x) /\ Has(B[c], x) => b = c
<1>1. /\ B \in Seq(Seq(Params)) /\ Len(B) \in 1 .. NP
      /\ \A b, c \in DOMAIN B : \A i \in DOMAIN B[b], j \in DOMAIN B[c] :
            B[b][i] = B[c][j] => b = c /\ i = j
  BY DEF Partition
<1>2. NP \in Nat
  BY ParamsCount
<1>3. DOMAIN B \subseteq 1 .. NP
  BY <1>1, <1>2
<1>4. \A b \in DOMAIN B : B[b] \in Seq(Params) /\ Unrepeated(B[b])
  BY <1>1 DEF Unrepeated
<1>5. \A b, c \in DOMAIN B : \A x : Has(B[b], x) /\ Has(B[c], x) => b = c
  BY <1>1 DEF Has
<1> QED BY <1>3, <1>4, <1>5

\* What waits in a bucket is of the pass of the item that comes next for it.
LEMMA OnePass ==
    ASSUME NEW r \in Ranks, NEW B, Partition(B), NEW ch \in Items, NEW pd \in Slots,
           NEW st \in Nat, NEW td \in Names, Whole(r, B, ch, pd, td, st), ch # <<>>,
           NEW b \in DOMAIN B, NEW k \in DOMAIN pd[b], Has(B[b], Head(ch).name)
    PROVE  PassOf(pd[b][k]) = PassOf(Head(ch))
<1> DEFINE j == PassOf(pd[b][k])
           i == PassOf(Head(ch))
           nm == [n \in DOMAIN pd[b] |-> pd[b][n].name]
<1>1. /\ ItemsRight(r, B, ch, pd, st) /\ InOrder(B, ch, pd) /\ Closed(r, B, ch, pd, td, st)
  BY DEF Whole
<1>2. 1 \in DOMAIN ch /\ ch[1] = Head(ch) /\ DOMAIN ch = 1 .. Len(ch) /\ Len(ch) \in Nat
  BY DEF Items
<1>3. /\ j \in 1 .. st /\ i \in 1 .. st /\ pd[b][k] = Item(r, pd[b][k].name, j)
      /\ Has(B[b], pd[b][k].name)
  BY <1>1, <1>2 DEF ItemsRight, IsItem
<1>4. j <= i
  BY <1>1, <1>2 DEF InOrder
<1>5. SUFFICES ASSUME j < i PROVE FALSE
  BY <1>3, <1>4
<1>6. /\ pd[b] \in Seq(Named) /\ DOMAIN B \subseteq 1 .. NP
      /\ B[b] \in Seq(Params) /\ Unrepeated(B[b])
      /\ \A c \in DOMAIN B : \A x : Has(B[b], x) /\ Has(B[c], x) => b = c
  <2>1. /\ DOMAIN B \subseteq 1 .. NP /\ B[b] \in Seq(Params) /\ Unrepeated(B[b])
        /\ \A c \in DOMAIN B : \A x : Has(B[b], x) /\ Has(B[c], x) => b = c
    BY PartitionFacts
  <2>2. b \in 1 .. NP
    BY <2>1
  <2> QED BY <2>1, <2>2 DEF Slots, Items
<1>7. nm \in Seq(Params) /\ Len(nm) = Len(pd[b]) /\ DOMAIN nm = DOMAIN pd[b]
  <2>1. \A n \in DOMAIN pd[b] : pd[b][n].name \in Params
    <3> SUFFICES ASSUME NEW n \in DOMAIN pd[b] PROVE pd[b][n].name \in Params
      OBVIOUS
    <3>1. pd[b][n] \in Named
      BY <1>6
    <3> QED BY <3>1 DEF Named
  <2>2. DOMAIN pd[b] = 1 .. Len(pd[b]) /\ Len(pd[b]) \in Nat
    BY <1>6
  <2>3. nm \in Seq(Params) /\ DOMAIN nm = DOMAIN pd[b]
    BY <2>1, <2>2
  <2> HIDE DEF nm
  <2>4. Len(nm) = Len(pd[b])
    BY <2>2, <2>3
  <2> QED BY <2>3, <2>4
<1>8. \A n \in DOMAIN pd[b] : nm[n] = pd[b][n].name
  OBVIOUS
<1> HIDE DEF nm
<1>9. Len(pd[b]) < Len(B[b])
  BY <1>1 DEF Closed
<1>10. PICK n \in DOMAIN B[b] : ~Has(nm, B[b][n])
  BY <1>6, <1>7, <1>9, OneMissing
<1>11. PICK m \in DOMAIN B[b] : B[b][m] = pd[b][k].name
  BY <1>3 DEF Has
<1>12. Live(r, B, ch, pd, td, st, B[b][m], j)
  BY <1>3, <1>11 DEF Live, Has
<1>13. Live(r, B, ch, pd, td, st, B[b][n], j)
  BY <1>1, <1>3, <1>12 DEF Closed
<1> DEFINE q == B[b][n]
<1> HIDE DEF j, i
<1>14. CASE Has(ch, Item(r, q, j))
  <2>1. PICK l \in DOMAIN ch : ch[l] = Item(r, q, j)
    BY <1>14 DEF Has
  <2>2. PassOf(ch[l]) = j
    BY <2>1, ItemFacts
  <2>3. l = 1 \/ 1 < l
    BY <1>2
  <2>4. i <= PassOf(ch[l])
    BY <1>1, <1>2, <1>3, <2>3 DEF InOrder, i
  <2> QED BY <1>3, <1>5, <2>2, <2>4
<1>15. CASE \E c \in DOMAIN B : Has(pd[c], Item(r, q, j))
  <2>1. PICK c \in DOMAIN B : Has(pd[c], Item(r, q, j))
    BY <1>15
  <2>2. PICK l \in DOMAIN pd[c] : pd[c][l] = Item(r, q, j)
    BY <2>1 DEF Has
  <2>3. pd[c][l].name = q
    BY <2>2, ItemFacts
  <2>4. Has(B[c], q) /\ Has(B[b], q)
    BY <1>1, <2>3 DEF ItemsRight, Has
  <2>5. c = b
    BY <1>6, <2>4
  <2>6. l \in DOMAIN nm /\ nm[l] = q
    BY <1>7, <1>8, <2>3, <2>5
  <2> QED BY <1>10, <2>6 DEF Has
<1>16. CASE j = st
  BY <1>3, <1>5, <1>16
<1> QED BY <1>13, <1>14, <1>15, <1>16 DEF Live

\* The worker's next item joins what waits in its bucket: from one pass and
\* each but once.
LEMMA Joined ==
    ASSUME NEW r \in Ranks, NEW B, Partition(B), NEW ch \in Items, NEW pd \in Slots,
           NEW st \in Nat, NEW td \in Names, Whole(r, B, ch, pd, td, st), ch # <<>>,
           NEW b \in DOMAIN B, Has(B[b], Head(ch).name)
    PROVE  LET g == Head(ch)
               got == Append(pd[b], g)
           IN /\ pd[b] \in Items /\ got \in Items /\ Len(got) = Len(pd[b]) + 1
              /\ Len(pd[b]) \in Nat /\ IsItem(r, g, st)
              /\ \A x : Has(got, x) <=> Has(pd[b], x) \/ x = g
              /\ \A k \in DOMAIN got : /\ IsItem(r, got[k], st) /\ Has(B[b], got[k].name)
                                       /\ PassOf(got[k]) = PassOf(g)
              /\ \A k, l \in DOMAIN got : got[k] = got[l] => k = l
              /\ \A k \in DOMAIN got, l \in DOMAIN Tail(ch) :
                    PassOf(got[k]) <= PassOf(Tail(ch)[l]) /\ got[k] # Tail(ch)[l]
<1> DEFINE g == Head(ch)
           got == Append(pd[b], g)
           rest == Tail(ch)
<1>1. /\ ItemsRight(r, B, ch, pd, st) /\ InOrder(B, ch, pd)
  BY DEF Whole
<1>2. b \in 1 .. NP /\ pd[b] \in Items /\ pd[b] \in Seq(Named)
  <2>1. b \in 1 .. NP
    BY PartitionFacts
  <2> QED BY <2>1 DEF Slots, Items
<1>3. /\ 1 \in DOMAIN ch /\ ch[1] = g
      /\ \A k \in DOMAIN rest : k + 1 \in DOMAIN ch /\ rest[k] = ch[k + 1] /\ 1 < k + 1
  BY HasMore DEF Items
<1>4. /\ DOMAIN pd[b] = 1 .. Len(pd[b]) /\ Len(pd[b]) \in Nat
      /\ DOMAIN got = 1 .. Len(pd[b]) + 1
      /\ \A k \in 1 .. Len(pd[b]) : got[k] = pd[b][k]
      /\ got[Len(pd[b]) + 1] = g
  BY <1>2, AppendFacts
<1>5. \A x : Has(got, x) <=> Has(pd[b], x) \/ x = g
  BY <1>2, HasMore
<1>6. got \in Items /\ Len(got) = Len(pd[b]) + 1
  <2>1. g \in Named
    BY Tails
  <2> QED BY <1>2, <2>1, Tails DEF Items
<1>7. \A k \in DOMAIN pd[b] : PassOf(pd[b][k]) = PassOf(g)
  BY OnePass
<1>8. IsItem(r, g, st)
  BY <1>1, <1>3 DEF ItemsRight
<1>9. \A k \in DOMAIN got : \/ k \in DOMAIN pd[b] /\ got[k] = pd[b][k]
                            \/ k = Len(pd[b]) + 1 /\ got[k] = g
  BY <1>4
<1> HIDE DEF got, rest, g
<1>10. \A k \in DOMAIN got : /\ IsItem(r, got[k], st) /\ Has(B[b], got[k].name)
                             /\ PassOf(got[k]) = PassOf(g)
  BY <1>1, <1>7, <1>8, <1>9 DEF ItemsRight, g
<1>11. \A k \in DOMAIN pd[b] : pd[b][k] # g
  BY <1>1, <1>3 DEF InOrder
<1>12. \A k, l \in DOMAIN got : got[k] = got[l] => k = l
  <2> SUFFICES ASSUME NEW k \in DOMAIN got, NEW l \in DOMAIN got, got[k] = got[l] PROVE k = l
    OBVIOUS
  <2>1. CASE k \in DOMAIN pd[b] /\ got[k] = pd[b][k]
    BY <1>1, <1>9, <1>11, <2>1 DEF InOrder
  <2>2. CASE k = Len(pd[b]) + 1 /\ got[k] = g
    BY <1>9, <1>11, <2>2
  <2> QED BY <1>9, <2>1, <2>2
<1>13. \A k \in DOMAIN got, l \in DOMAIN rest :
           PassOf(got[k]) <= PassOf(rest[l]) /\ got[k] # rest[l]
  <2> SUFFICES ASSUME NEW k \in DOMAIN got, NEW l \in DOMAIN rest
               PROVE  PassOf(got[k]) <= PassOf(rest[l]) /\ got[k] # rest[l]
    OBVIOUS
  <2>1. /\ l + 1 \in DOMAIN ch /\ rest[l] = ch[l + 1] /\ 1 < l + 1
    BY <1>3
  <2>2. PassOf(g) <= PassOf(rest[l]) /\ g # rest[l]
    BY <1>1, <1>3, <2>1 DEF InOrder
  <2>3. CASE k \in DOMAIN pd[b] /\ got[k] = pd[b][k]
    BY <1>1, <2>1, <2>3 DEF InOrder
  <2>4. CASE got[k] = g
    BY <2>2, <2>4
  <2> QED BY <1>9, <2>3, <2>4
<1> QED BY <1>2, <1>4, <1>5, <1>6, <1>8, <1>10, <1>12, <1>13 DEF got, rest, g

\* The bucket is not full yet.
LEMMA WholeFile ==
    ASSUME NEW r \in Ranks, NEW B, Partition(B), NEW ch \in Items, NEW pd \in Slots,
           NEW st \in Nat, NEW td \in Names, Whole(r, B, ch, pd, td, st), ch # <<>>,
           NEW b \in DOMAIN B, Has(B[b], Head(ch).name), Len(pd[b]) + 1 < Len(B[b])
    PROVE  Whole(r, B, Tail(ch), [pd EXCEPT ![b] = Append(pd[b], Head(ch))], td, st)
<1> DEFINE g == Head(ch)
           got == Append(pd[b], g)
           rest == Tail(ch)
           pd2 == [pd EXCEPT ![b] = got]
<1>1. /\ ItemsRight(r, B, ch, pd, st) /\ InOrder(B, ch, pd)
      /\ ToComeRight(r, B, ch, pd, td, st) /\ Closed(r, B, ch, pd, td, st)
  BY DEF Whole
<1>2. /\ pd[b] \in Items /\ got \in Items /\ Len(got) = Len(pd[b]) + 1
      /\ \A x : Has(got, x) <=> Has(pd[b], x) \/ x = g
      /\ \A k \in DOMAIN got : /\ IsItem(r, got[k], st) /\ Has(B[b], got[k].name)
                               /\ PassOf(got[k]) = PassOf(g)
      /\ \A k, l \in DOMAIN got : got[k] = got[l] => k = l
      /\ \A k \in DOMAIN got, l \in DOMAIN rest :
            PassOf(got[k]) <= PassOf(rest[l]) /\ got[k] # rest[l]
  <2>1. /\ pd[b] \in Items /\ got \in Items /\ Len(got) = Len(pd[b]) + 1
        /\ \A x : Has(got, x) <=> Has(pd[b], x) \/ x = g
    BY Joined
  <2>2. \A k \in DOMAIN got : /\ IsItem(r, got[k], st) /\ Has(B[b], got[k].name)
                              /\ PassOf(got[k]) = PassOf(g)
    BY Joined
  <2>3. \A k, l \in DOMAIN got : got[k] = got[l] => k = l
    BY Joined
  <2>4. \A k \in DOMAIN got, l \in DOMAIN rest :
            PassOf(got[k]) <= PassOf(rest[l]) /\ got[k] # rest[l]
    BY Joined
  <2> HIDE DEF got, rest, g
  <2> QED BY <2>1, <2>2, <2>3, <2>4
<1>3. /\ \A x : Has(ch, x) <=> x = g \/ Has(rest, x)
      /\ \A k \in DOMAIN rest : /\ k + 1 \in DOMAIN ch /\ rest[k] = ch[k + 1] /\ k \in Nat
  BY HasMore DEF Items
<1>4. pd2[b] = got /\ \A c \in DOMAIN B : c # b => pd2[c] = pd[c]
  <2>1. DOMAIN B \subseteq 1 .. NP
    BY PartitionFacts
  <2> HIDE DEF got
  <2> QED BY <2>1 DEF Slots
<1> HIDE DEF got, rest, g, pd2
<1>5. ItemsRight(r, B, rest, pd2, st)
  BY <1>1, <1>2, <1>3, <1>4 DEF ItemsRight
<1>6. InOrder(B, rest, pd2)
  <2>1. \A k, l \in DOMAIN rest : k < l =>
            PassOf(rest[k]) <= PassOf(rest[l]) /\ rest[k] # rest[l]
    BY <1>1, <1>3 DEF InOrder
  <2>2. \A c \in DOMAIN B : \A k, l \in DOMAIN pd2[c] :
            PassOf(pd2[c][k]) = PassOf(pd2[c][l]) /\ (pd2[c][k] = pd2[c][l] => k = l)
    BY <1>1, <1>2, <1>4 DEF InOrder
  <2>3. \A c \in DOMAIN B : \A k \in DOMAIN pd2[c], l \in DOMAIN rest :
            PassOf(pd2[c][k]) <= PassOf(rest[l]) /\ pd2[c][k] # rest[l]
    BY <1>1, <1>2, <1>3, <1>4 DEF InOrder
  <2> QED BY <2>1, <2>2, <2>3 DEF InOrder
<1>7. \A x : Has(rest, x) \/ (\E c \in DOMAIN B : Has(pd2[c], x)) <=>
             Has(ch, x) \/ (\E c \in DOMAIN B : Has(pd[c], x))
  BY <1>2, <1>3, <1>4
<1>8. ToComeRight(r, B, rest, pd2, td, st)
  BY <1>1, <1>7 DEF ToComeRight
<1>9. \A x, i : Live(r, B, rest, pd2, td, st, x, i) <=> Live(r, B, ch, pd, td, st, x, i)
  BY <1>7 DEF Live
<1>10. \A c \in DOMAIN B : Len(pd2[c]) < Len(B[c])
  BY <1>1, <1>2, <1>4 DEF Closed
<1>11. Closed(r, B, rest, pd2, td, st)
  BY <1>1, <1>9, <1>10 DEF Closed
<1>12. Whole(r, B, rest, pd2, td, st)
  BY <1>5, <1>6, <1>8, <1>11 DEF Whole
<1> QED BY <1>12 DEF got, rest, g, pd2

\* got holds the gradients of the i-th pass for all the names, each once.
FullOf(r, names, got, i) ==
    /\ Len(got) = Len(names)
    /\ \A x : Has(got, x) <=> \E j \in DOMAIN names : x = Item(r, names[j], i)

\* The bucket is full: it is all of one pass, and nothing more of it is to come.
LEMMA FullBucket ==
    ASSUME NEW r \in Ranks, NEW B, Partition(B), NEW ch \in Items, NEW pd \in Slots,
           NEW st \in Nat, NEW td \in Names, Whole(r, B, ch, pd, td, st), ch # <<>>,
           NEW b \in DOMAIN B, Has(B[b], Head(ch).name), Len(pd[b]) + 1 >= Len(B[b])
    PROVE  FullOf(r, B[b], Append(pd[b], Head(ch)), PassOf(Head(ch)))
<1> DEFINE g == Head(ch)
           got == Append(pd[b], g)
           i == PassOf(g)
           nm == [n \in DOMAIN got |-> got[n].name]
<1>1. /\ pd[b] \in Items /\ got \in Items /\ Len(got) = Len(pd[b]) + 1 /\ Len(pd[b]) \in Nat
      /\ \A k \in DOMAIN got : /\ IsItem(r, got[k], st) /\ Has(B[b], got[k].name)
                               /\ PassOf(got[k]) = i
      /\ \A k, l \in DOMAIN got : got[k] = got[l] => k = l
  BY Joined
<1>2. B[b] \in Seq(Params) /\ Unrepeated(B[b]) /\ Len(B[b]) \in Nat
  <2>1. B[b] \in Seq(Params) /\ Unrepeated(B[b])
    BY PartitionFacts
  <2> QED BY <2>1
<1>3. Len(got) = Len(B[b])
  <2>1. Len(pd[b]) < Len(B[b])
    BY DEF Whole, Closed
  <2> QED BY <1>1, <1>2, <2>1
<1> HIDE DEF got, i
<1>4. \A k \in DOMAIN got : got[k] = Item(r, got[k].name, i)
  BY <1>1 DEF IsItem
<1>5. nm \in Seq(Params) /\ Len(nm) = Len(got) /\ DOMAIN nm = DOMAIN got
  <2>1. got \in Seq(Named)
    BY <1>1 DEF Items
  <2>2. \A n \in DOMAIN got : got[n].name \in Params
    <3> SUFFICES ASSUME NEW n \in DOMAIN got PROVE got[n].name \in Params
      OBVIOUS
    <3>1. got[n] \in Named
      BY <2>1
    <3> QED BY <3>1 DEF Named
  <2>3. DOMAIN got = 1 .. Len(got) /\ Len(got) \in Nat
    BY <2>1
  <2>4. nm \in Seq(Params) /\ DOMAIN nm = DOMAIN got
    BY <2>2, <2>3
  <2> HIDE DEF nm
  <2>5. Len(nm) = Len(got)
    BY <2>3, <2>4
  <2> QED BY <2>4, <2>5
<1>6. \A n \in DOMAIN got : nm[n] = got[n].name
  OBVIOUS
<1> HIDE DEF nm
<1>7. Unrepeated(nm)
  BY <1>1, <1>4, <1>5, <1>6 DEF Unrepeated
<1>8. \A j \in DOMAIN B[b] : Has(nm, B[b][j])
  <2>1. \A n \in DOMAIN nm : Has(B[b], nm[n])
    BY <1>1, <1>5, <1>6
  <2> QED BY <1>2, <1>3, <1>5, <1>7, <2>1, AllOfThem
<1>9. \A j \in DOMAIN B[b] : Has(got, Item(r, B[b][j], i))
  BY <1>4, <1>5, <1>6, <1>8 DEF Has
<1>10. ASSUME NEW x, Has(got, x) PROVE \E j \in DOMAIN B[b] : x = Item(r, B[b][j], i)
  <2>1. PICK k \in DOMAIN got : got[k] = x
    BY <1>10 DEF Has
  <2>2. PICK j \in DOMAIN B[b] : B[b][j] = got[k].name
    BY <1>1 DEF Has
  <2> QED BY <1>4, <2>1, <2>2
<1>11. \A x : Has(got, x) <=> \E j \in DOMAIN B[b] : x = Item(r, B[b][j], i)
  BY <1>9, <1>10
<1> QED BY <1>3, <1>11 DEF got, i, FullOf

LEMMA WholeReady ==
    ASSUME NEW r \in Ranks, NEW B, Partition(B), NEW ch \in Items, NEW pd \in Slots,
           NEW st \in Nat, NEW td \in Names, Whole(r, B, ch, pd, td, st), ch # <<>>,
           NEW b \in DOMAIN B, Has(B[b], Head(ch).name), Len(pd[b]) + 1 >= Len(B[b])
    PROVE  Whole(r, B, Tail(ch), [pd EXCEPT ![b] = <<>>], td, st)
<1> DEFINE g == Head(ch)
           got == Append(pd[b], g)
           rest == Tail(ch)
           pd2 == [pd EXCEPT ![b] = <<>>]
           i == PassOf(g)
<1>1. /\ ItemsRight(r, B, ch, pd, st) /\ InOrder(B, ch, pd)
      /\ ToComeRight(r, B, ch, pd, td, st) /\ Closed(r, B, ch, pd, td, st)
  BY DEF Whole
<1>2. /\ \A x : Has(got, x) <=> Has(pd[b], x) \/ x = g
      /\ \A k \in DOMAIN got, l \in DOMAIN rest : got[k] # rest[l]
  <2>1. \A x : Has(got, x) <=> Has(pd[b], x) \/ x = g
    BY Joined
  <2>2. \A k \in DOMAIN got, l \in DOMAIN rest : got[k] # rest[l]
    BY Joined
  <2> HIDE DEF got, rest, g
  <2> QED BY <2>1, <2>2
<1>3. \A x : Has(got, x) <=> \E j \in DOMAIN B[b] : x = Item(r, B[b][j], i)
  BY FullBucket DEF FullOf
<1>4. /\ \A x : Has(ch, x) <=> x = g \/ Has(rest, x)
      /\ \A k \in DOMAIN rest : /\ k + 1 \in DOMAIN ch /\ rest[k] = ch[k + 1] /\ k \in Nat
  BY HasMore DEF Items
<1>5. /\ DOMAIN B \subseteq 1 .. NP
      /\ \A c \in DOMAIN B : B[c] \in Seq(Params)
      /\ \A c \in DOMAIN B : \A x : Has(B[b], x) /\ Has(B[c], x) => b = c
  BY PartitionFacts
<1>6. pd2[b] = <<>> /\ DOMAIN pd2[b] = {} /\ \A c \in DOMAIN B : c # b => pd2[c] = pd[c]
  BY <1>5 DEF Slots
<1> HIDE DEF got, rest, g, pd2, i
<1>7. ItemsRight(r, B, rest, pd2, st)
  BY <1>1, <1>4, <1>6 DEF ItemsRight
<1>8. InOrder(B, rest, pd2)
  BY <1>1, <1>4, <1>6 DEF InOrder
<1>9. \A x : Has(rest, x) => Has(ch, x)
  BY <1>4
<1>10. \A c \in DOMAIN B : \A x : Has(pd2[c], x) => Has(pd[c], x) /\ c # b
  BY <1>6 DEF Has
<1>11. ToComeRight(r, B, rest, pd2, td, st)
  BY <1>1, <1>9, <1>10 DEF ToComeRight
<1>12. \A x, j : Live(r, B, rest, pd2, td, st, x, j) => Live(r, B, ch, pd, td, st, x, j)
  BY <1>9, <1>10 DEF Live
<1>13. \A x, j : Live(r, B, ch, pd, td, st, x, j) /\ ~Has(got, Item(r, x, j)) =>
                    Live(r, B, rest, pd2, td, st, x, j)
  BY <1>2, <1>4, <1>6 DEF Live
<1>14. ASSUME NEW x, NEW j, Live(r, B, rest, pd2, td, st, x, j)
       PROVE  ~Has(got, Item(r, x, j))
  <2>1. CASE Has(rest, Item(r, x, j))
    BY <1>2, <2>1 DEF Has
  <2>2. ASSUME NEW c \in DOMAIN B, Has(pd2[c], Item(r, x, j)) PROVE ~Has(got, Item(r, x, j))
    <3>1. Has(pd[c], Item(r, x, j)) /\ c # b
      BY <1>10, <2>2
    <3>2. Has(B[c], Item(r, x, j).name)
      BY <1>1, <3>1 DEF ItemsRight, Has
    <3>3. Has(B[c], x)
      BY <3>2, ItemFacts
    <3>4. SUFFICES ASSUME Has(got, Item(r, x, j)) PROVE FALSE
      OBVIOUS
    <3>5. PICK m \in DOMAIN B[b] : Item(r, x, j) = Item(r, B[b][m], i)
      BY <1>3, <3>4
    <3>6. x = B[b][m]
      BY <3>5, ItemFacts
    <3> QED BY <1>5, <3>1, <3>3, <3>6 DEF Has
  <2>3. CASE Has(td, x) /\ j = st
    <3>1. ~Has(ch, Item(r, x, j)) /\ ~Has(pd[b], Item(r, x, j))
      BY <1>1, <2>3 DEF ToComeRight, Has
    <3> QED BY <1>2, <1>4, <3>1
  <2> QED BY <1>14, <2>1, <2>2, <2>3 DEF Live
<1>15. \A c \in DOMAIN B : Len(pd2[c]) < Len(B[c])
  <2>1. Len(pd2[b]) = 0 /\ Len(B[b]) > 0
    <3>1. B[b] # <<>> /\ B[b] \in Seq(Params)
      BY <1>5 DEF Partition
    <3> QED BY <1>6, <3>1
  <2> QED BY <1>1, <1>6, <2>1 DEF Closed
<1>16. Closed(r, B, rest, pd2, td, st)
  <2> SUFFICES ASSUME NEW c \in DOMAIN B, NEW m \in DOMAIN B[c], NEW n \in DOMAIN B[c],
                      NEW j \in 1 .. st, Live(r, B, rest, pd2, td, st, B[c][m], j)
               PROVE  Live(r, B, rest, pd2, td, st, B[c][n], j)
    BY <1>15 DEF Closed
  <2>1. Live(r, B, ch, pd, td, st, B[c][n], j)
    BY <1>1, <1>12 DEF Closed
  <2>2. ~Has(got, Item(r, B[c][m], j))
    BY <1>14
  <2>3. ASSUME Has(got, Item(r, B[c][n], j)) PROVE FALSE
    <3>1. PICK l \in DOMAIN B[b] : Item(r, B[c][n], j) = Item(r, B[b][l], i)
      BY <1>3, <2>3
    <3>2. B[c][n] = B[b][l] /\ i = j
      BY <3>1, ItemFacts
    <3>3. c = b
      BY <1>5, <3>2 DEF Has
    <3>4. Has(got, Item(r, B[b][m], i))
      BY <1>3, <3>3
    <3> QED BY <2>2, <3>2, <3>3, <3>4
  <2> QED BY <1>13, <2>1, <2>3
<1>17. Whole(r, B, rest, pd2, td, st)
  BY <1>7, <1>8, <1>11, <1>16 DEF Whole
<1> QED BY <1>17 DEF rest, pd2

\* Whether a worker ever hands a bucket to a reduction.
Reduces == setup.bucketed /\ setup.permits > 0

RankWhole(r) == Whole(r, buckets[r], channel[r], pending[r], todo[r], Step(r))

WholeParts(r, parts) ==
    \E b \in DOMAIN buckets[r], i \in 1 .. MaxSteps :
        /\ Len(parts) = Len(buckets[r][b])
        /\ ToSet(parts) = {[name |-> p, grad |-> {<<r, p, i>>}] : p \in ToSet(buckets[r][b])}

RankReduced(r) == \A n \in DOMAIN reductions[r] : WholeParts(r, reductions[r][n].parts)

WInv ==
    /\ AInv
    /\ \A r \in Ranks : pc[r] # "backward" => todo[r] = <<>>
    /\ ~Reduces => \A r \in Ranks : reductions[r] = <<>>
    /\ AllUsed /\ Reduces => \A r \in Ranks : RankWhole(r) /\ RankReduced(r)

\* What the worker of a rank has to do with.
SameWork(r) ==
    /\ setup' = setup /\ buckets' = buckets
    /\ channel'[r] = channel[r] /\ pending'[r] = pending[r]
    /\ todo'[r] = todo[r] /\ uses'[r] = uses[r]
    /\ reductions'[r] = reductions[r]

LEMMA PartsKeep ==
    ASSUME NEW r \in Ranks, buckets' = buckets,
           \A n \in DOMAIN reductions'[r] : WholeParts(r, reductions'[r][n].parts)
    PROVE  RankReduced(r)'
<1> SUFFICES ASSUME NEW n \in DOMAIN reductions'[r]
             PROVE  WholeParts(r, reductions[r][n].parts)'
  BY DEF RankReduced
<1>1. WholeParts(r, reductions'[r][n].parts)
  OBVIOUS
<1> QED BY <1>1 DEF WholeParts

LEMMA SameWorkKeeps ==
    ASSUME NEW r \in Ranks, RankWhole(r), RankReduced(r), SameWork(r)
    PROVE  RankWhole(r)' /\ RankReduced(r)'
<1>1. RankWhole(r)'
  <2>1. /\ buckets'[r] = buckets[r] /\ channel'[r] = channel[r] /\ pending'[r] = pending[r]
        /\ todo'[r] = todo[r] /\ Len(uses'[r]) = Len(uses[r])
    BY DEF SameWork
  <2>2. Whole(r, buckets[r], channel[r], pending[r], todo[r], Len(uses[r]))
    BY DEF RankWhole, Step
  <2>3. Whole(r, buckets'[r], channel'[r], pending'[r], todo'[r], Len(uses'[r]))
    BY <2>1, <2>2
  <2> QED BY <2>3 DEF RankWhole, Step
<1>2. RankReduced(r)'
  <2>1. \A n \in DOMAIN reductions'[r] : WholeParts(r, reductions'[r][n].parts)
    BY DEF RankReduced, SameWork
  <2> QED BY <2>1, PartsKeep DEF SameWork
<1> QED BY <1>1, <1>2

LEMMA WorkFacts ==
    ASSUME WInv, AllUsed, Reduces, NEW r \in Ranks
    PROVE  /\ AInv /\ TInv /\ Typed /\ RankWhole(r) /\ RankReduced(r) /\ Partition(buckets[r])
           /\ pc[r] # "backward" => todo[r] = <<>>
           /\ channel[r] \in Items /\ pending[r] \in Slots /\ todo[r] \in Names
           /\ Step(r) \in Nat /\ uses[r] \in Seq(SUBSET Params) /\ reductions[r] \in Reductions
<1>1. AInv /\ TInv /\ Typed
  BY DEF WInv, AInv, TInv
<1>2. Partition(buckets[r])
  BY <1>1 DEF TInv, BucketsRight, Reduces
<1>3. uses[r] \in Seq(SUBSET Params)
  BY <1>1 DEF Typed, UseSeq
<1>4. Step(r) \in Nat
  BY <1>3 DEF Step
<1> QED BY <1>1, <1>2, <1>3, <1>4 DEF WInv, Typed

LEMMA BackwardWhole ==
    ASSUME WInv, AllUsed, Reduces, AllUsed', NEW r \in Ranks, Backward(r)
    PROVE  RankWhole(r)' /\ RankReduced(r)'
<1>1. PICK use \in setup.useSets :
         /\ uses' = [uses EXCEPT ![r] = Append(@, use)]
         /\ todo' = [todo EXCEPT ![r] =
                        IF setup.overlap THEN Among(setup.arrival[r], use) ELSE <<>>]
  BY DEF Backward
<1>2. /\ pc[r] = "idle" /\ todo[r] = <<>>
      /\ UNCHANGED <<setup, buckets, channel, pending, reductions>>
  BY WorkFacts DEF Backward
<1>3. /\ uses'[r] = Append(uses[r], use)
      /\ todo'[r] = IF setup.overlap THEN Among(setup.arrival[r], use) ELSE <<>>
  BY <1>1, WorkFacts DEF Typed
<1>4. /\ Step(r)' = Step(r) + 1 /\ Step(r)' \in DOMAIN uses'[r]
      /\ uses'[r][Step(r)'] = use
  BY <1>3, WorkFacts DEF Step
<1>5. use = Params
  BY <1>4 DEF AllUsed
<1>6. todo'[r] \in Names /\ Unrepeated(todo'[r])
      /\ (todo'[r] = <<>> \/ \A p \in Params : Has(todo'[r], p))
  <2> DEFINE o == setup.arrival[r]
             S == Params
             a == Among(o, S)
  <2>1. o \in Orders
    BY WorkFacts, SetupFacts
  <2>2. o \in Seq(Params) /\ Unrepeated(o) /\ \A p \in Params : \E j \in DOMAIN o : o[j] = p
    BY <2>1, OrderUnrepeated, OrderFacts
  <2> HIDE DEF o, S
  <2>9. o \in Seq(Params) /\ Unrepeated(o)
    BY <2>2
  <2>10. /\ Among(o, S) \in Seq(Params)
         /\ Unrepeated(Among(o, S))
         /\ \A j \in DOMAIN o : o[j] \in S =>
               \E i \in DOMAIN Among(o, S) : Among(o, S)[i] = o[j]
    BY ONLY <2>9, AmongFacts
  <2>3. /\ a \in Seq(Params) /\ Unrepeated(a)
        /\ \A j \in DOMAIN o : o[j] \in S => \E i \in DOMAIN a : a[i] = o[j]
    BY <2>10
  <2> HIDE DEF a
  <2>4. \A p \in Params : Has(a, p)
    BY <2>2, <2>3 DEF Has, S
  <2>5. <<>> \in Names /\ Unrepeated(<<>>)
    BY Tails DEF Unrepeated
  <2>6. todo'[r] = a \/ todo'[r] = <<>>
    BY <1>3, <1>5 DEF a, o, S
  <2> QED BY <2>3, <2>4, <2>5, <2>6 DEF Names
<1>7. Whole(r, buckets[r], channel[r], pending[r], <<>>, Step(r))
  BY <1>2, WorkFacts DEF RankWhole
<1>8. Whole(r, buckets[r], channel[r], pending[r], todo'[r], Step(r) + 1)
  BY <1>6, <1>7, WorkFacts, WholeBackward
<1>9. RankWhole(r)'
  BY <1>2, <1>4, <1>8
     DEF RankWhole
<1>10. RankReduced(r)'
  BY <1>2, WorkFacts, PartsKeep DEF RankReduced
<1> QED BY <1>9, <1>10

LEMMA RegisterWhole ==
    ASSUME WInv, AllUsed, Reduces, NEW r \in Ranks, Register(r)
    PROVE  RankWhole(r)' /\ RankReduced(r)'
<1> DEFINE p == Head(todo[r])
<1>1. /\ pc[r] = "backward" /\ todo[r] # <<>>
      /\ channel'[r] = Append(channel[r], [name |-> p, grad |-> grad[r][p]])
      /\ todo'[r] = Tail(todo[r])
      /\ UNCHANGED <<setup, buckets, uses, pending, reductions>>
  BY WorkFacts DEF Register, Typed
<1>2. Step(r) \in Nat \ {0} /\ \A x \in Params : grad[r][x] = Fresh(r, x)
  BY <1>1, WorkFacts, RightFacts DEF GradRight
<1>3. p \in Params
  BY <1>1, WorkFacts, Tails
<1>4. uses[r][Step(r)] = Params
  BY <1>2, WorkFacts DEF AllUsed, Step
<1>5. [name |-> p, grad |-> grad[r][p]] = Item(r, p, Step(r))
  BY <1>2, <1>3, <1>4 DEF Fresh, Item
<1>6. Whole(r, buckets[r], Append(channel[r], Item(r, p, Step(r))), pending[r], Tail(todo[r]),
            Step(r))
  BY <1>1, <1>2, WorkFacts, WholeRegister DEF RankWhole
<1>7. Whole(r, buckets[r], channel'[r], pending[r], todo'[r], Step(r))
  BY <1>1, <1>5, <1>6
<1>8. RankWhole(r)'
  BY <1>1, <1>7
     DEF RankWhole, Step
<1>9. RankReduced(r)'
  BY <1>1, WorkFacts, PartsKeep DEF RankReduced
<1> QED BY <1>8, <1>9

LEMMA ReceiveWhole ==
    ASSUME WInv, AllUsed, Reduces, NEW r \in Ranks, WorkerReceive(r)
    PROVE  RankWhole(r)' /\ RankReduced(r)'
<1> DEFINE g == Head(channel[r])
           b == BucketOf(r, g.name)
           got == Append(pending[r][b], g)
           B == buckets[r]
           pd == pending[r]
           ch == channel[r]
<1>0. /\ RankReduced(r) /\ Partition(B) /\ ch \in Items /\ pd \in Slots
      /\ todo[r] \in Names /\ Step(r) \in Nat /\ reductions[r] \in Reductions
  BY WorkFacts
<1>1. /\ channel[r] # <<>> /\ channel'[r] = Tail(channel[r])
      /\ UNCHANGED <<setup, buckets, uses, todo>>
      /\ \/ /\ Ready(r, b, Len(got))
            /\ reductions'[r] = Append(reductions[r], [parts |-> got, tag |-> NoTag])
            /\ pending'[r] = [pending[r] EXCEPT ![b] = <<>>]
         \/ /\ ~Ready(r, b, Len(got))
            /\ pending'[r] = [pending[r] EXCEPT ![b] = got] /\ reductions'[r] = reductions[r]
  BY WorkFacts DEF WorkerReceive, Typed, mainVars, LeftPending
<1>2. g \in Named
  BY <1>1, WorkFacts, Tails
<1>3. b \in DOMAIN B /\ Has(B[b], g.name)
  <2>1. g.name \in Params
    BY <1>2 DEF Named
  <2>2. b \in DOMAIN B /\ g.name \in ToSet(B[b])
    BY <2>1, WorkFacts, BucketOfTyped DEF Reduces
  <2> QED BY <2>2 DEF ToSet, Has
<1>4. Whole(r, B, channel[r], pending[r], todo[r], Step(r))
  BY WorkFacts DEF RankWhole
<1>5. pending[r][b] \in Items /\ Len(got) = Len(pending[r][b]) + 1 /\ Len(got) \in Nat
  <2>1. b \in 1 .. NP
    BY BucketOfTyped, WorkFacts
  <2>2. pending[r][b] \in Seq(Named)
    BY <2>1, WorkFacts DEF Slots, Items
  <2> QED BY <2>2 DEF Items
<1>6. Ready(r, b, Len(got)) <=> Len(got) >= Len(B[b])
  <2>1. Len(B[b]) \in Nat \ {0}
    <3>1. B[b] \in Seq(Params) /\ B[b] # <<>>
      BY <1>3, WorkFacts, PartitionFacts DEF Partition
    <3> QED BY <3>1
  <2> HIDE DEF got, b
  <2> QED BY <1>3, <1>5, <2>1 DEF Ready, ExpectedCount
<1>7. Len(B[b]) \in Nat
  <2>1. B[b] \in Seq(Params)
    BY <1>3, WorkFacts, PartitionFacts
  <2> QED BY <2>1
<1> HIDE DEF b, g
<1>8. CASE Ready(r, b, Len(got))
  <2>1. /\ reductions'[r] = Append(reductions[r], [parts |-> got, tag |-> NoTag])
        /\ pending'[r] = [pending[r] EXCEPT ![b] = <<>>]
    BY <1>1, <1>8 DEF b, g
  <2>2. Len(pending[r][b]) + 1 >= Len(B[b])
    BY <1>5, <1>6, <1>8
  <2>11. ch # <<>> /\ Has(B[b], Head(ch).name) /\ Len(pd[b]) + 1 >= Len(B[b])
         /\ Whole(r, B, ch, pd, todo[r], Step(r)) /\ b \in DOMAIN B
    BY <1>1, <1>3, <1>4, <2>2 DEF g
  <2>3. Whole(r, B, channel'[r], pending'[r], todo[r], Step(r))
    <3> HIDE DEF B, pd, ch
    <3>1. Whole(r, B, Tail(ch), [pd EXCEPT ![b] = <<>>], todo[r], Step(r))
      BY <1>0, <1>3, <1>4, <2>2, <2>11, WholeReady
    <3> QED BY <1>1, <2>1, <3>1 DEF ch, pd
  <2>4. RankWhole(r)'
    BY <1>1, <2>3
       DEF RankWhole, Step
  <2> DEFINE i == PassOf(g)
  <2>5. /\ Len(got) = Len(B[b])
        /\ \A x : Has(got, x) <=> \E j \in DOMAIN B[b] : x = Item(r, B[b][j], i)
    <3> HIDE DEF B, pd, ch, got, i
    <3>1. FullOf(r, B[b], Append(pd[b], Head(ch)), PassOf(Head(ch)))
      BY <1>0, <2>11, FullBucket
    <3>2. FullOf(r, B[b], got, i)
      BY <3>1 DEF g, ch, got, i, pd
    <3> QED BY <3>2 DEF FullOf
  <2>6. i \in 1 .. MaxSteps
    <3>1. IsItem(r, g, Step(r))
      BY <1>1, <1>4, HasMore, WorkFacts DEF Whole, ItemsRight, g, Items
    <3>2. g.grad = {<<r, g.name, i>>}
      BY <3>1, ItemFacts DEF IsItem
    <3>3. g.grad \in Gradient
      BY <1>2 DEF Named
    <3> HIDE DEF i
    <3> QED BY <3>2, <3>3 DEF Gradient
  <2> HIDE DEF i, got
  <2>7. ToSet(got) = {[name |-> p, grad |-> {<<r, p, i>>}] : p \in ToSet(B[b])}
    <3>1. \A x : x \in ToSet(got) <=> Has(got, x)
      BY DEF ToSet, Has
    <3>2. \A x : x \in ToSet(got) <=> \E p \in ToSet(B[b]) : x = Item(r, p, i)
      BY <2>5, <3>1 DEF ToSet
    <3> QED BY <3>2 DEF Item
  <2>8. WholeParts(r, got)
    BY <1>3, <2>5, <2>6, <2>7 DEF WholeParts
  <2>9. \A n \in DOMAIN reductions'[r] : \/ /\ n \in DOMAIN reductions[r]
                                            /\ reductions'[r][n] = reductions[r][n]
                                         \/ reductions'[r][n].parts = got
    BY <2>1, WorkFacts, AppendFacts DEF Reductions
  <2>10. RankReduced(r)'
    BY <1>0, <1>1, <2>8, <2>9, PartsKeep DEF RankReduced
  <2> QED BY <2>4, <2>10
<1>9. CASE ~Ready(r, b, Len(got))
  <2>1. reductions'[r] = reductions[r] /\ pending'[r] = [pending[r] EXCEPT ![b] = got]
    BY <1>1, <1>9 DEF b, g
  <2>2. Len(pending[r][b]) + 1 < Len(B[b])
    BY <1>5, <1>6, <1>7, <1>9
  <2>11. ch # <<>> /\ Has(B[b], Head(ch).name) /\ Len(pd[b]) + 1 < Len(B[b])
         /\ Whole(r, B, ch, pd, todo[r], Step(r)) /\ b \in DOMAIN B
    BY <1>1, <1>3, <1>4, <2>2 DEF g
  <2>3. Whole(r, B, channel'[r], pending'[r], todo[r], Step(r))
    <3> HIDE DEF B, pd, ch
    <3>1. Whole(r, B, Tail(ch), [pd EXCEPT ![b] = Append(pd[b], Head(ch))], todo[r], Step(r))
      BY <1>0, <1>3, <1>4, <2>2, <2>11, WholeFile
    <3> QED BY <1>1, <2>1, <3>1 DEF ch, pd, g
  <2>4. RankWhole(r)'
    BY <1>1, <2>3
       DEF RankWhole, Step
  <2>5. RankReduced(r)'
    BY <1>0, <1>1, <2>1, PartsKeep DEF RankReduced
  <2> QED BY <2>4, <2>5
<1> QED BY <1>8, <1>9

\* A reduction that gets a tag, or ends, keeps its parts.
LEMMA TagParts ==
    ASSUME NEW rs \in Reductions, NEW n \in DOMAIN rs, NEW t \in Nat \union {Ended}
    PROVE  /\ DOMAIN [rs EXCEPT ![n].tag = t] = DOMAIN rs
           /\ \A m \in DOMAIN rs : [rs EXCEPT ![n].tag = t][m].parts = rs[m].parts
<1> DEFINE e == [rs[n] EXCEPT !.tag = t]
<1>1. rs[n] \in Reduction /\ rs = [m \in DOMAIN rs |-> rs[m]]
  BY DEF Reductions
<1>2. e.parts = rs[n].parts
  BY <1>1 DEF Reduction
<1>3. [rs EXCEPT ![n].tag = t] = [rs EXCEPT ![n] = e]
  OBVIOUS
<1> HIDE DEF e
<1>4. /\ DOMAIN [rs EXCEPT ![n] = e] = DOMAIN rs /\ [rs EXCEPT ![n] = e][n] = e
      /\ \A m \in DOMAIN rs : m # n => [rs EXCEPT ![n] = e][m] = rs[m]
  BY <1>1
<1> QED BY <1>2, <1>3, <1>4

LEMMA ReductionWhole ==
    ASSUME WInv, AllUsed, Reduces, NEW r \in Ranks, ReductionStep(r)
    PROVE  RankWhole(r)' /\ RankReduced(r)'
<1>1. PICK n \in DOMAIN reductions[r] : ReductionStart(r, n) \/ ReductionEnd(r, n)
  BY DEF ReductionStep
<1>2. UNCHANGED <<setup, buckets, uses, todo, channel, pending>>
  BY <1>1 DEF ReductionStart, ReductionEnd, mainVars
<1>3. PICK t \in Nat \union {Ended} : reductions'[r] = [reductions[r] EXCEPT ![n].tag = t]
  <2>1. Len(calls[r]) + 1 \in Nat
    <3>1. calls[r] \in CallSeq
      BY WorkFacts DEF Typed
    <3> QED BY <3>1 DEF CallSeq
  <2>2. \/ reductions' = [reductions EXCEPT ![r][n].tag = Len(calls[r]) + 1]
        \/ reductions' = [reductions EXCEPT ![r][n].tag = Ended]
    BY <1>1 DEF ReductionStart, ReductionEnd
  <2>3. reductions \in [Ranks -> Reductions]
    BY WorkFacts DEF Typed
  <2> QED BY <2>1, <2>2, <2>3
<1>4. /\ DOMAIN reductions'[r] = DOMAIN reductions[r]
      /\ \A m \in DOMAIN reductions[r] : reductions'[r][m].parts = reductions[r][m].parts
  BY <1>3, WorkFacts, TagParts
<1>5. \A m \in DOMAIN reductions'[r] : WholeParts(r, reductions'[r][m].parts)
  BY <1>4, WorkFacts DEF RankReduced
<1>6. RankReduced(r)'
  BY <1>2, <1>5, PartsKeep
<1>7. RankWhole(r)'
  BY <1>2, WorkFacts
     DEF RankWhole, Step
<1> QED BY <1>6, <1>7

\* What a rank does that its worker has nothing to do with.
LEMMA OtherSteps ==
    ASSUME NEW r \in Ranks, EndBackward(r) \/ BeginSync(r) \/ InSync(r)
    PROVE  \A q \in Ranks : SameWork(q)
BY DEF SameWork, EndBackward, BeginSync, InSync, MainSkips, MainReduce, MainReduced, MainFails,
       EndSync, mainVars

LEMMA OtherRanks ==
    ASSUME Typed, NEW r \in Ranks,
           Backward(r) \/ InBackward(r) \/ InSync(r) \/ WorkerStep(r) \/ ReductionStep(r),
           NEW q \in Ranks \ {r}
    PROVE  SameWork(q)
BY DEF Typed, SameWork, Backward, InBackward, Register, EndBackward, BeginSync, InSync,
       MainSkips, MainReduce, MainReduced, MainFails, EndSync, WorkerStep, WorkerReceive,
       WorkerDrop, ReductionStep, ReductionStart, ReductionEnd, mainVars

\* What every pass gave before there was one more.
LEMMA UsedBefore ==
    ASSUME Typed, NEW r \in Ranks,
           Backward(r) \/ InBackward(r) \/ InSync(r) \/ WorkerStep(r) \/ ReductionStep(r),
           AllUsed'
    PROVE  AllUsed
<1>1. CASE uses' = uses
  BY <1>1 DEF AllUsed
<1>2. CASE Backward(r)
  <2>1. PICK use \in setup.useSets : uses' = [uses EXCEPT ![r] = Append(@, use)]
    BY <1>2 DEF Backward
  <2> SUFFICES ASSUME NEW q \in Ranks, NEW i \in DOMAIN uses[q] PROVE uses[q][i] = Params
    BY DEF AllUsed
  <2>2. uses[q] \in Seq(SUBSET Params) /\ uses \in [Ranks -> UseSeq]
    BY DEF Typed, UseSeq
  <2>3. i \in DOMAIN uses'[q] /\ uses'[q][i] = uses[q][i]
    <3>1. CASE q # r
      BY <2>1, <2>2, <3>1
    <3>2. CASE q = r
      <4>1. uses'[q] = Append(uses[q], use)
        BY <2>1, <2>2, <3>2
      <4>2. /\ DOMAIN uses[q] = 1 .. Len(uses[q]) /\ Len(uses[q]) \in Nat
            /\ DOMAIN Append(uses[q], use) = 1 .. Len(uses[q]) + 1
            /\ \A k \in 1 .. Len(uses[q]) : Append(uses[q], use)[k] = uses[q][k]
        BY <2>2, AppendFacts
      <4> QED BY <4>1, <4>2
    <3> QED BY <3>1, <3>2
  <2> QED BY <2>3 DEF AllUsed
<1>3. uses' = uses \/ Backward(r)
  BY DEF InBackward, Register, EndBackward, BeginSync, InSync, MainSkips, MainReduce,
         MainReduced, MainFails, EndSync, WorkerStep, WorkerReceive, WorkerDrop, ReductionStep,
         ReductionStart, ReductionEnd, mainVars
<1> QED BY <1>1, <1>2, <1>3

\* Gradients are registered in the backward pass only.
LEMMA TodoKeeps ==
    ASSUME Typed, \A q \in Ranks : pc[q] # "backward" => todo[q] = <<>>, NEW r \in Ranks,
           Backward(r) \/ InBackward(r) \/ InSync(r) \/ WorkerStep(r) \/ ReductionStep(r)
    PROVE  \A q \in Ranks : pc'[q] # "backward" => todo'[q] = <<>>
<1>1. CASE Backward(r)
  BY <1>1 DEF Typed, Backward
<1>2. CASE Register(r)
  BY <1>2 DEF Typed, Register
<1>3. CASE EndBackward(r) \/ BeginSync(r)
  BY <1>3 DEF Typed, EndBackward, BeginSync
<1>4. CASE EndSync(r)
  BY <1>4 DEF Typed, EndSync
<1>5. CASE UNCHANGED <<pc, todo>>
  BY <1>5
<1> QED BY <1>1, <1>2, <1>3, <1>4, <1>5
        DEF InBackward, InSync, MainSkips, MainReduce, MainReduced, MainFails, WorkerStep,
            WorkerReceive, WorkerDrop, ReductionStep, ReductionStart, ReductionEnd, mainVars

\* Without buckets or permits there is nothing to reduce.
LEMMA IdleKeeps ==
    ASSUME TInv, ~Reduces, \A q \in Ranks : reductions[q] = <<>>, NEW r \in Ranks,
           Backward(r) \/ InBackward(r) \/ InSync(r) \/ WorkerStep(r) \/ ReductionStep(r)
    PROVE  \A q \in Ranks : reductions'[q] = <<>>
<1>1. ASSUME WorkerReceive(r) PROVE reductions' = reductions
  <2>1. setup.permits > 0
    BY <1>1 DEF WorkerReceive
  <2>2. buckets[r] = <<>>
    BY <2>1, BucketFacts DEF Reduces
  <2>3. \A b, n : ~Ready(r, b, n)
    BY <2>2 DEF Ready, ExpectedCount
  <2> QED BY <1>1, <2>3 DEF WorkerReceive
<1>2. ~ReductionStep(r)
  BY DEF ReductionStep
<1> QED BY <1>1, <1>2
        DEF Backward, InBackward, Register, EndBackward, BeginSync, InSync, MainSkips,
            MainReduce, MainReduced, MainFails, EndSync, WorkerStep, WorkerDrop

LEMMA StepWhole ==
    ASSUME WInv, AInv', NEW r \in Ranks,
           Backward(r) \/ InBackward(r) \/ InSync(r) \/ WorkerStep(r) \/ ReductionStep(r)
    PROVE  WInv'
<1>0. TInv /\ Typed
  BY DEF WInv, AInv, TInv
<1>1. setup' = setup
  BY DEF Backward, InBackward, Register, EndBackward, BeginSync, InSync, MainSkips, MainReduce,
         MainReduced, MainFails, EndSync, WorkerStep, WorkerReceive, WorkerDrop, ReductionStep,
         ReductionStart, ReductionEnd
<1>2. \A q \in Ranks : pc'[q] # "backward" => todo'[q] = <<>>
  BY <1>0, TodoKeeps DEF WInv
<1>3. ~Reduces' => \A q \in Ranks : reductions'[q] = <<>>
  BY <1>0, <1>1, IdleKeeps DEF WInv, Reduces
<1>4. ASSUME AllUsed', Reduces', NEW q \in Ranks PROVE RankWhole(q)' /\ RankReduced(q)'
  <2>1. AllUsed /\ Reduces
    BY <1>0, <1>1, <1>4, UsedBefore DEF Reduces
  <2>2. RankWhole(q) /\ RankReduced(q)
    BY <2>1, WorkFacts
  <2>3. CASE q # r
    BY <1>0, <2>2, <2>3, OtherRanks, SameWorkKeeps
  <2>4. CASE q = r
    <3>1. CASE EndBackward(r) \/ BeginSync(r) \/ InSync(r)
      BY <2>2, <2>4, <3>1, OtherSteps, SameWorkKeeps
    <3>2. ~WorkerDrop(r)
      BY <2>1 DEF WorkerDrop, Reduces
    <3>3. CASE Backward(r)
      BY <1>4, <2>1, <2>4, <3>3, BackwardWhole
    <3>4. CASE Register(r)
      BY <2>1, <2>4, <3>4, RegisterWhole
    <3>5. CASE WorkerReceive(r)
      BY <2>1, <2>4, <3>5, ReceiveWhole
    <3>6. CASE ReductionStep(r)
      BY <2>1, <2>4, <3>6, ReductionWhole
    <3> QED BY <3>1, <3>2, <3>3, <3>4, <3>5, <3>6 DEF InBackward, WorkerStep
  <2> QED BY <2>3, <2>4
<1> QED BY <1>2, <1>3, <1>4 DEF WInv

LEMMA NextWhole == WInv /\ CInv /\ [Next]_vars => WInv'
<1> SUFFICES ASSUME WInv, CInv, [Next]_vars PROVE WInv'
  OBVIOUS
<1>1. AInv'
  BY NextRight DEF WInv
<1>2. CASE Next
  BY <1>1, <1>2, StepWhole DEF Next
<1>3. CASE UNCHANGED vars
  <2>1. \A q \in Ranks : SameWork(q)
    BY <1>3 DEF vars, SameWork
  <2>2. AllUsed' <=> AllUsed
    BY <1>3 DEF vars, AllUsed
  <2>3. Reduces' <=> Reduces
    BY <1>3 DEF vars, Reduces
  <2>4. ASSUME AllUsed, Reduces, NEW q \in Ranks PROVE RankWhole(q)' /\ RankReduced(q)'
    BY <2>1, <2>4, SameWorkKeeps DEF WInv
  <2> QED BY <1>1, <1>3, <2>2, <2>3, <2>4 DEF WInv, vars
<1> QED BY <1>2, <1>3

LEMMA InitWhole == Init => WInv
<1> SUFFICES ASSUME Init PROVE WInv
  OBVIOUS
<1>1. AInv
  BY InitRight
<1>2. ASSUME Reduces, NEW r \in Ranks PROVE RankWhole(r) /\ RankReduced(r)
  <2>1. /\ channel[r] = <<>> /\ todo[r] = <<>> /\ reductions[r] = <<>> /\ Step(r) = 0
        /\ pending[r] = [b \in 1 .. NP |-> <<>>]
    BY DEF Init, Step, NP
  <2>2. Partition(buckets[r])
    BY <1>1, <1>2 DEF AInv, TInv, BucketsRight, Reduces
  <2>3. DOMAIN buckets[r] \subseteq 1 .. NP
    <3>1. buckets[r] \in Seq(Seq(Params)) /\ Len(buckets[r]) \in 1 .. NP /\ NP \in Nat
      BY <2>2, ParamsCount DEF Partition
    <3> QED BY <3>1
  <2>4. \A b \in DOMAIN buckets[r] : pending[r][b] = <<>> /\ 0 < Len(buckets[r][b])
    <3> SUFFICES ASSUME NEW b \in DOMAIN buckets[r]
                 PROVE  pending[r][b] = <<>> /\ 0 < Len(buckets[r][b])
      OBVIOUS
    <3>1. buckets[r][b] \in Seq(Params) /\ buckets[r][b] # <<>>
      BY <2>2, PartitionFacts DEF Partition
    <3> QED BY <2>1, <2>3, <3>1
  <2>5. RankWhole(r)
    <3> DEFINE B == buckets[r]
               pd == pending[r]
    <3>1. /\ \A b \in DOMAIN B : pd[b] = <<>> /\ DOMAIN pd[b] = {} /\ Len(pd[b]) < Len(B[b])
          /\ DOMAIN <<>> = {} /\ 1 .. 0 = {}
      BY <2>4
    <3> HIDE DEF B, pd
    <3>2. ItemsRight(r, B, <<>>, pd, 0) /\ InOrder(B, <<>>, pd)
      BY <3>1 DEF ItemsRight, InOrder
    <3>3. ToComeRight(r, B, <<>>, pd, <<>>, 0)
      BY <3>1 DEF ToComeRight, Unrepeated
    <3>4. Closed(r, B, <<>>, pd, <<>>, 0)
      BY <3>1 DEF Closed
    <3>5. Whole(r, B, <<>>, pd, <<>>, 0)
      BY <3>2, <3>3, <3>4 DEF Whole
    <3> QED BY <2>1, <3>5 DEF RankWhole, B, pd
  <2>6. RankReduced(r)
    BY <2>1 DEF RankReduced
  <2> QED BY <2>5, <2>6
<1>3. \A r \in Ranks : todo[r] = <<>> /\ reductions[r] = <<>>
  BY DEF Init
<1> QED BY <1>1, <1>2, <1>3 DEF WInv

LEMMA WholeIsWhole == WInv => WholeBuckets
<1> SUFFICES ASSUME WInv, AllUsed, NEW r \in Ranks, NEW n \in DOMAIN reductions[r]
             PROVE  WholeParts(r, reductions[r][n].parts)
  BY DEF WholeBuckets, WholeParts
<1>1. Reduces
  BY DEF WInv
<1> QED BY <1>1, WorkFacts DEF RankReduced

\* A reduction that the worker hands out holds every gradient of its bucket
\* exactly once, all from one backward pass, if every pass registers every
\* gradient: however far the worker lags behind the passes.
THEOREM WholeReductions == Spec => []WholeBuckets
BY InitWhole, NextWhole, InitCalls, NextCalls, WholeIsWhole, PTL DEF Spec
-----------------------------------------------------------------------------
(* In step.                                                                 *)

\* The call c is about the d[2]-th bucket of the d[1]-th backward pass.
At(B, us, c, d) == c.step = d[1] /\ NamesOf(c.parts) = Among(B[d[2]], us[d[1]])

Ahead(d, e) == d[1] < e[1] \/ (d[1] = e[1] /\ d[2] < e[2])

Pairs(I, J) == I \X J

Work(B, us) == Pairs(DOMAIN us, DOMAIN B)

\* The calls are those for D, in its order: none for a bucket without gradients.
Listed(B, us, cs, D) ==
    /\ \A k \in DOMAIN cs : /\ cs[k].by = 0 /\ cs[k].parts # <<>>
                            /\ \E d \in D : At(B, us, cs[k], d)
    /\ \A k, l \in DOMAIN cs : \A d, e \in D :
          k < l /\ At(B, us, cs[k], d) /\ At(B, us, cs[l], e) => Ahead(d, e)
    /\ \A d \in D : Among(B[d[2]], us[d[1]]) # <<>> => \E k \in DOMAIN cs : At(B, us, cs[k], d)

Downward(B, us, D) ==
    D \subseteq Work(B, us) /\ \A e \in D : \A d \in Work(B, us) : Ahead(d, e) => d \in D

LEMMA NamesFacts ==
    ASSUME NEW parts \in Seq(Named), parts # <<>>
    PROVE  NamesOf(parts) # <<>> /\ DOMAIN NamesOf(parts) = DOMAIN parts /\ 1 \in DOMAIN parts
<1>1. DOMAIN NamesOf(parts) = DOMAIN parts /\ 1 \in DOMAIN parts
  BY DEF NamesOf
<1>2. DOMAIN <<>> = {}
  OBVIOUS
<1> QED BY <1>1, <1>2

LEMMA InPairs ==
    ASSUME NEW I, NEW J
    PROVE  /\ \A d \in Pairs(I, J) : d[1] \in I /\ d[2] \in J /\ d = <<d[1], d[2]>>
           /\ \A i \in I, j \in J : <<i, j>> \in Pairs(I, J)
           /\ \A d, e \in Pairs(I, J) : d[1] = e[1] /\ d[2] = e[2] => d = e
<1>2. \A d \in I \X J : d[1] \in I /\ d[2] \in J /\ d = <<d[1], d[2]>>
  OBVIOUS
<1>3. \A i \in I, j \in J : <<i, j>> \in I \X J
  OBVIOUS
<1>4. \A d, e \in I \X J : d[1] = e[1] /\ d[2] = e[2] => d = e
  BY <1>2
<1> QED BY <1>2, <1>3, <1>4 DEF Pairs

LEMMA InWork ==
    ASSUME NEW B, NEW us
    PROVE  /\ \A d \in Work(B, us) : d[1] \in DOMAIN us /\ d[2] \in DOMAIN B
                                     /\ d = <<d[1], d[2]>>
           /\ \A i \in DOMAIN us, b \in DOMAIN B : <<i, b>> \in Work(B, us)
           /\ \A d, e \in Work(B, us) : d[1] = e[1] /\ d[2] = e[2] => d = e
BY InPairs DEF Work

\* A call that is not empty is about one bucket of one pass.
LEMMA AtOne ==
    ASSUME NEW B, Partition(B), NEW us, NEW c \in Call, c.parts # <<>>,
           NEW d \in Work(B, us), NEW e \in Work(B, us), At(B, us, c, d), At(B, us, c, e)
    PROVE  d = e
<1> DEFINE names == NamesOf(c.parts)
           S == us[d[1]]
           a == B[d[2]]
           b == B[e[2]]
<1>1. d[1] = e[1]
  BY DEF At
<1>2. names = Among(a, S) /\ names = Among(b, S)
  BY <1>1 DEF At
<1>3. c.parts \in Seq(Named)
  BY DEF Call
<1>4. 1 \in DOMAIN names
  BY <1>3, NamesFacts
<1>5. a \in Seq(Params) /\ Unrepeated(a) /\ b \in Seq(Params) /\ Unrepeated(b)
  BY PartitionFacts, InWork
<1> HIDE DEF names, S, a, b
<1>6. \A i \in DOMAIN Among(a, S) : \E j \in DOMAIN a : a[j] = Among(a, S)[i]
  BY <1>5, AmongFacts
<1>7. \A i \in DOMAIN Among(b, S) : \E j \in DOMAIN b : b[j] = Among(b, S)[i]
  BY <1>5, AmongFacts
<1>8. Has(a, names[1]) /\ Has(b, names[1])
  BY <1>2, <1>4, <1>6, <1>7 DEF Has
<1>9. d[2] \in DOMAIN B /\ e[2] \in DOMAIN B
  BY InWork
<1>10. d[2] = e[2]
  BY <1>8, <1>9, PartitionFacts DEF a, b
<1> QED BY <1>1, <1>10, InWork

\* Another bucket of which there is nothing to reduce.
LEMMA ListedEmpty ==
    ASSUME NEW B, NEW us, NEW cs \in CallSeq, NEW D, NEW d, Listed(B, us, cs, D),
           Among(B[d[2]], us[d[1]]) = <<>>
    PROVE  Listed(B, us, cs, D \union {d})
<1>1. \A k \in DOMAIN cs : ~At(B, us, cs[k], d)
  <2> SUFFICES ASSUME NEW k \in DOMAIN cs, At(B, us, cs[k], d) PROVE FALSE
    OBVIOUS
  <2>1. cs[k] \in Call /\ cs[k].parts # <<>>
    BY DEF Listed, CallSeq
  <2>2. NamesOf(cs[k].parts) # <<>>
    BY <2>1, NamesFacts DEF Call
  <2> QED BY <2>2 DEF At
<1>2. \A k \in DOMAIN cs : /\ cs[k].by = 0 /\ cs[k].parts # <<>>
                           /\ \E e \in D \union {d} : At(B, us, cs[k], e)
  BY DEF Listed
<1>3. \A k, l \in DOMAIN cs : \A e, f \in D \union {d} :
          k < l /\ At(B, us, cs[k], e) /\ At(B, us, cs[l], f) => Ahead(e, f)
  BY <1>1 DEF Listed
<1>4. \A e \in D \union {d} :
          Among(B[e[2]], us[e[1]]) # <<>> => \E k \in DOMAIN cs : At(B, us, cs[k], e)
  BY DEF Listed
<1> QED BY <1>2, <1>3, <1>4 DEF Listed

\* The call for the next bucket.
LEMMA ListedNext ==
    ASSUME NEW B, Partition(B), NEW us \in UseSeq, NEW cs \in CallSeq, NEW D,
           D \subseteq Work(B, us), NEW d \in Work(B, us), Listed(B, us, cs, D),
           \A e \in D : Ahead(e, d),
           NEW c \in Call, c.by = 0, c.parts # <<>>, At(B, us, c, d), NEW n, n = Len(cs) + 1,
           NEW cs2, DOMAIN cs2 = DOMAIN cs \union {n}, cs2[n] = c,
           \A k \in DOMAIN cs : cs2[k] = cs[k]
    PROVE  Listed(B, us, cs2, D \union {d})
<1>1. d[1] \in Int /\ d[2] \in Int
  <2>1. DOMAIN B \subseteq 1 .. NP /\ NP \in Nat
    BY PartitionFacts, ParamsCount
  <2>2. DOMAIN us \subseteq Int
    BY DEF UseSeq
  <2> QED BY <2>1, <2>2, InWork
<1>2. d \notin D
  BY <1>1 DEF Ahead
<1>3. DOMAIN cs = 1 .. Len(cs) /\ Len(cs) \in Nat /\ \A k \in DOMAIN cs : cs[k] \in Call
  BY DEF CallSeq
<1>4. \A e \in D \union {d} : At(B, us, c, e) => e = d
  BY AtOne
<1>5. \A k \in DOMAIN cs : \A e \in D \union {d} : At(B, us, cs[k], e) => e \in D
  <2> SUFFICES ASSUME NEW k \in DOMAIN cs, At(B, us, cs[k], d) PROVE FALSE
    OBVIOUS
  <2>1. cs[k] \in Call /\ cs[k].parts # <<>> /\ \E f \in D : At(B, us, cs[k], f)
    BY <1>3 DEF Listed
  <2>2. PICK f \in D : At(B, us, cs[k], f)
    BY <2>1
  <2>3. d = f
    BY <2>1, <2>2, AtOne
  <2> QED BY <1>2, <2>3
<1>6. ASSUME NEW k \in DOMAIN cs2
      PROVE  /\ cs2[k].by = 0 /\ cs2[k].parts # <<>>
             /\ \E e \in D \union {d} : At(B, us, cs2[k], e)
  <2>1. CASE k = n
    BY <2>1
  <2>2. CASE k \in DOMAIN cs
    <3>1. cs2[k] = cs[k]
      BY <2>2
    <3>2. cs[k].by = 0 /\ cs[k].parts # <<>> /\ \E e \in D : At(B, us, cs[k], e)
      BY <2>2 DEF Listed
    <3> QED BY <3>1, <3>2
  <2> QED BY <2>1, <2>2
<1>7. ASSUME NEW k \in DOMAIN cs2, NEW l \in DOMAIN cs2, NEW e \in D \union {d},
             NEW f \in D \union {d}, k < l, At(B, us, cs2[k], e), At(B, us, cs2[l], f)
      PROVE  Ahead(e, f)
  <2>1. k \in DOMAIN cs /\ cs2[k] = cs[k] /\ e \in D
    <3>1. k \in DOMAIN cs
      BY <1>3, <1>7
    <3> QED BY <1>5, <1>7, <3>1
  <2>2. CASE l = n
    <3>1. f = d
      BY <1>4, <1>7, <2>2
    <3> QED BY <2>1, <3>1
  <2>3. CASE l \in DOMAIN cs
    <3>1. cs2[l] = cs[l] /\ f \in D
      BY <1>5, <1>7, <2>3
    <3> QED BY <1>7, <2>1, <2>3, <3>1 DEF Listed
  <2> QED BY <2>2, <2>3
<1>8. ASSUME NEW e \in D \union {d}, Among(B[e[2]], us[e[1]]) # <<>>
      PROVE  \E k \in DOMAIN cs2 : At(B, us, cs2[k], e)
  <2>1. CASE e = d
    BY <2>1
  <2>2. CASE e \in D
    <3>1. PICK k \in DOMAIN cs : At(B, us, cs[k], e)
      BY <1>8, <2>2 DEF Listed
    <3> QED BY <3>1
  <2> QED BY <2>1, <2>2
<1> QED BY <1>6, <1>7, <1>8 DEF Listed

\* More passes change nothing for the calls of earlier ones.
LEMMA ListedMore ==
    ASSUME NEW B, NEW us, NEW us2, NEW cs, NEW D, D \subseteq Work(B, us),
           \A i \in DOMAIN us : us2[i] = us[i], Listed(B, us, cs, D)
    PROVE  Listed(B, us2, cs, D)
<1>1. \A d \in D : us2[d[1]] = us[d[1]]
  BY InWork
<1>2. \A c : \A d \in D : At(B, us2, c, d) <=> At(B, us, c, d)
  BY <1>1 DEF At
<1> QED BY <1>1, <1>2 DEF Listed

AgreeOn(us, vs) == \A i \in DOMAIN us \intersect DOMAIN vs : us[i] = vs[i]

\* Two lists agree on the calls before the k-th.
Agree(B, us, cs, D, vs, ds, E, k) ==
    \A l \in 1 .. k - 1 : \E f \in D \intersect E : At(B, us, cs[l], f) /\ At(B, vs, ds[l], f)

\* The k-th call of one of them is then not ahead of that of the other.
LEMMA NotAhead ==
    ASSUME NEW B, Partition(B),
           NEW us \in UseSeq, NEW cs \in CallSeq, NEW D, Downward(B, us, D), Listed(B, us, cs, D),
           NEW vs \in UseSeq, NEW ds \in CallSeq, NEW E, Downward(B, vs, E), Listed(B, vs, ds, E),
           AgreeOn(us, vs), NEW k \in DOMAIN cs, k \in DOMAIN ds,
           Agree(B, us, cs, D, vs, ds, E, k), NEW d \in D, NEW e \in E,
           At(B, us, cs[k], d), At(B, vs, ds[k], e)
    PROVE  ~Ahead(d, e)
<1>1. /\ DOMAIN cs = 1 .. Len(cs) /\ DOMAIN ds = 1 .. Len(ds) /\ k \in Nat
      /\ Len(cs) \in Nat /\ Len(ds) \in Nat
      /\ \A l \in DOMAIN cs : cs[l] \in Call
      /\ \A l \in DOMAIN ds : ds[l] \in Call
  BY DEF CallSeq
<1>2. \A x \in D \union E : x[1] \in Int /\ x[2] \in Int /\ x = <<x[1], x[2]>>
  <2>1. DOMAIN B \subseteq 1 .. NP /\ NP \in Nat
    BY PartitionFacts, ParamsCount
  <2>2. DOMAIN us \subseteq Int /\ DOMAIN vs \subseteq Int
    BY DEF UseSeq
  <2> QED BY <2>1, <2>2, InWork DEF Downward
<1>3. ~Ahead(d, d) /\ ~Ahead(e, e)
  BY <1>2 DEF Ahead
<1> SUFFICES ASSUME Ahead(d, e) PROVE FALSE
  OBVIOUS
<1>4. d \in Work(B, vs)
  <2>1. d[1] \in DOMAIN us /\ d[2] \in DOMAIN B /\ e[1] \in DOMAIN vs
    BY InWork DEF Downward
  <2>2. d[1] <= e[1]
    BY <1>2 DEF Ahead
  <2>3. d[1] \in DOMAIN vs
    BY <2>1, <2>2 DEF UseSeq
  <2> QED BY <1>2, <2>1, <2>3, InWork
<1>5. d \in E
  BY <1>4 DEF Downward
<1>6. us[d[1]] = vs[d[1]]
  BY <1>4, InWork DEF AgreeOn, Downward
<1>7. Among(B[d[2]], vs[d[1]]) # <<>>
  <2>1. cs[k].parts # <<>> /\ cs[k].parts \in Seq(Named)
    BY <1>1 DEF Listed, Call
  <2>2. NamesOf(cs[k].parts) # <<>>
    BY <2>1, NamesFacts
  <2> QED BY <1>6, <2>2 DEF At
<1>8. PICK l \in DOMAIN ds : At(B, vs, ds[l], d)
  BY <1>5, <1>7 DEF Listed
<1>9. l # k
  <2> SUFFICES ASSUME l = k PROVE FALSE
    OBVIOUS
  <2>1. ds[k].parts # <<>> /\ ds[k] \in Call
    BY <1>1 DEF Listed
  <2>2. e \in Work(B, vs)
    BY DEF Downward
  <2>3. d = e
    BY <1>4, <1>8, <2>1, <2>2, AtOne
  <2> QED BY <1>3, <2>3
<1>10. ~(k < l)
  <2> SUFFICES ASSUME k < l PROVE FALSE
    OBVIOUS
  <2>1. Ahead(e, d)
    BY <1>5, <1>8 DEF Listed
  <2> QED BY <1>2, <2>1 DEF Ahead
<1>11. l \in 1 .. k - 1 /\ l \in DOMAIN cs /\ l < k
  BY <1>1, <1>9, <1>10
<1>12. PICK f \in D \intersect E : At(B, us, cs[l], f) /\ At(B, vs, ds[l], f)
  BY <1>11 DEF Agree
<1>13. f = d
  <2>1. ds[l].parts # <<>> /\ ds[l] \in Call
    BY <1>1 DEF Listed
  <2>2. f \in Work(B, vs)
    BY DEF Downward
  <2> QED BY <1>4, <1>8, <1>12, <2>1, <2>2, AtOne
<1>14. Ahead(d, d)
  BY <1>11, <1>12, <1>13 DEF Listed
<1> QED BY <1>3, <1>14

\* If two ranks list the calls of one partition, and their passes give the same
\* as far as both have come, the calls with the same number are the same.
LEMMA SameList ==
    ASSUME NEW B, Partition(B),
           NEW us \in UseSeq, NEW cs \in CallSeq, NEW D, Downward(B, us, D), Listed(B, us, cs, D),
           NEW vs \in UseSeq, NEW ds \in CallSeq, NEW E, Downward(B, vs, E), Listed(B, vs, ds, E),
           AgreeOn(us, vs)
    PROVE  \A k \in DOMAIN cs \intersect DOMAIN ds :
              \E d \in D \intersect E : At(B, us, cs[k], d) /\ At(B, vs, ds[k], d)
<1> DEFINE Good(k) == \E d \in D \intersect E : At(B, us, cs[k], d) /\ At(B, vs, ds[k], d)
           N == IF Len(cs) <= Len(ds) THEN Len(cs) ELSE Len(ds)
           S == {k \in 1 .. N : Good(k)}
<1>1. /\ N \in Nat /\ DOMAIN cs \intersect DOMAIN ds = 1 .. N
      /\ \A k \in 1 .. N : k \in DOMAIN cs /\ k \in DOMAIN ds /\ cs[k] \in Call /\ ds[k] \in Call
      /\ DOMAIN cs = 1 .. Len(cs) /\ DOMAIN ds = 1 .. Len(ds)
      /\ Len(cs) \in Nat /\ Len(ds) \in Nat
  BY DEF CallSeq
<1> HIDE DEF N
<1>2. \A d \in D \union E : d[1] \in Int /\ d[2] \in Int /\ d = <<d[1], d[2]>>
  <2>1. DOMAIN B \subseteq 1 .. NP /\ NP \in Nat
    BY PartitionFacts, ParamsCount
  <2>2. DOMAIN us \subseteq Int /\ DOMAIN vs \subseteq Int
    BY DEF UseSeq
  <2> QED BY <2>1, <2>2, InWork DEF Downward
<1>6. ASSUME NEW k \in 1 .. N, 1 .. k - 1 \subseteq S PROVE Good(k)
  <2>1. PICK d \in D : At(B, us, cs[k], d)
    BY <1>1 DEF Listed
  <2>2. PICK e \in E : At(B, vs, ds[k], e)
    BY <1>1 DEF Listed
  <2>7. Agree(B, us, cs, D, vs, ds, E, k) /\ Agree(B, vs, ds, E, us, cs, D, k)
    BY <1>6 DEF Agree
  <2>8. AgreeOn(vs, us) /\ k \in DOMAIN cs /\ k \in DOMAIN ds
    BY <1>1 DEF AgreeOn
  <2>3. ~Ahead(d, e)
    BY <2>1, <2>2, <2>7, <2>8, NotAhead
  <2>4. ~Ahead(e, d)
    BY <2>1, <2>2, <2>7, <2>8, NotAhead
  <2>5. d[1] = e[1] /\ d[2] = e[2]
    BY <1>2, <2>3, <2>4 DEF Ahead
  <2>6. d = e
    BY <1>2, <2>5
  <2> QED BY <2>1, <2>2, <2>6
<1> HIDE DEF Good
<1>8. \A k \in 1 .. N : 1 .. k - 1 \subseteq S => k \in S
  BY <1>6
<1> HIDE DEF S
<1>9. 1 .. N \subseteq S
  BY <1>1, <1>8, InductionBelow
<1> QED BY <1>1, <1>9 DEF S, Good

\* How many buckets of this backward pass the main task has taken up.
Handled(r) == Len(buckets[r]) - Len(queue[r]) + IF mainTag[r] = NoTag THEN 0 ELSE 1

DoneAt(r) ==
    {d \in Work(buckets[r], uses[r]) :
        d[1] < Step(r) \/ pc[r] = "idle" \/ (pc[r] = "sync" /\ d[2] <= Handled(r))}

\* The rest of the buckets is queued.
QueueAt(r) ==
    pc[r] = "sync" =>
        /\ Len(queue[r]) <= Len(buckets[r])
        /\ \A j \in DOMAIN queue[r] :
              queue[r][j].names = buckets[r][Len(buckets[r]) - Len(queue[r]) + j]

Listing(r) == QueueAt(r) /\ Listed(buckets[r], uses[r], calls[r], DoneAt(r))

\* sync_gradients alone reduces, and bucket by bucket.
Alone == setup.bucketed /\ ~setup.overlap /\ setup.sync

PInv ==
    /\ AInv
    /\ \A r \in Ranks : buckets[r] = Buckets(setup, r)
    /\ ~setup.overlap =>
          \A r \in Ranks : todo[r] = <<>> /\ channel[r] = <<>> /\ reductions[r] = <<>>
    /\ ~setup.overlap /\ ~setup.sync => \A r \in Ranks : pc[r] # "sync" /\ calls[r] = <<>>
    /\ Alone /\ clean => \A r \in Ranks : Listing(r)

LEMMA AloneFacts ==
    ASSUME PInv, Alone, clean, NEW r \in Ranks
    PROVE  /\ AInv /\ TInv /\ Typed /\ QueueAt(r)
           /\ Listed(buckets[r], uses[r], calls[r], DoneAt(r))
           /\ Partition(buckets[r]) /\ uses[r] \in UseSeq /\ Step(r) \in Nat
           /\ DOMAIN uses[r] = 1 .. Step(r) /\ calls[r] \in CallSeq
           /\ Len(buckets[r]) \in Nat /\ DOMAIN buckets[r] = 1 .. Len(buckets[r])
           /\ queue[r] \in Entries /\ Len(queue[r]) \in Nat
           /\ DOMAIN queue[r] = 1 .. Len(queue[r])
           /\ pc[r] # "idle" => Step(r) > 0
<1>1. AInv /\ TInv /\ Typed /\ QueueAt(r) /\ Listed(buckets[r], uses[r], calls[r], DoneAt(r))
  BY DEF PInv, AInv, TInv, Listing
<1>2. Partition(buckets[r])
  BY <1>1, BucketFacts DEF Alone
<1>3. buckets[r] \in Seq(Seq(Params))
  BY <1>2 DEF Partition
<1>4. Len(buckets[r]) \in Nat /\ DOMAIN buckets[r] = 1 .. Len(buckets[r])
  BY <1>3
<1>5. uses[r] \in UseSeq /\ Step(r) \in Nat /\ DOMAIN uses[r] = 1 .. Step(r)
  BY <1>1 DEF Typed, UseSeq, Step
<1>6. queue[r] \in Entries /\ Len(queue[r]) \in Nat /\ DOMAIN queue[r] = 1 .. Len(queue[r])
  BY <1>1 DEF Typed, Entries
<1>7. calls[r] \in CallSeq /\ (pc[r] # "idle" => Step(r) > 0)
  BY <1>1, RightFacts DEF GradRight
<1> QED BY <1>1, <1>2, <1>4, <1>5, <1>6, <1>7

\* What the main task takes up next.
LEMMA NextUp ==
    ASSUME PInv, Alone, clean, NEW r \in Ranks, pc[r] = "sync", queue[r] # <<>>,
           mainTag[r] = NoTag, NEW h, h = Handled(r) + 1
    PROVE  /\ h \in DOMAIN buckets[r] /\ h = Len(buckets[r]) - Len(queue[r]) + 1
           /\ Reducible(r) = Among(buckets[r][h], uses[r][Step(r)])
           /\ <<Step(r), h>> \in Work(buckets[r], uses[r])
           /\ \A e \in DoneAt(r) : Ahead(e, <<Step(r), h>>)
           /\ {d \in Work(buckets[r], uses[r]) : d[1] < Step(r) \/ d[2] <= h}
                 = DoneAt(r) \union {<<Step(r), h>>}
<1> DEFINE B == buckets[r]
           st == Step(r)
           d == <<st, h>>
           W == Work(B, uses[r])
<1>1. /\ h = Len(B) - Len(queue[r]) + 1 /\ Len(queue[r]) \in 1 .. Len(B) /\ 1 \in DOMAIN queue[r]
      /\ Len(B) \in Nat /\ DOMAIN B = 1 .. Len(B) /\ h \in Nat
  <2>1. Len(queue[r]) <= Len(B) /\ Len(B) \in Nat /\ DOMAIN B = 1 .. Len(B)
    BY AloneFacts DEF QueueAt
  <2>2. Len(queue[r]) \in Nat /\ queue[r] \in Seq(Entry)
    BY AloneFacts DEF Entries
  <2>3. Len(queue[r]) > 0 /\ 1 \in DOMAIN queue[r]
    BY <2>2
  <2> QED BY <2>1, <2>2, <2>3 DEF Handled
<1>2. h \in DOMAIN B
  BY <1>1
<1>3. Head(queue[r]) = queue[r][1] /\ queue[r][1].names = B[h]
  <2>1. queue[r] \in Seq(Entry)
    BY AloneFacts DEF Entries
  <2>2. Head(queue[r]) = queue[r][1]
    BY <2>1, <1>1
  <2>3. queue[r][1].names = B[h]
    BY <1>1, AloneFacts DEF QueueAt
  <2> QED BY <2>2, <2>3
<1>4. Reducible(r) = Among(B[h], uses[r][st])
  <2> DEFINE S == {p \in Params : HasGrad(r, p)}
  <2>1. B[h] \in Seq(Params)
    BY <1>2, AloneFacts, PartitionFacts
  <2>2. ASSUME NEW j \in DOMAIN B[h] PROVE B[h][j] \in S <=> B[h][j] \in uses[r][st]
    <3>1. B[h][j] \in Params
      BY <2>1
    <3>2. InQueue(queue[r], B[h][j])
      BY <1>1, <1>3 DEF InQueue
    <3>3. grad[r][B[h][j]] = Fresh(r, B[h][j])
      BY <3>1, <3>2, AloneFacts, RightFacts DEF GradRight
    <3> QED BY <3>1, <3>3 DEF HasGrad, Fresh, None
  <2>3. Reducible(r) = Among(B[h], S)
    BY <1>3 DEF Reducible
  <2> HIDE DEF S, B, st
  <2> QED BY <2>1, <2>2, <2>3, AmongAlike
<1>5. d \in W
  <2>1. st \in DOMAIN uses[r]
    BY AloneFacts
  <2> QED BY <1>2, <2>1, InWork
<1>6. /\ \A e \in W : e[1] \in Int /\ e[1] <= st /\ e[2] \in Int
      /\ \A e \in W : e[1] = st /\ e[2] = h => e = d
  <2>1. \A e \in W : e[1] \in DOMAIN uses[r] /\ e[2] \in DOMAIN B /\ e = <<e[1], e[2]>>
    BY InWork
  <2> QED BY <1>1, <2>1, AloneFacts
<1>7. st \in Int /\ d[1] = st /\ d[2] = h /\ Handled(r) = h - 1
  BY <1>1, AloneFacts DEF Handled
<1>8. \A e : e \in DoneAt(r) <=> e \in W /\ (e[1] < st \/ e[2] <= h - 1)
  BY <1>7 DEF DoneAt
<1> HIDE DEF d, W, st
<1>9. \A e \in DoneAt(r) : Ahead(e, d)
  <2> SUFFICES ASSUME NEW e \in DoneAt(r) PROVE Ahead(e, d)
    OBVIOUS
  <2>1. e[1] \in Int /\ e[1] <= st /\ e[2] \in Int /\ (e[1] < st \/ e[2] <= h - 1)
    BY <1>6, <1>8
  <2>3. st \in Int /\ h \in Int
    BY <1>1, <1>7
  <2>2. e[1] < st \/ (e[1] = st /\ e[2] < h)
    BY <2>1, <2>3
  <2> QED BY <1>7, <2>2 DEF Ahead
<1>10. \A e : e \in {x \in W : x[1] < st \/ x[2] <= h} <=> e \in DoneAt(r) \union {d}
  <2> SUFFICES ASSUME NEW e \in W
               PROVE  e[1] < st \/ e[2] <= h <=> e \in DoneAt(r) \/ e = d
    BY <1>5, <1>8
  <2>1. e[1] \in Int /\ e[1] <= st /\ e[2] \in Int
    BY <1>6
  <2>4. st \in Int /\ h \in Int
    BY <1>1, <1>7
  <2>2. e[1] < st \/ e[2] <= h <=> e[1] < st \/ e[2] <= h - 1 \/ (e[1] = st /\ e[2] = h)
    BY <2>1, <2>4
  <2>3. e[1] = st /\ e[2] = h <=> e = d
    BY <1>6, <1>7
  <2> QED BY <1>8, <2>2, <2>3
<1>11. {x \in W : x[1] < st \/ x[2] <= h} = DoneAt(r) \union {d}
  BY <1>10
<1> QED BY <1>1, <1>2, <1>4, <1>5, <1>9, <1>11 DEF d, W, st

\* What the calls of a rank depend on.
SameListing(r) ==
    /\ buckets' = buckets /\ setup' = setup /\ uses'[r] = uses[r] /\ pc'[r] = pc[r]
    /\ queue'[r] = queue[r] /\ mainTag'[r] = mainTag[r] /\ calls'[r] = calls[r]

LEMMA SameListed ==
    ASSUME NEW r \in Ranks, Listing(r), SameListing(r)
    PROVE  Listing(r)'
<1>1. DoneAt(r)' = DoneAt(r)
  BY DEF SameListing, DoneAt, Handled, Step, Work, Pairs
<1>2. QueueAt(r)'
  BY DEF SameListing, QueueAt, Listing
<1>3. Listed(buckets'[r], uses'[r], calls'[r], DoneAt(r)')
  BY <1>1 DEF SameListing, Listing
<1>4. Listed(buckets[r], uses[r], calls[r], DoneAt(r))'
  BY <1>3 DEF Listed, At, NamesOf, Among, Ahead
<1> QED BY <1>2, <1>4 DEF Listing

\* What a step must show of the rank that takes it.
LEMMA ListingNow ==
    ASSUME NEW r \in Ranks, QueueAt(r)', NEW D, DoneAt(r)' = D,
           Listed(buckets'[r], uses'[r], calls'[r], D)
    PROVE  Listing(r)'
BY DEF Listing, Listed, At, NamesOf, Among, Ahead

LEMMA BackwardListed ==
    ASSUME PInv, Alone, clean, NEW r \in Ranks, Backward(r)
    PROVE  Listing(r)'
<1> DEFINE B == buckets[r]
           us == uses[r]
           D == DoneAt(r)
<1>1. PICK use \in setup.useSets : uses' = [uses EXCEPT ![r] = Append(@, use)]
  BY DEF Backward
<1>2. /\ pc[r] = "idle" /\ pc'[r] = "backward"
      /\ UNCHANGED <<setup, buckets, queue, mainTag, calls>>
  BY AloneFacts DEF Backward, Typed
<1>3. /\ DOMAIN us = 1 .. Len(us) /\ Len(us) \in Nat /\ DOMAIN uses'[r] = 1 .. Len(us) + 1
      /\ \A i \in 1 .. Len(us) : uses'[r][i] = us[i]
      /\ Step(r) = Len(us) /\ Step(r)' = Len(us) + 1
  <2>1. uses'[r] = Append(us, use) /\ us \in Seq(SUBSET Params)
    BY <1>1, AloneFacts DEF Typed, UseSeq
  <2>2. /\ DOMAIN us = 1 .. Len(us) /\ Len(us) \in Nat
        /\ DOMAIN Append(us, use) = 1 .. Len(us) + 1
        /\ \A i \in 1 .. Len(us) : Append(us, use)[i] = us[i]
    BY <2>1, AppendFacts
  <2> HIDE DEF us
  <2>3. Len(uses'[r]) = Len(us) + 1
    BY <2>1, <2>2
  <2> QED BY <2>1, <2>2, <2>3 DEF Step, us
<1>4. D = Work(B, us)
  BY <1>2 DEF DoneAt
<1>5. DoneAt(r)' = {d \in Work(B, uses'[r]) : d[1] < Step(r)'}
  BY <1>2 DEF DoneAt, Work, Pairs
<1> HIDE DEF B, us
<1>6. \A d \in Work(B, us) : d \in Work(B, uses'[r]) /\ d[1] < Len(us) + 1
  <2> SUFFICES ASSUME NEW d \in Work(B, us)
               PROVE  d \in Work(B, uses'[r]) /\ d[1] < Len(us) + 1
    OBVIOUS
  <2>1. d[1] \in DOMAIN us /\ d[2] \in DOMAIN B /\ d = <<d[1], d[2]>>
    BY InWork
  <2>2. d[1] \in DOMAIN uses'[r] /\ d[1] < Len(us) + 1
    BY <1>3, <2>1
  <2> QED BY <2>1, <2>2, InWork
<1>7. \A d \in Work(B, uses'[r]) : d[1] < Len(us) + 1 => d \in Work(B, us)
  <2> SUFFICES ASSUME NEW d \in Work(B, uses'[r]), d[1] < Len(us) + 1 PROVE d \in Work(B, us)
    OBVIOUS
  <2>1. d[1] \in DOMAIN uses'[r] /\ d[2] \in DOMAIN B /\ d = <<d[1], d[2]>>
    BY InWork
  <2>2. d[1] \in DOMAIN us
    BY <1>3, <2>1
  <2> QED BY <2>1, <2>2, InWork
<1>8. DoneAt(r)' = D
  BY <1>3, <1>4, <1>5, <1>6, <1>7
<1>9. Listed(B, uses'[r], calls[r], D)
  <2>1. Listed(B, us, calls[r], D) /\ D \subseteq Work(B, us)
    BY <1>4, AloneFacts DEF B, us
  <2> HIDE DEF D
  <2> QED BY <1>3, <2>1, ListedMore
<1>10. QueueAt(r)'
  BY <1>2 DEF QueueAt
<1> HIDE DEF D
<1> QED BY <1>2, <1>8, <1>9, <1>10, ListingNow DEF B

LEMMA BeginSyncListed ==
    ASSUME PInv, Alone, clean, NEW r \in Ranks, BeginSync(r)
    PROVE  Listing(r)'
<1>1. /\ pc[r] = "backward" /\ pc'[r] = "sync"
      /\ UNCHANGED <<setup, buckets, uses, mainTag, calls>>
  BY AloneFacts DEF BeginSync, Typed
<1>2. mainTag[r] = NoTag
  BY <1>1, AloneFacts, RightFacts
<1>3. queue'[r] = ByBucket(r)
  <2>1. buckets[r] # <<>>
    <3>1. Len(buckets[r]) \in 1 .. NP /\ NP \in Nat
      BY AloneFacts, ParamsCount DEF Partition
    <3> QED BY <3>1
  <2> QED BY <2>1, AloneFacts DEF BeginSync, Typed
<1>4. /\ DOMAIN ByBucket(r) = DOMAIN buckets[r] /\ Len(ByBucket(r)) = Len(buckets[r])
      /\ \A b \in DOMAIN buckets[r] : ByBucket(r)[b].names = buckets[r][b]
  <2>1. DOMAIN buckets[r] = 1 .. Len(buckets[r]) /\ Len(buckets[r]) \in Nat
    BY AloneFacts
  <2> QED BY <2>1 DEF ByBucket
<1>5. QueueAt(r)'
  <2>1. Len(buckets[r]) \in Nat /\ DOMAIN buckets[r] = 1 .. Len(buckets[r])
    BY AloneFacts
  <2> QED BY <1>1, <1>3, <1>4, <2>1 DEF QueueAt
<1>6. DoneAt(r)' = DoneAt(r)
  <2>1. Handled(r)' = 0
    <3>1. Len(buckets[r]) \in Nat
      BY AloneFacts
    <3> QED BY <1>1, <1>2, <1>3, <1>4, <3>1 DEF Handled
  <2>2. \A d \in Work(buckets[r], uses[r]) : ~(d[2] <= 0)
    <3>1. DOMAIN buckets[r] = 1 .. Len(buckets[r]) /\ Len(buckets[r]) \in Nat
      BY AloneFacts
    <3> QED BY <3>1, InWork
  <2>3. DoneAt(r) = {d \in Work(buckets[r], uses[r]) : d[1] < Step(r)}
    BY <1>1 DEF DoneAt
  <2>4. DoneAt(r)' = {d \in Work(buckets[r], uses[r]) : d[1] < Step(r) \/ d[2] <= 0}
    BY <1>1, <2>1 DEF DoneAt, Work, Pairs, Step
  <2> QED BY <2>2, <2>3, <2>4
<1>7. Listed(buckets'[r], uses'[r], calls'[r], DoneAt(r))
  BY <1>1, AloneFacts
<1> QED BY <1>5, <1>6, <1>7, ListingNow

LEMMA EndSyncListed ==
    ASSUME PInv, Alone, clean, NEW r \in Ranks, EndSync(r)
    PROVE  Listing(r)'
<1>1. /\ pc[r] = "sync" /\ pc'[r] = "idle" /\ queue[r] = <<>>
      /\ UNCHANGED <<setup, buckets, uses, mainTag, calls>>
  BY AloneFacts DEF EndSync, Typed
<1>2. mainTag[r] = NoTag
  BY <1>1, AloneFacts, RightFacts
<1>3. QueueAt(r)'
  BY <1>1 DEF QueueAt
<1>4. DoneAt(r)' = DoneAt(r)
  <2>1. Handled(r) = Len(buckets[r])
    <3>1. Len(buckets[r]) \in Nat
      BY AloneFacts
    <3> QED BY <1>1, <1>2, <3>1 DEF Handled
  <2>2. \A d \in Work(buckets[r], uses[r]) : d[2] <= Len(buckets[r])
    <3>1. DOMAIN buckets[r] = 1 .. Len(buckets[r]) /\ Len(buckets[r]) \in Nat
      BY AloneFacts
    <3> QED BY <3>1, InWork
  <2>3. DoneAt(r) = Work(buckets[r], uses[r])
    BY <1>1, <2>1, <2>2 DEF DoneAt
  <2>4. DoneAt(r)' = Work(buckets[r], uses[r])
    BY <1>1 DEF DoneAt, Work, Pairs
  <2> QED BY <2>3, <2>4
<1>5. Listed(buckets'[r], uses'[r], calls'[r], DoneAt(r))
  BY <1>1, AloneFacts
<1> QED BY <1>3, <1>4, <1>5, ListingNow

LEMMA TailFacts ==
    ASSUME NEW S, NEW s \in Seq(S), s # <<>>
    PROVE  /\ 1 \in DOMAIN s /\ Len(s) \in Nat /\ Len(Tail(s)) = Len(s) - 1
           /\ DOMAIN Tail(s) = 1 .. Len(s) - 1
           /\ \A j \in DOMAIN Tail(s) : j \in Nat /\ j + 1 \in DOMAIN s /\ Tail(s)[j] = s[j + 1]
<1>1. 1 \in DOMAIN s /\ Len(s) \in Nat /\ DOMAIN s = 1 .. Len(s)
  OBVIOUS
<1>2. Len(Tail(s)) = Len(s) - 1 /\ Tail(s) \in Seq(S)
  OBVIOUS
<1>3. DOMAIN Tail(s) = 1 .. Len(s) - 1
  BY <1>2
<1>4. \A j \in DOMAIN Tail(s) : j \in Nat /\ j + 1 \in DOMAIN s /\ Tail(s)[j] = s[j + 1]
  <2> SUFFICES ASSUME NEW j \in 1 .. Len(s) - 1
               PROVE  j \in Nat /\ j + 1 \in DOMAIN s /\ Tail(s)[j] = s[j + 1]
    BY <1>3
  <2>1. j \in Nat /\ j + 1 \in DOMAIN s
    BY <1>1
  <2>2. Tail(s)[j] = s[j + 1]
    BY <1>1
  <2> QED BY <2>1, <2>2
<1> QED BY <1>1, <1>2, <1>3, <1>4

\* The first of the queue is done with, whether it was reduced or not.
LEMMA TailAt ==
    ASSUME PInv, Alone, clean, NEW r \in Ranks, pc[r] = "sync", queue[r] # <<>>,
           queue'[r] = Tail(queue[r]), pc'[r] = pc[r], buckets' = buckets
    PROVE  QueueAt(r)' /\ Len(queue'[r]) = Len(queue[r]) - 1
<1> DEFINE qs == queue[r]
<1>1. /\ qs \in Seq(Entry) /\ Len(qs) <= Len(buckets[r]) /\ Len(buckets[r]) \in Nat
      /\ \A j \in DOMAIN qs : qs[j].names = buckets[r][Len(buckets[r]) - Len(qs) + j]
  BY AloneFacts DEF QueueAt, Entries
<1>2. qs # <<>> /\ queue'[r] = Tail(qs)
  OBVIOUS
<1>3. PICK t \in {Tail(qs)} : TRUE
  OBVIOUS
<1> HIDE DEF qs
<1>4. /\ Len(t) = Len(qs) - 1 /\ Len(qs) \in Nat /\ DOMAIN t = 1 .. Len(qs) - 1
      /\ \A j \in DOMAIN t : j \in Nat /\ j + 1 \in DOMAIN qs /\ t[j] = qs[j + 1]
  BY <1>1, <1>2, <1>3, TailFacts
<1>5. ASSUME NEW j \in DOMAIN t
      PROVE  t[j].names = buckets[r][Len(buckets[r]) - Len(t) + j]
  <2>1. t[j].names = buckets[r][Len(buckets[r]) - Len(qs) + (j + 1)]
    BY <1>1, <1>4
  <2>2. j \in Nat /\ Len(qs) \in Nat /\ Len(t) = Len(qs) - 1
    BY <1>4
  <2>4. Len(buckets[r]) \in Nat
    BY <1>1
  <2>3. Len(buckets[r]) - Len(qs) + (j + 1) = Len(buckets[r]) - Len(t) + j
    <3>1. \A x, y, z \in Int : x - y + (z + 1) = x - (y - 1) + z
      OBVIOUS
    <3>2. /\ Len(buckets[r]) \in Int /\ Len(qs) \in Int /\ j \in Int
          /\ Len(t) = Len(qs) - 1
      BY <2>2, <2>4
    <3>3. Len(buckets[r]) - Len(qs) + (j + 1) = Len(buckets[r]) - (Len(qs) - 1) + j
      BY <3>1, <3>2
    <3> QED BY <3>2, <3>3
  <2> QED BY <2>1, <2>3
<1>6. Len(t) <= Len(buckets[r])
  BY <1>1, <1>4
<1>7. queue'[r] = t
  BY <1>2, <1>3
<1>8. QueueAt(r)'
  BY <1>5, <1>6, <1>7 DEF QueueAt
<1> QED BY <1>4, <1>7, <1>8 DEF qs

LEMMA MainSkipsListed ==
    ASSUME PInv, Alone, clean, NEW r \in Ranks, MainSkips(r)
    PROVE  Listing(r)'
<1> DEFINE h == Handled(r) + 1
           d == <<Step(r), h>>
<1>1. /\ pc[r] = "sync" /\ queue[r] # <<>> /\ mainTag[r] = NoTag /\ Reducible(r) = <<>>
      /\ queue'[r] = Tail(queue[r]) /\ UNCHANGED <<setup, buckets, uses, pc, mainTag, calls>>
  BY AloneFacts DEF MainSkips, Typed
<1>2. QueueAt(r)' /\ Len(queue'[r]) = Len(queue[r]) - 1
  BY <1>1, TailAt
<1>3. /\ h = Len(buckets[r]) - Len(queue[r]) + 1
      /\ Reducible(r) = Among(buckets[r][h], uses[r][Step(r)])
      /\ {x \in Work(buckets[r], uses[r]) : x[1] < Step(r) \/ x[2] <= h} = DoneAt(r) \union {d}
  <2> HIDE DEF h
  <2>1. h = Handled(r) + 1
    BY DEF h
  <2> QED BY <1>1, <2>1, NextUp
<1>4. Handled(r)' = h
  <2>1. Len(buckets[r]) \in Nat /\ Len(queue[r]) \in Nat
    BY AloneFacts
  <2>2. Handled(r)' = Len(buckets[r]) - (Len(queue[r]) - 1) + 0
    BY <1>1, <1>2 DEF Handled
  <2>3. h = Len(buckets[r]) - Len(queue[r]) + 1
    BY <1>3
  <2> HIDE DEF h
  <2> QED BY <2>1, <2>2, <2>3
<1> HIDE DEF h
<1>5. DoneAt(r)' = DoneAt(r) \union {d}
  <2>1. DoneAt(r)' = {x \in Work(buckets[r], uses[r]) : x[1] < Step(r) \/ x[2] <= h}
    BY <1>1, <1>4 DEF DoneAt, Work, Pairs, Step
  <2> QED BY <1>3, <2>1
<1>6. d[1] = Step(r) /\ d[2] = h
  OBVIOUS
<1> HIDE DEF d
<1>7. Listed(buckets[r], uses[r], calls[r], DoneAt(r) \union {d})
  BY <1>1, <1>3, <1>6, AloneFacts, ListedEmpty
<1> QED BY <1>1, <1>2, <1>5, <1>7, ListingNow

LEMMA MainReduceListed ==
    ASSUME PInv, Alone, clean, NEW r \in Ranks, MainReduce(r)
    PROVE  Listing(r)'
<1> DEFINE h == Handled(r) + 1
           d == <<Step(r), h>>
           c == [by |-> 0, step |-> Step(r), parts |-> PartsOf(r, Reducible(r))]
           n == Len(calls[r]) + 1
           D == DoneAt(r)
<1>1. /\ pc[r] = "sync" /\ queue[r] # <<>> /\ mainTag[r] = NoTag /\ Reducible(r) # <<>>
      /\ mainTag'[r] = n /\ UNCHANGED <<setup, buckets, uses, pc, queue>>
      /\ calls' = [calls EXCEPT ![r] = Append(@, c)]
  BY AloneFacts DEF MainReduce, Typed, mainVars, Post
<1>2. QueueAt(r)'
  BY <1>1, AloneFacts DEF QueueAt
<1>3. /\ h = Len(buckets[r]) - Len(queue[r]) + 1
      /\ Reducible(r) = Among(buckets[r][h], uses[r][Step(r)])
      /\ d \in Work(buckets[r], uses[r])
      /\ \A e \in D : Ahead(e, d)
      /\ {x \in Work(buckets[r], uses[r]) : x[1] < Step(r) \/ x[2] <= h} = D \union {d}
  <2> HIDE DEF h
  <2>1. h = Handled(r) + 1
    BY DEF h
  <2> QED BY <1>1, <2>1, NextUp
<1>4. Reducible(r) \in Names /\ PartsOf(r, Reducible(r)) \in Items
      /\ NamesOf(PartsOf(r, Reducible(r))) = Reducible(r)
      /\ DOMAIN PartsOf(r, Reducible(r)) = DOMAIN Reducible(r)
  BY <1>1, AloneFacts, ReducibleFacts, PartsTyped
<1>5. c \in Call /\ c.by = 0 /\ c.step = Step(r) /\ c.parts = PartsOf(r, Reducible(r))
  BY <1>4, AloneFacts DEF Call, Items
<1>6. c.parts # <<>>
  <2>3. Reducible(r) \in Seq(Params)
    BY <1>4 DEF Names
  <2>1. 1 \in DOMAIN Reducible(r)
    BY <1>1, <2>3, TailFacts
  <2>2. DOMAIN <<>> = {}
    OBVIOUS
  <2> QED BY <1>4, <1>5, <2>1, <2>2
<1>7. d[1] = Step(r) /\ d[2] = h
  OBVIOUS
<1> HIDE DEF c
<1>8. /\ DOMAIN calls'[r] = DOMAIN calls[r] \union {n} /\ calls'[r][n] = c
      /\ \A k \in DOMAIN calls[r] : calls'[r][k] = calls[r][k]
      /\ Len(calls[r]) \in Nat
  BY <1>1, AloneFacts, AppendedCall
<1>9. Handled(r)' = h
  <2>1. Len(buckets[r]) \in Nat /\ Len(queue[r]) \in Nat
    BY AloneFacts
  <2>2. mainTag'[r] # NoTag
    BY <1>1, <1>8 DEF NoTag
  <2> QED BY <1>1, <1>3, <2>1, <2>2 DEF Handled
<1> HIDE DEF h
<1>10. DoneAt(r)' = D \union {d}
  <2>1. DoneAt(r)' = {x \in Work(buckets[r], uses[r]) : x[1] < Step(r) \/ x[2] <= h}
    BY <1>1, <1>9 DEF DoneAt, Work, Pairs, Step
  <2> QED BY <1>3, <2>1
<1> HIDE DEF d
<1>11. At(buckets[r], uses[r], c, d)
  BY <1>3, <1>4, <1>5, <1>7 DEF At
<1>12. D \subseteq Work(buckets[r], uses[r]) /\ Listed(buckets[r], uses[r], calls[r], D)
       /\ Partition(buckets[r]) /\ uses[r] \in UseSeq /\ calls[r] \in CallSeq
  BY AloneFacts DEF DoneAt
<1> HIDE DEF D
<1>13. n = Len(calls[r]) + 1
  OBVIOUS
<1> HIDE DEF n
<1>14. Listed(buckets[r], uses[r], calls'[r], D \union {d})
  <2>1. PICK cs2 \in {calls'[r]} : TRUE
    OBVIOUS
  <2>2. /\ DOMAIN cs2 = DOMAIN calls[r] \union {n} /\ cs2[n] = c
        /\ \A k \in DOMAIN calls[r] : cs2[k] = calls[r][k]
    BY <1>8, <2>1
  <2>3. d \in Work(buckets[r], uses[r]) /\ \A e \in D : Ahead(e, d)
    BY <1>3
  <2>4. c \in Call /\ c.by = 0 /\ c.parts # <<>>
    BY <1>5, <1>6
  <2>5. Listed(buckets[r], uses[r], cs2, D \union {d})
    BY <1>11, <1>12, <1>13, <2>2, <2>3, <2>4, ListedNext
  <2> QED BY <2>1, <2>5
<1> QED BY <1>1, <1>2, <1>10, <1>14, ListingNow

LEMMA MainReducedListed ==
    ASSUME PInv, Alone, clean, NEW r \in Ranks, MainReduced(r)
    PROVE  Listing(r)'
<1>1. /\ mainTag[r] # NoTag /\ queue'[r] = Tail(queue[r]) /\ mainTag'[r] = NoTag
      /\ UNCHANGED <<setup, buckets, uses, pc, calls>>
  BY AloneFacts DEF MainReduced, Typed
<1>2. pc[r] = "sync" /\ queue[r] # <<>>
  BY <1>1, AloneFacts, RightFacts
<1>3. QueueAt(r)' /\ Len(queue'[r]) = Len(queue[r]) - 1
  BY <1>1, <1>2, TailAt
<1>4. Handled(r)' = Handled(r)
  <2>1. Len(buckets[r]) \in Nat /\ Len(queue[r]) \in Nat
    BY AloneFacts
  <2>2. Handled(r)' = Len(buckets[r]) - (Len(queue[r]) - 1) + 0
    BY <1>1, <1>3 DEF Handled
  <2>3. Handled(r) = Len(buckets[r]) - Len(queue[r]) + 1
    BY <1>1 DEF Handled
  <2> QED BY <2>1, <2>2, <2>3
<1>5. DoneAt(r)' = DoneAt(r)
  BY <1>1, <1>4 DEF DoneAt, Work, Pairs, Step
<1>6. Listed(buckets'[r], uses'[r], calls'[r], DoneAt(r))
  BY <1>1, AloneFacts
<1> QED BY <1>3, <1>5, <1>6, ListingNow

LEMMA OtherListed ==
    ASSUME Typed, NEW r \in Ranks,
           Backward(r) \/ EndBackward(r) \/ BeginSync(r) \/ InSync(r), NEW q \in Ranks \ {r}
    PROVE  SameListing(q)
BY DEF Typed, SameListing, Backward, EndBackward, BeginSync, InSync, MainSkips, MainReduce,
       MainReduced, MainFails, EndSync, Post, mainVars

\* Without overlap, nothing happens but the main tasks.
LEMMA MainOnly ==
    ASSUME PInv, ~setup.overlap, NEW r \in Ranks,
           Backward(r) \/ InBackward(r) \/ InSync(r) \/ WorkerStep(r) \/ ReductionStep(r)
    PROVE  /\ Backward(r) \/ EndBackward(r) \/ BeginSync(r) \/ InSync(r)
           /\ \A q \in Ranks : todo'[q] = <<>> /\ channel'[q] = <<>> /\ reductions'[q] = <<>>
<1>1. \A q \in Ranks : todo[q] = <<>> /\ channel[q] = <<>> /\ reductions[q] = <<>>
  BY DEF PInv
<1>2. Backward(r) \/ EndBackward(r) \/ BeginSync(r) \/ InSync(r)
  <2>1. ~Register(r) /\ ~WorkerStep(r)
    BY <1>1 DEF Register, WorkerStep, WorkerReceive, WorkerDrop
  <2>2. DOMAIN reductions[r] = {}
    BY <1>1
  <2>3. ~ReductionStep(r)
    BY <2>2 DEF ReductionStep
  <2> QED BY <2>1, <2>3 DEF InBackward
<1>3. channel' = channel /\ reductions' = reductions
  BY <1>2 DEF Backward, EndBackward, BeginSync, InSync, MainSkips, MainReduce, MainReduced,
              MainFails, EndSync
<1>4. todo \in [Ranks -> Names]
  BY DEF PInv, AInv, TInv, Typed
<1>5. \A q \in Ranks : todo'[q] = <<>>
  <2>1. CASE Backward(r)
    <3>1. todo' = [todo EXCEPT ![r] = <<>>]
      BY <2>1 DEF Backward
    <3> QED BY <1>1, <1>4, <3>1
  <2>2. CASE todo' = todo
    BY <1>1, <2>2
  <2> QED BY <1>2, <2>1, <2>2 DEF EndBackward, BeginSync, InSync, MainSkips, MainReduce,
                                  MainReduced, MainFails, EndSync, mainVars
<1> QED BY <1>1, <1>2, <1>3, <1>5

LEMMA NoSync ==
    ASSUME PInv, ~setup.overlap, ~setup.sync, NEW r \in Ranks,
           Backward(r) \/ EndBackward(r) \/ BeginSync(r) \/ InSync(r)
    PROVE  \A q \in Ranks : pc'[q] # "sync" /\ calls'[q] = <<>>
<1>1. \A q \in Ranks : pc[q] # "sync" /\ calls[q] = <<>>
  BY DEF PInv
<1>2. mainTag[r] = NoTag /\ Typed
  BY <1>1, RightFacts DEF PInv
<1>3. Backward(r) \/ EndBackward(r)
  BY <1>1, <1>2 DEF BeginSync, InSync, MainSkips, MainReduce, MainReduced, MainFails, EndSync
<1> QED BY <1>1, <1>2, <1>3 DEF Backward, EndBackward, Typed

LEMMA StepListed ==
    ASSUME PInv, AInv', NEW r \in Ranks,
           Backward(r) \/ InBackward(r) \/ InSync(r) \/ WorkerStep(r) \/ ReductionStep(r)
    PROVE  PInv'
<1>0. setup' = setup /\ buckets' = buckets /\ (clean' = clean \/ clean' = FALSE)
  BY DEF Backward, InBackward, Register, EndBackward, BeginSync, InSync, MainSkips, MainReduce,
         MainReduced, MainFails, EndSync, WorkerStep, WorkerReceive, WorkerDrop, ReductionStep,
         ReductionStart, ReductionEnd, mainVars
<1>1. setup' = setup /\ buckets' = buckets /\ (clean' => clean)
  BY <1>0
<1>2. \A q \in Ranks : buckets'[q] = Buckets(setup, q)'
  BY <1>1 DEF PInv
<1>3. ASSUME ~setup.overlap
      PROVE  \A q \in Ranks : todo'[q] = <<>> /\ channel'[q] = <<>> /\ reductions'[q] = <<>>
  BY <1>3, MainOnly
<1>4. ASSUME ~setup.overlap, ~setup.sync
      PROVE  \A q \in Ranks : pc'[q] # "sync" /\ calls'[q] = <<>>
  BY <1>4, MainOnly, NoSync
<1>5. ASSUME Alone, clean, clean', NEW q \in Ranks PROVE Listing(q)'
  <2>1. Typed /\ Listing(q) /\ ~setup.overlap /\ setup.sync
    BY <1>5 DEF PInv, AInv, TInv, Alone
  <2>2. Backward(r) \/ EndBackward(r) \/ BeginSync(r) \/ InSync(r)
    BY <2>1, MainOnly
  <2>3. CASE q # r
    BY <2>1, <2>2, <2>3, OtherListed, SameListed
  <2>4. CASE q = r
    <3>1. ~EndBackward(r) /\ ~MainFails(r)
      BY <1>5, <2>1 DEF EndBackward, MainFails
    <3> QED BY <1>5, <2>2, <2>4, <3>1, BackwardListed, BeginSyncListed, MainSkipsListed,
               MainReduceListed, MainReducedListed, EndSyncListed DEF InSync
  <2> QED BY <2>3, <2>4
<1>6. Alone' => Alone
  BY <1>1 DEF Alone
<1> QED BY <1>1, <1>2, <1>3, <1>4, <1>5, <1>6 DEF PInv

LEMMA NextListed == PInv /\ CInv /\ [Next]_vars => PInv'
<1> SUFFICES ASSUME PInv, CInv, [Next]_vars PROVE PInv'
  OBVIOUS
<1>1. AInv'
  BY NextRight DEF PInv
<1>2. CASE Next
  BY <1>1, <1>2, StepListed DEF Next
<1>3. CASE UNCHANGED vars
  <2>1. \A q \in Ranks : SameListing(q)
    BY <1>3 DEF vars, SameListing
  <2>2. setup' = setup /\ (Alone' => Alone) /\ clean' = clean
    BY <1>3 DEF vars, Alone
  <2>3. ASSUME Alone, clean, NEW q \in Ranks PROVE Listing(q)'
    BY <2>1, <2>3, SameListed DEF PInv
  <2>4. \A q \in Ranks : buckets'[q] = Buckets(setup, q)'
    BY <1>3 DEF vars, PInv
  <2> QED BY <1>1, <1>3, <2>2, <2>3, <2>4 DEF PInv, vars
<1> QED BY <1>2, <1>3

LEMMA InitListed == Init => PInv
<1> SUFFICES ASSUME Init PROVE PInv
  OBVIOUS
<1>1. AInv
  BY InitRight
<1>2. \A r \in Ranks : /\ buckets[r] = Buckets(setup, r) /\ todo[r] = <<>> /\ channel[r] = <<>>
                       /\ reductions[r] = <<>> /\ calls[r] = <<>> /\ pc[r] = "idle"
                       /\ uses[r] = <<>>
  BY DEF Init
<1>3. ASSUME NEW r \in Ranks PROVE Listing(r)
  <2>1. QueueAt(r)
    BY <1>2 DEF QueueAt
  <2>2. \A d \in Work(buckets[r], uses[r]) : FALSE
    <3>1. DOMAIN uses[r] = {}
      BY <1>2
    <3> QED BY <3>1, InWork
  <2>3. DoneAt(r) = {}
    BY <2>2 DEF DoneAt
  <2>4. calls[r] = <<>> /\ DOMAIN calls[r] = {}
    BY <1>2
  <2>5. Listed(buckets[r], uses[r], calls[r], {})
    BY <2>4 DEF Listed
  <2> QED BY <2>1, <2>3, <2>5 DEF Listing
<1> QED BY <1>1, <1>2, <1>3 DEF PInv

LEMMA DownwardDone ==
    ASSUME PInv, Alone, clean, NEW r \in Ranks
    PROVE  Downward(buckets[r], uses[r], DoneAt(r))
<1> DEFINE W == Work(buckets[r], uses[r])
<1>1. \A d \in W : d[1] \in 1 .. Step(r) /\ d[2] \in 1 .. Len(buckets[r])
  BY AloneFacts, InWork
<1>2. Step(r) \in Int /\ Len(buckets[r]) \in Int /\ Handled(r) \in Int
  BY AloneFacts DEF Handled
<1>3. \A d : d \in DoneAt(r) <=>
         /\ d \in W
         /\ d[1] < Step(r) \/ pc[r] = "idle" \/ (pc[r] = "sync" /\ d[2] <= Handled(r))
  BY DEF DoneAt
<1> HIDE DEF W
<1>4. ASSUME NEW e \in DoneAt(r), NEW d \in W, Ahead(d, e) PROVE d \in DoneAt(r)
  <2>1. /\ d[1] \in Int /\ e[1] \in Int /\ d[2] \in Int /\ e[2] \in Int /\ e[1] <= Step(r)
        /\ (e[1] < Step(r) \/ pc[r] = "idle" \/ (pc[r] = "sync" /\ e[2] <= Handled(r)))
    BY <1>1, <1>2, <1>3
  <2>2. d[1] < e[1] \/ (d[1] = e[1] /\ d[2] < e[2])
    BY <1>4 DEF Ahead
  <2>3. d[1] < Step(r) \/ pc[r] = "idle" \/ (pc[r] = "sync" /\ d[2] <= Handled(r))
    BY <1>2, <2>1, <2>2
  <2> QED BY <1>3, <2>3
<1> QED BY <1>3, <1>4 DEF Downward, W

LEMMA ListedIsInStep == PInv => InStep
<1> SUFFICES ASSUME PInv, setup.bucketed, ~setup.overlap, DistinctSizes, SameUses, clean,
                    NEW q \in Ranks, NEW r \in Ranks,
                    NEW k \in DOMAIN calls[q] \intersect DOMAIN calls[r]
             PROVE  /\ calls[q][k].by = calls[r][k].by /\ calls[q][k].step = calls[r][k].step
                    /\ NamesOf(calls[q][k].parts) = NamesOf(calls[r][k].parts)
  BY DEF InStep, Paired
<1>1. Alone
  <2>1. DOMAIN <<>> = {}
    OBVIOUS
  <2> QED BY <2>1 DEF PInv, Alone
<1>2. buckets[q] = buckets[r]
  <2>1. setup \in Setup
    BY DdpAssumption DEF PInv, AInv, TInv, Typed
  <2>2. SortedBySize(setup, q) = SortedBySize(setup, r)
    BY <2>1, SortedAlike DEF DistinctSizes
  <2> QED BY <2>2 DEF PInv, Buckets
<1> DEFINE B == buckets[r]
<1>3. /\ Partition(B)
      /\ uses[q] \in UseSeq /\ calls[q] \in CallSeq /\ Downward(B, uses[q], DoneAt(q))
      /\ Listed(B, uses[q], calls[q], DoneAt(q))
      /\ uses[r] \in UseSeq /\ calls[r] \in CallSeq /\ Downward(B, uses[r], DoneAt(r))
      /\ Listed(B, uses[r], calls[r], DoneAt(r))
  BY <1>1, <1>2, AloneFacts, DownwardDone
<1>4. AgreeOn(uses[q], uses[r])
  BY DEF SameUses, AgreeOn
<1> HIDE DEF B
<1>5. PICK d \in DoneAt(q) \intersect DoneAt(r) :
         At(B, uses[q], calls[q][k], d) /\ At(B, uses[r], calls[r][k], d)
  BY <1>3, <1>4, SameList
<1>6. uses[q][d[1]] = uses[r][d[1]]
  <2>1. d \in Work(B, uses[q]) /\ d \in Work(B, uses[r])
    BY <1>3 DEF Downward
  <2> QED BY <1>4, <2>1, InWork DEF AgreeOn
<1>7. calls[q][k].by = calls[r][k].by
  BY <1>3 DEF Listed
<1> QED BY <1>5, <1>6, <1>7 DEF At

\* Ranks whose parameters all differ in size, that give gradients to the same
\* parameters and reduce them with sync_gradients alone, bucket by bucket,
\* make the same calls under the same numbers until one fails: whatever the
\* order of their hash maps, and however far one is ahead of another.
THEOREM SyncInStep == Spec => []InStep
BY InitListed, NextListed, InitCalls, NextCalls, ListedIsInStep, PTL DEF Spec
-----------------------------------------------------------------------------
(* Enumerations of places.                                                  *)

\* The sequence goes through D in its order.
Enumerates(ps, D) ==
    /\ \A k \in DOMAIN ps : ps[k] \in D
    /\ \A k, l \in DOMAIN ps : k < l => Ahead(ps[k], ps[l])
    /\ \A d \in D : \E k \in DOMAIN ps : ps[k] = d

Positions == Pairs(Nat, Nat)

LEMMA InPositions ==
    /\ \A d \in Positions : d[1] \in Nat /\ d[2] \in Nat /\ ~Ahead(d, d)
    /\ \A i, j \in Nat : <<i, j>> \in Positions
    /\ \A d, e \in Positions : Ahead(d, e) \/ Ahead(e, d) \/ d = e
    /\ \A d, e \in Positions : Ahead(d, e) => ~Ahead(e, d)
<1>1. /\ \A d \in Positions : d[1] \in Nat /\ d[2] \in Nat
      /\ \A i, j \in Nat : <<i, j>> \in Positions
      /\ \A d, e \in Positions : d[1] = e[1] /\ d[2] = e[2] => d = e
  BY InPairs DEF Positions
<1>2. \A d \in Positions : ~Ahead(d, d)
  BY <1>1 DEF Ahead
<1>3. \A d, e \in Positions : Ahead(d, e) \/ Ahead(e, d) \/ d = e
  BY <1>1 DEF Ahead
<1>4. \A d, e \in Positions : Ahead(d, e) => ~Ahead(e, d)
  BY <1>1 DEF Ahead
<1> QED BY <1>1, <1>2, <1>3, <1>4

\* The k-th of one is not ahead of the k-th of the other, if they agree so far.
LEMMA EnumNotAhead ==
    ASSUME NEW D, NEW E, D \subseteq Positions, E \subseteq Positions,
           NEW ps \in Seq(Positions), NEW qs \in Seq(Positions),
           Enumerates(ps, D), Enumerates(qs, E),
           \A d \in D, e \in E : Ahead(d, e) => d \in E,
           NEW k \in DOMAIN ps, k \in DOMAIN qs, \A l \in 1 .. k - 1 : ps[l] = qs[l]
    PROVE  ~Ahead(ps[k], qs[k])
<1> SUFFICES ASSUME Ahead(ps[k], qs[k]) PROVE FALSE
  OBVIOUS
<1>1. /\ DOMAIN ps = 1 .. Len(ps) /\ DOMAIN qs = 1 .. Len(qs) /\ Len(ps) \in Nat
      /\ Len(qs) \in Nat
  OBVIOUS
<1>2. ps[k] \in D /\ qs[k] \in E /\ ps[k] \in E
  BY DEF Enumerates
<1>3. PICK l \in DOMAIN qs : qs[l] = ps[k]
  BY <1>2 DEF Enumerates
<1>4. l # k
  BY <1>2, <1>3, InPositions
<1>5. ~(k < l)
  <2> SUFFICES ASSUME k < l PROVE FALSE
    OBVIOUS
  <2>1. Ahead(qs[k], ps[k])
    BY <1>3 DEF Enumerates
  <2> QED BY <1>2, <2>1, InPositions
<1>6. l \in 1 .. k - 1 /\ l \in DOMAIN ps /\ l < k
  BY <1>1, <1>4, <1>5
<1>7. Ahead(ps[l], ps[k])
  BY <1>6 DEF Enumerates
<1>8. ps[l] = ps[k]
  BY <1>3, <1>6
<1> QED BY <1>2, <1>7, <1>8, InPositions

LEMMA SameEnum ==
    ASSUME NEW D, NEW E, D \subseteq Positions, E \subseteq Positions,
           NEW ps \in Seq(Positions), NEW qs \in Seq(Positions),
           Enumerates(ps, D), Enumerates(qs, E),
           \A d \in D, e \in E : Ahead(d, e) => d \in E,
           \A d \in D, e \in E : Ahead(e, d) => e \in D
    PROVE  \A k \in DOMAIN ps \intersect DOMAIN qs : ps[k] = qs[k]
<1> DEFINE N == IF Len(ps) <= Len(qs) THEN Len(ps) ELSE Len(qs)
           S == {k \in 1 .. N : ps[k] = qs[k]}
<1>1. N \in Nat /\ DOMAIN ps \intersect DOMAIN qs = 1 .. N
  OBVIOUS
<1> HIDE DEF N
<1>2. ASSUME NEW k \in 1 .. N, 1 .. k - 1 \subseteq S PROVE ps[k] = qs[k]
  <2>1. k \in DOMAIN ps /\ k \in DOMAIN qs
    BY <1>1
  <2>2. \A l \in 1 .. k - 1 : ps[l] = qs[l] /\ qs[l] = ps[l]
    BY <1>2
  <2>3. ~Ahead(ps[k], qs[k])
    BY <2>1, <2>2, EnumNotAhead
  <2>4. ~Ahead(qs[k], ps[k])
    <3>1. \A d \in E, e \in D : Ahead(d, e) => d \in D
      OBVIOUS
    <3> QED BY <2>1, <2>2, <3>1, EnumNotAhead
  <2>5. ps[k] \in Positions /\ qs[k] \in Positions
    BY <2>1
  <2> QED BY <2>3, <2>4, <2>5, InPositions
<1>3. \A k \in 1 .. N : 1 .. k - 1 \subseteq S => k \in S
  BY <1>2
<1> HIDE DEF S
<1>4. 1 .. N \subseteq S
  BY <1>1, <1>3, InductionBelow
<1> QED BY <1>1, <1>4 DEF S

LEMMA EnumNext ==
    ASSUME NEW D, D \subseteq Positions, NEW ps \in Seq(Positions), Enumerates(ps, D),
           NEW d \in Positions, \A e \in D : Ahead(e, d)
    PROVE  /\ Append(ps, d) \in Seq(Positions) /\ Enumerates(Append(ps, d), D \union {d})
           /\ Len(Append(ps, d)) = Len(ps) + 1 /\ Len(ps) \in Nat
           /\ \A k \in DOMAIN ps : Append(ps, d)[k] = ps[k]
           /\ Append(ps, d)[Len(ps) + 1] = d
<1> DEFINE qs == Append(ps, d)
<1>1. /\ DOMAIN ps = 1 .. Len(ps) /\ Len(ps) \in Nat /\ DOMAIN qs = 1 .. Len(ps) + 1
      /\ \A i \in 1 .. Len(ps) : qs[i] = ps[i]
      /\ qs[Len(ps) + 1] = d
  BY AppendFacts
<1>2. qs \in Seq(Positions) /\ Len(qs) = Len(ps) + 1
  OBVIOUS
<1> HIDE DEF qs
<1>3. \A k \in DOMAIN qs : qs[k] \in D \union {d}
  BY <1>1 DEF Enumerates
<1>4. \A k, l \in DOMAIN qs : k < l => Ahead(qs[k], qs[l])
  <2> SUFFICES ASSUME NEW k \in DOMAIN qs, NEW l \in DOMAIN qs, k < l
               PROVE  Ahead(qs[k], qs[l])
    OBVIOUS
  <2>1. k \in DOMAIN ps /\ qs[k] = ps[k] /\ ps[k] \in D
    BY <1>1 DEF Enumerates
  <2>2. CASE l = Len(ps) + 1
    BY <1>1, <2>1, <2>2
  <2>3. CASE l \in DOMAIN ps
    BY <1>1, <2>1, <2>3 DEF Enumerates
  <2> QED BY <1>1, <2>2, <2>3
<1>5. \A e \in D \union {d} : \E k \in DOMAIN qs : qs[k] = e
  BY <1>1 DEF Enumerates
<1> QED BY <1>1, <1>2, <1>3, <1>4, <1>5 DEF Enumerates, qs
-----------------------------------------------------------------------------
(* What a worker does with the names it gets.                               *)

\* BucketOf and Ready of a rank whose buckets are B.
BucketIn(B, p) ==
    IF \E b \in DOMAIN B : p \in ToSet(B[b])
    THEN CHOOSE b \in DOMAIN B : p \in ToSet(B[b])
    ELSE 1

ReadyIn(B, b, n) ==
    LET count == IF b \in DOMAIN B THEN Len(B[b]) ELSE 0 IN n >= count /\ count > 0

LEMMA InBuckets ==
    ASSUME NEW r
    PROVE  /\ \A p : BucketOf(r, p) = BucketIn(buckets[r], p)
           /\ \A b, n : Ready(r, b, n) <=> ReadyIn(buckets[r], b, n)
BY DEF BucketOf, BucketIn, Ready, ReadyIn, ExpectedCount

\* The worker takes up a gradient for p: of the names pending in every bucket,
\* and those of the reductions, become pd2 and out2.
Stepped(B, pd, out, p, pd2, out2) ==
    LET b == BucketIn(B, p)
        got == Append(pd[b], p)
    IN IF ReadyIn(B, b, Len(got))
       THEN pd2 = [pd EXCEPT ![b] = <<>>] /\ out2 = Append(out, got)
       ELSE pd2 = [pd EXCEPT ![b] = got] /\ out2 = out

NameSlots == [1 .. NP -> Names]
NameLists == Seq(Names)

\* P and O are what was pending and handed out after each of the n names.
History(B, names, n, P, O) ==
    /\ P \in [0 .. n -> NameSlots] /\ O \in [0 .. n -> NameLists]
    /\ P[0] = [b \in 1 .. NP |-> <<>>] /\ O[0] = <<>>
    /\ \A m \in 1 .. n : Stepped(B, P[m - 1], O[m - 1], names[m], P[m], O[m])

\* Two workers with the same buckets do the same as long as they get the same.
LEMMA SameHistory ==
    ASSUME NEW B, NEW n \in Nat, NEW l \in Nat, n <= l, NEW names, NEW others,
           \A m \in 1 .. n : names[m] = others[m],
           NEW P, NEW O, History(B, names, n, P, O),
           NEW Q, NEW R, History(B, others, l, Q, R)
    PROVE  P[n] = Q[n] /\ O[n] = R[n]
<1> DEFINE S == {m \in 0 .. n : P[m] = Q[m] /\ O[m] = R[m]}
<1>1. n \in 0 .. n
  OBVIOUS
<1>2. 0 \in S
  <2>1. P[0] = Q[0] /\ O[0] = R[0]
    BY DEF History
  <2>2. 0 \in 0 .. n
    BY <1>1
  <2> QED BY <2>1, <2>2
<1>3. ASSUME NEW m \in 1 .. n, m - 1 \in S PROVE m \in S
  <2>1. m \in 1 .. n /\ m \in 1 .. l /\ m \in 0 .. n
    BY <1>1
  <2>2. /\ Stepped(B, P[m - 1], O[m - 1], names[m], P[m], O[m])
        /\ Stepped(B, Q[m - 1], R[m - 1], others[m], Q[m], R[m])
    BY <2>1 DEF History
  <2>3. P[m - 1] = Q[m - 1] /\ O[m - 1] = R[m - 1] /\ names[m] = others[m]
    BY <1>3
  <2> DEFINE b == BucketIn(B, names[m])
             got == Append(P[m - 1][b], names[m])
  <2>5. /\ IF ReadyIn(B, b, Len(got))
            THEN P[m] = [P[m - 1] EXCEPT ![b] = <<>>] /\ O[m] = Append(O[m - 1], got)
            ELSE P[m] = [P[m - 1] EXCEPT ![b] = got] /\ O[m] = O[m - 1]
        /\ IF ReadyIn(B, b, Len(got))
            THEN Q[m] = [P[m - 1] EXCEPT ![b] = <<>>] /\ R[m] = Append(O[m - 1], got)
            ELSE Q[m] = [P[m - 1] EXCEPT ![b] = got] /\ R[m] = O[m - 1]
    BY <2>2, <2>3, Zenon DEF Stepped
  <2> HIDE DEF b, got
  <2>6. P[m] = Q[m] /\ O[m] = R[m]
    BY <2>5
  <2> QED BY <2>1, <2>6
<1> HIDE DEF S
<1>4. 0 .. n \subseteq S
  BY <1>1, <1>2, <1>3, InductionUpTo
<1>5. n \in S
  BY <1>1, <1>4
<1> QED BY <1>5 DEF S

\* What was handed out stays.
LEMMA HandedOut ==
    ASSUME NEW B, NEW n \in Nat, NEW k \in 0 .. n, NEW names, NEW P, NEW O,
           History(B, names, n, P, O)
    PROVE  \A j \in DOMAIN O[k] : j \in DOMAIN O[n] => O[n][j] = O[k][j]
<1> DEFINE S == {m \in 0 .. n - k : \A j \in DOMAIN O[k] : /\ j \in DOMAIN O[k + m]
                                                          /\ O[k + m][j] = O[k][j]}
<1>1. k \in Nat /\ k <= n /\ n - k \in Nat /\ k + 0 = k /\ k + (n - k) = n
  OBVIOUS
<1>2. 0 \in S
  BY <1>1
<1>3. ASSUME NEW m \in 1 .. n - k, m - 1 \in S PROVE m \in S
  <2> DEFINE x == k + m
             b == BucketIn(B, names[x])
             got == Append(P[x - 1][b], names[x])
  <2>1. x \in 1 .. n /\ x - 1 = k + (m - 1) /\ m \in 0 .. n - k /\ x - 1 \in 0 .. n
    BY <1>1
  <2> HIDE DEF x
  <2>2. Stepped(B, P[x - 1], O[x - 1], names[x], P[x], O[x])
    BY <2>1 DEF History
  <2>3. O[x] = O[x - 1] \/ O[x] = Append(O[x - 1], got)
    BY <2>2 DEF Stepped
  <2>4. O[x - 1] \in Seq(Names)
    BY <2>1 DEF History, NameLists
  <2> HIDE DEF got
  <2>5. \A j \in DOMAIN O[x - 1] : j \in DOMAIN O[x] /\ O[x][j] = O[x - 1][j]
    <3>1. CASE O[x] = O[x - 1]
      BY <3>1
    <3>2. CASE O[x] = Append(O[x - 1], got)
      <4>1. /\ DOMAIN O[x - 1] = 1 .. Len(O[x - 1]) /\ Len(O[x - 1]) \in Nat
            /\ DOMAIN Append(O[x - 1], got) = 1 .. Len(O[x - 1]) + 1
            /\ \A j \in 1 .. Len(O[x - 1]) : Append(O[x - 1], got)[j] = O[x - 1][j]
        BY <2>4, AppendFacts
      <4> QED BY <3>2, <4>1
    <3> QED BY <2>3, <3>1, <3>2
  <2>6. \A j \in DOMAIN O[k] : j \in DOMAIN O[x - 1] /\ O[x - 1][j] = O[k][j]
    BY <1>3, <2>1
  <2>7. \A j \in DOMAIN O[k] : j \in DOMAIN O[x] /\ O[x][j] = O[k][j]
    BY <2>5, <2>6
  <2> QED BY <2>1, <2>7 DEF x
<1> HIDE DEF S
<1>4. 0 .. n - k \subseteq S
  BY <1>1, <1>2, <1>3, InductionUpTo
<1>5. n - k \in S
  BY <1>1, <1>4
<1>6. \A j \in DOMAIN O[k] : O[k + (n - k)][j] = O[k][j]
  BY <1>5 DEF S
<1> QED BY <1>1, <1>6
-----------------------------------------------------------------------------
(* What a worker has been sent, and how far it is.                          *)

\* The d[2]-th name that the d[1]-th backward pass registers.
NameAt(o, us, d) == Among(o, us[d[1]])[d[2]]

NamesAt(o, us, ps) == [j \in DOMAIN ps |-> NameAt(o, us, ps[j])]

\* All but what the last backward pass has yet to register, td.
Sent(o, us, td) ==
    {d \in Positions :
        /\ d[1] \in DOMAIN us /\ d[2] \in DOMAIN Among(o, us[d[1]])
        /\ d[1] < Len(us) \/ d[2] <= Len(Among(o, us[d[1]])) - Len(td)}

\* td is the rest of what the last backward pass registers.
RestOf(o, us, td) ==
    td # <<>> =>
        /\ Len(us) > 0 /\ Len(td) <= Len(Among(o, us[Len(us)]))
        /\ \A t \in DOMAIN td :
              td[t] = Among(o, us[Len(us)])[Len(Among(o, us[Len(us)])) - Len(td) + t]

\* ps is what was sent, in order: of the names there the last are still in the
\* channel, ch, and the others have left pn pending and handed out rn.
Followed(B, o, us, td, ch, pn, rn, ps, P, O) ==
    /\ Enumerates(ps, Sent(o, us, td)) /\ Len(ch) <= Len(ps)
    /\ \A j \in DOMAIN ch : ch[j] = NamesAt(o, us, ps)[Len(ps) - Len(ch) + j]
    /\ History(B, NamesAt(o, us, ps), Len(ps) - Len(ch), P, O)
    /\ P[Len(ps) - Len(ch)] = pn /\ O[Len(ps) - Len(ch)] = rn

Follows(B, o, us, td, ch, pn, rn) ==
    /\ RestOf(o, us, td)
    /\ \E ps \in Seq(Positions) : \E P, O : Followed(B, o, us, td, ch, pn, rn, ps, P, O)

LEMMA HistoryAlike ==
    ASSUME NEW B, NEW n, NEW names, NEW others, NEW P, NEW O, History(B, names, n, P, O),
           \A m \in 1 .. n : names[m] = others[m]
    PROVE  History(B, others, n, P, O)
<1>1. \A m \in 1 .. n : Stepped(B, P[m - 1], O[m - 1], others[m], P[m], O[m])
  <2> SUFFICES ASSUME NEW m \in 1 .. n
               PROVE  Stepped(B, P[m - 1], O[m - 1], others[m], P[m], O[m])
    OBVIOUS
  <2>1. Stepped(B, P[m - 1], O[m - 1], names[m], P[m], O[m]) /\ names[m] = others[m]
    BY DEF History
  <2> QED BY <2>1
<1> QED BY <1>1 DEF History

LEMMA RowFacts ==
    ASSUME NEW o \in Orders, NEW S
    PROVE  /\ Among(o, S) \in Names /\ Len(Among(o, S)) \in Nat
           /\ DOMAIN Among(o, S) = 1 .. Len(Among(o, S))
<1>1. o \in Seq(Params) /\ Unrepeated(o)
  BY OrderUnrepeated DEF Names
<1>2. Among(o, S) \in Seq(Params)
  BY <1>1, AmongFacts
<1>3. Len(Among(o, S)) \in Nat /\ DOMAIN Among(o, S) = 1 .. Len(Among(o, S))
  BY <1>2
<1> QED BY <1>2, <1>3 DEF Names

LEMMA InSent ==
    ASSUME NEW o \in Orders, NEW us \in UseSeq, NEW td
    PROVE  /\ Sent(o, us, td) \subseteq Positions
           /\ \A d : d \in Sent(o, us, td) <=>
                 /\ d \in Positions
                 /\ d[1] \in 1 .. Len(us) /\ d[2] \in 1 .. Len(Among(o, us[d[1]]))
                 /\ d[1] < Len(us) \/ d[2] <= Len(Among(o, us[d[1]])) - Len(td)
           /\ Len(us) \in Nat /\ DOMAIN us = 1 .. Len(us)
<1>1. Len(us) \in Nat /\ DOMAIN us = 1 .. Len(us)
  BY DEF UseSeq
<1>2. \A d : DOMAIN Among(o, us[d[1]]) = 1 .. Len(Among(o, us[d[1]]))
  BY RowFacts
<1> QED BY <1>1, <1>2 DEF Sent

\* One more backward pass, which registers as it gives.
LEMMA FollowsBackward ==
    ASSUME NEW B, NEW o \in Orders, NEW us \in UseSeq, NEW ch, NEW pn, NEW rn,
           Follows(B, o, us, <<>>, ch, pn, rn), NEW use \in SUBSET Params
    PROVE  Follows(B, o, Append(us, use), Among(o, use), ch, pn, rn)
<1> DEFINE vs == Append(us, use)
           td == Among(o, use)
<1>1. PICK ps \in Seq(Positions) : \E P, O : Followed(B, o, us, <<>>, ch, pn, rn, ps, P, O)
  BY DEF Follows
<1>2. PICK P, O : Followed(B, o, us, <<>>, ch, pn, rn, ps, P, O)
  BY <1>1
<1>3. /\ vs \in UseSeq /\ Len(us) \in Nat /\ Len(vs) = Len(us) + 1
      /\ DOMAIN us = 1 .. Len(us) /\ DOMAIN vs = 1 .. Len(us) + 1
      /\ vs[Len(us) + 1] = use /\ \A i \in 1 .. Len(us) : vs[i] = us[i]
  BY AppendFacts DEF UseSeq
<1>4. td \in Names /\ Len(td) \in Nat /\ DOMAIN td = 1 .. Len(td) /\ Len(<<>>) = 0
  BY RowFacts
<1> HIDE DEF vs
<1>5. Sent(o, vs, td) = Sent(o, us, <<>>)
  <2> SUFFICES ASSUME NEW d \in Positions
               PROVE  d \in Sent(o, vs, td) <=> d \in Sent(o, us, <<>>)
    BY <1>3, InSent
  <2> DEFINE x == d[1]
             y == d[2]
             n == Len(us)
             m == Len(Among(o, us[x]))
  <2>1. m \in Nat /\ x \in Nat /\ y \in Nat /\ n \in Nat
    BY <1>3, InPositions, RowFacts
  <2>2. d \in Sent(o, us, <<>>) <=> x \in 1 .. n /\ y \in 1 .. m /\ (x < n \/ y <= m - 0)
    BY <1>4, InSent
  <2>3. CASE x = n + 1
    <3>1. vs[x] = use
      BY <1>3, <2>3
    <3>2. d \in Sent(o, vs, td) =>
             y \in 1 .. Len(td) /\ (x < n + 1 \/ y <= Len(td) - Len(td))
      BY <1>3, <3>1, InSent
    <3>3. d \notin Sent(o, vs, td)
      BY <1>4, <2>1, <2>3, <3>2
    <3>4. d \notin Sent(o, us, <<>>)
      BY <2>1, <2>2, <2>3
    <3> QED BY <3>3, <3>4
  <2>4. CASE x \in 1 .. n
    <3>1. vs[x] = us[x]
      BY <1>3, <2>4
    <3>2. d \in Sent(o, vs, td) <=>
             x \in 1 .. n + 1 /\ y \in 1 .. m /\ (x < n + 1 \/ y <= m - Len(td))
      BY <1>3, <3>1, InSent
    <3>3. d \in Sent(o, vs, td) <=> y \in 1 .. m
      BY <2>1, <2>4, <3>2
    <3>4. d \in Sent(o, us, <<>>) <=> y \in 1 .. m
      BY <2>1, <2>2, <2>4
    <3> QED BY <3>3, <3>4
  <2>5. CASE x \notin 1 .. n + 1
    <3>1. x \notin 1 .. n /\ d \notin Sent(o, us, <<>>)
      BY <2>1, <2>2, <2>5
    <3>2. d \notin Sent(o, vs, td)
      BY <1>3, <2>5, InSent
    <3> QED BY <3>1, <3>2
  <2> QED BY <2>1, <2>3, <2>4, <2>5
<1>6. NamesAt(o, vs, ps) = NamesAt(o, us, ps)
  <2>1. \A j \in DOMAIN ps : ps[j] \in Sent(o, us, <<>>)
    BY <1>2 DEF Followed, Enumerates
  <2>2. \A j \in DOMAIN ps : ps[j][1] \in 1 .. Len(us)
    BY <2>1, InSent
  <2>3. \A j \in DOMAIN ps : NameAt(o, vs, ps[j]) = NameAt(o, us, ps[j])
    BY <1>3, <2>2 DEF NameAt
  <2> QED BY <2>3 DEF NamesAt
<1>7. Followed(B, o, vs, td, ch, pn, rn, ps, P, O)
  BY <1>2, <1>5, <1>6 DEF Followed
<1>8. RestOf(o, vs, td)
  <2>1. vs[Len(vs)] = use /\ Len(vs) > 0
    BY <1>3
  <2>2. \A t \in DOMAIN td : Len(td) - Len(td) + t = t
    BY <1>4
  <2> QED BY <1>4, <2>1, <2>2 DEF RestOf
<1> QED BY <1>7, <1>8 DEF Follows, vs

\* The next name goes into the channel.
LEMMA FollowsRegister ==
    ASSUME NEW B, NEW o \in Orders, NEW us \in UseSeq, NEW td \in Names, td # <<>>,
           NEW ch \in Names, NEW pn, NEW rn, Follows(B, o, us, td, ch, pn, rn)
    PROVE  Follows(B, o, us, Tail(td), Append(ch, Head(td)), pn, rn)
<1> DEFINE row == Among(o, us[Len(us)])
           n == Len(us)
           m == Len(row)
           l == Len(td)
           d == <<n, m - l + 1>>
           rest == Tail(td)
           ch2 == Append(ch, Head(td))
<1>1. PICK ps \in Seq(Positions) : \E P, O : Followed(B, o, us, td, ch, pn, rn, ps, P, O)
  BY DEF Follows
<1>2. PICK P, O : Followed(B, o, us, td, ch, pn, rn, ps, P, O)
  BY <1>1
<1>3. /\ n \in Nat /\ n > 0 /\ m \in Nat /\ l \in Nat /\ l <= m /\ l > 0
      /\ DOMAIN us = 1 .. n /\ DOMAIN row = 1 .. m
      /\ \A t \in DOMAIN td : td[t] = row[m - l + t]
      /\ Len(rest) = l - 1 /\ DOMAIN td = 1 .. l /\ DOMAIN rest = 1 .. l - 1
      /\ \A t \in DOMAIN rest : rest[t] = td[t + 1]
      /\ Head(td) = td[1]
  <2>1. td \in Seq(Params)
    BY DEF Names
  <2>2. 1 \in DOMAIN td /\ l \in Nat /\ DOMAIN td = 1 .. l /\ Head(td) = td[1]
    BY <2>1
  <2>3. Len(rest) = l - 1 /\ DOMAIN rest = 1 .. l - 1 /\ \A t \in DOMAIN rest : rest[t] = td[t + 1]
    BY <2>1, TailFacts
  <2>4. m \in Nat /\ DOMAIN row = 1 .. m
    BY RowFacts
  <2>5. n > 0 /\ l <= m /\ \A t \in DOMAIN td : td[t] = row[m - l + t]
    BY DEF Follows, RestOf
  <2>6. n \in Nat /\ DOMAIN us = 1 .. n
    BY DEF UseSeq
  <2>7. l > 0
    BY <2>2
  <2> QED BY <2>2, <2>3, <2>4, <2>5, <2>6, <2>7
<1>4. /\ ch2 \in Seq(Params) /\ Len(ch) \in Nat /\ DOMAIN ch = 1 .. Len(ch)
      /\ Len(ch2) = Len(ch) + 1 /\ DOMAIN ch2 = 1 .. Len(ch) + 1 /\ ch2[Len(ch) + 1] = Head(td)
      /\ \A j \in 1 .. Len(ch) : ch2[j] = ch[j]
  <2>1. ch \in Seq(Params) /\ Head(td) \in Params
    BY Tails DEF Names
  <2>2. ch2 \in Seq(Params) /\ Len(ch2) = Len(ch) + 1
    BY <2>1
  <2> QED BY <2>1, <2>2, AppendFacts
<1> HIDE DEF ch2, rest
<1>5. d \in Positions /\ d[1] = n /\ d[2] = m - l + 1
  BY <1>3, InPositions
<1>6. row = Among(o, us[n]) /\ m = Len(row) /\ l = Len(td) /\ n = Len(us)
  OBVIOUS
<1> HIDE DEF d, row, m, l, n
<1>7. Sent(o, us, td) \subseteq Positions /\ \A e \in Sent(o, us, td) : Ahead(e, d)
  <2> SUFFICES ASSUME NEW e \in Sent(o, us, td) PROVE Ahead(e, d)
    BY InSent
  <2>1. e \in Positions /\ e[1] \in 1 .. n /\ (e[1] < n \/ e[2] <= Len(Among(o, us[e[1]])) - l)
    BY <1>6, InSent
  <2>2. e[1] = n => e[2] <= m - l
    BY <1>3, <1>6, <2>1
  <2>3. e[2] \in Nat
    BY <2>1, InPositions
  <2> QED BY <1>3, <1>5, <2>1, <2>2, <2>3 DEF Ahead
<1>8. Sent(o, us, rest) = Sent(o, us, td) \union {d}
  <2> SUFFICES ASSUME NEW e \in Positions
               PROVE  e \in Sent(o, us, rest) <=> e \in Sent(o, us, td) \/ e = d
    BY <1>5, InSent
  <2> DEFINE x == e[1]
             y == e[2]
             k == Len(Among(o, us[x]))
  <2>1. x \in Nat /\ y \in Nat /\ k \in Nat
    BY InPositions, RowFacts
  <2>2. /\ e \in Sent(o, us, td) <=> x \in 1 .. n /\ y \in 1 .. k /\ (x < n \/ y <= k - l)
        /\ e \in Sent(o, us, rest) <=>
              x \in 1 .. n /\ y \in 1 .. k /\ (x < n \/ y <= k - (l - 1))
    <3>1. Len(td) = l /\ Len(rest) = l - 1 /\ Len(us) = n /\ e \in Positions
      BY <1>3, <1>6
    <3>2. e \in Sent(o, us, td) <=>
             x \in 1 .. n /\ y \in 1 .. k /\ (x < n \/ y <= k - Len(td))
      BY <3>1, InSent
    <3>3. e \in Sent(o, us, rest) <=>
             x \in 1 .. n /\ y \in 1 .. k /\ (x < n \/ y <= k - Len(rest))
      BY <3>1, InSent
    <3> QED BY <3>1, <3>2, <3>3
  <2>3. e = d <=> x = n /\ y = m - l + 1
    <3>1. \A f, g \in Positions : f[1] = g[1] /\ f[2] = g[2] => f = g
      BY InPairs DEF Positions
    <3> QED BY <1>5, <3>1
  <2>4. x = n => k = m
    BY <1>6
  <2> HIDE DEF x, y, k
  <2>5. CASE x = n
    <3>1. e \in Sent(o, us, td) <=> y \in 1 .. m /\ y <= m - l
      BY <1>3, <2>1, <2>2, <2>4, <2>5
    <3>2. e \in Sent(o, us, rest) <=> y \in 1 .. m /\ y <= m - (l - 1)
      BY <1>3, <2>1, <2>2, <2>4, <2>5
    <3>3. e = d <=> y = m - l + 1
      BY <2>3, <2>5
    <3> QED BY <1>3, <2>1, <3>1, <3>2, <3>3
  <2>6. CASE x # n
    <3>1. e # d
      BY <2>3, <2>6
    <3> QED BY <1>3, <2>1, <2>2, <2>6, <3>1
  <2> QED BY <2>5, <2>6
<1> DEFINE qs == Append(ps, d)
<1>9. /\ qs \in Seq(Positions) /\ Enumerates(qs, Sent(o, us, rest))
      /\ Len(qs) = Len(ps) + 1 /\ Len(ps) \in Nat
      /\ \A k \in DOMAIN ps : qs[k] = ps[k]
      /\ qs[Len(ps) + 1] = d
  <2>1. Enumerates(ps, Sent(o, us, td))
    BY <1>2 DEF Followed
  <2> HIDE DEF qs
  <2>2. /\ qs \in Seq(Positions) /\ Enumerates(qs, Sent(o, us, td) \union {d})
        /\ Len(qs) = Len(ps) + 1 /\ Len(ps) \in Nat
        /\ \A k \in DOMAIN ps : qs[k] = ps[k]
        /\ qs[Len(ps) + 1] = d
    BY <1>5, <1>7, <2>1, EnumNext DEF qs
  <2> QED BY <1>8, <2>2
<1> HIDE DEF qs
<1>10. DOMAIN ps = 1 .. Len(ps) /\ DOMAIN qs = 1 .. Len(ps) + 1
  BY <1>9
<1>11. /\ \A k \in 1 .. Len(ps) : NamesAt(o, us, qs)[k] = NamesAt(o, us, ps)[k]
       /\ NamesAt(o, us, qs)[Len(ps) + 1] = Head(td)
  <2>1. \A k \in 1 .. Len(ps) : NamesAt(o, us, qs)[k] = NamesAt(o, us, ps)[k]
    <3> SUFFICES ASSUME NEW k \in 1 .. Len(ps)
                 PROVE  NamesAt(o, us, qs)[k] = NamesAt(o, us, ps)[k]
      OBVIOUS
    <3>1. k \in DOMAIN ps /\ k \in DOMAIN qs /\ qs[k] = ps[k]
      BY <1>9, <1>10
    <3> QED BY <3>1 DEF NamesAt
  <2>2. NameAt(o, us, d) = Head(td)
    <3>1. td[1] = row[m - l + 1]
      BY <1>3
    <3> QED BY <1>3, <1>5, <1>6, <3>1 DEF NameAt
  <2>3. Len(ps) + 1 \in DOMAIN qs
    BY <1>9, <1>10
  <2> QED BY <1>9, <2>1, <2>2, <2>3 DEF NamesAt
<1> DEFINE c == Len(ch)
           t == Len(ps)
           w == NamesAt(o, us, ps)
           w2 == NamesAt(o, us, qs)
<1>12. /\ c \in Nat /\ t \in Nat /\ c <= t /\ Len(qs) - Len(ch2) = t - c /\ Len(ch2) <= Len(qs)
       /\ Len(ch2) = c + 1 /\ Len(qs) = t + 1
  <2>1. Len(ch) <= Len(ps)
    BY <1>2 DEF Followed
  <2> QED BY <1>4, <1>9, <2>1
<1>13. \A j \in DOMAIN ch : ch[j] = w[t - c + j]
  BY <1>2 DEF Followed
<1>14. History(B, w, t - c, P, O) /\ P[t - c] = pn /\ O[t - c] = rn
  BY <1>2 DEF Followed
<1>15. \A k \in 1 .. t : w2[k] = w[k]
  BY <1>11
<1>16. w2[t + 1] = Head(td) /\ ch2[c + 1] = Head(td) /\ \A j \in 1 .. c : ch2[j] = ch[j]
  BY <1>4, <1>11
<1>17. DOMAIN ch = 1 .. c /\ DOMAIN ch2 = 1 .. c + 1
  BY <1>4
<1> HIDE DEF c, t, w, w2
<1>18. \A j \in DOMAIN ch2 : ch2[j] = w2[t - c + j]
  <2> SUFFICES ASSUME NEW j \in DOMAIN ch2 PROVE ch2[j] = w2[t - c + j]
    OBVIOUS
  <2>1. CASE j = c + 1
    <3>1. t - c + j = t + 1
      BY <1>12, <2>1
    <3> QED BY <1>16, <2>1, <3>1
  <2>2. CASE j \in 1 .. c
    <3>1. t - c + j \in 1 .. t
      BY <1>12, <2>2
    <3> QED BY <1>13, <1>15, <1>16, <1>17, <2>2, <3>1
  <2> QED BY <1>12, <1>17, <2>1, <2>2
<1>19. History(B, w2, t - c, P, O)
  <2>1. \A k \in 1 .. t - c : w[k] = w2[k]
    BY <1>12, <1>15
  <2> QED BY <1>14, <2>1, HistoryAlike
<1>20. Followed(B, o, us, rest, ch2, pn, rn, qs, P, O)
  BY <1>9, <1>12, <1>14, <1>18, <1>19 DEF Followed, w2
<1>21. RestOf(o, us, rest)
  <2> SUFFICES ASSUME NEW j \in DOMAIN rest PROVE rest[j] = row[m - Len(rest) + j]
    BY <1>3, <1>6 DEF RestOf
  <2>1. rest[j] = td[j + 1] /\ j + 1 \in DOMAIN td /\ j \in Int
    BY <1>3
  <2>2. td[j + 1] = row[m - l + (j + 1)]
    BY <1>3, <2>1
  <2>3. m - l + (j + 1) = m - Len(rest) + j
    BY <1>3, <2>1
  <2> QED BY <2>1, <2>2, <2>3
<1> QED BY <1>9, <1>20, <1>21 DEF Follows, rest, ch2

\* The worker takes up the first of the channel.
LEMMA FollowsReceive ==
    ASSUME NEW B, NEW o, NEW us, NEW td, NEW ch \in Names, ch # <<>>,
           NEW pn, NEW rn, Follows(B, o, us, td, ch, pn, rn),
           NEW pn2 \in NameSlots, NEW rn2 \in NameLists,
           Stepped(B, pn, rn, Head(ch), pn2, rn2)
    PROVE  Follows(B, o, us, td, Tail(ch), pn2, rn2)
<1> DEFINE rest == Tail(ch)
<1>1. PICK ps \in Seq(Positions) : \E P, O : Followed(B, o, us, td, ch, pn, rn, ps, P, O)
  BY DEF Follows
<1>2. PICK P, O : Followed(B, o, us, td, ch, pn, rn, ps, P, O)
  BY <1>1
<1> DEFINE c == Len(ch)
           t == Len(ps)
           n == t - c
           w == NamesAt(o, us, ps)
           P2 == [i \in 0 .. n + 1 |-> IF i = n + 1 THEN pn2 ELSE P[i]]
           O2 == [i \in 0 .. n + 1 |-> IF i = n + 1 THEN rn2 ELSE O[i]]
<1>3. /\ c \in Nat /\ c > 0 /\ DOMAIN ch = 1 .. c /\ Head(ch) = ch[1]
      /\ Len(rest) = c - 1 /\ DOMAIN rest = 1 .. c - 1 /\ \A j \in DOMAIN rest : rest[j] = ch[j + 1]
  <2>1. ch \in Seq(Params)
    BY DEF Names
  <2>2. 1 \in DOMAIN ch /\ c \in Nat /\ DOMAIN ch = 1 .. c /\ Head(ch) = ch[1]
    BY <2>1
  <2>3. Len(rest) = c - 1 /\ DOMAIN rest = 1 .. c - 1 /\ \A j \in DOMAIN rest : rest[j] = ch[j + 1]
    BY <2>1, TailFacts
  <2> QED BY <2>2, <2>3
<1>4. t \in Nat /\ c <= t /\ n \in Nat
  <2>1. t \in Nat /\ c <= t
    BY <1>2 DEF Followed
  <2> QED BY <1>3, <2>1
<1>5. /\ \A j \in DOMAIN ch : ch[j] = w[n + j]
      /\ History(B, w, n, P, O) /\ P[n] = pn /\ O[n] = rn
      /\ Enumerates(ps, Sent(o, us, td))
  BY <1>2 DEF Followed
<1> HIDE DEF w, rest, c, t
<1>6. w[n + 1] = Head(ch)
  BY <1>3, <1>5
<1> HIDE DEF n
<1>7. /\ P \in [0 .. n -> NameSlots] /\ O \in [0 .. n -> NameLists]
      /\ P[0] = [b \in 1 .. NP |-> <<>>] /\ O[0] = <<>>
      /\ \A m \in 1 .. n : Stepped(B, P[m - 1], O[m - 1], w[m], P[m], O[m])
  BY <1>5 DEF History
<1>8. /\ P2 \in [0 .. n + 1 -> NameSlots] /\ O2 \in [0 .. n + 1 -> NameLists]
  <2>1. \A i \in 0 .. n + 1 : /\ (IF i = n + 1 THEN pn2 ELSE P[i]) \in NameSlots
                              /\ (IF i = n + 1 THEN rn2 ELSE O[i]) \in NameLists
    BY <1>4, <1>7
  <2> QED BY <2>1
<1>9. P2[n + 1] = pn2 /\ O2[n + 1] = rn2 /\ \A i \in 0 .. n : P2[i] = P[i] /\ O2[i] = O[i]
  BY <1>4
<1> HIDE DEF P2, O2
<1>10. \A m \in 1 .. n + 1 : Stepped(B, P2[m - 1], O2[m - 1], w[m], P2[m], O2[m])
  <2> SUFFICES ASSUME NEW m \in 1 .. n + 1
               PROVE  Stepped(B, P2[m - 1], O2[m - 1], w[m], P2[m], O2[m])
    OBVIOUS
  <2>1. CASE m = n + 1
    <3>1. m - 1 = n /\ n \in 0 .. n
      BY <1>4, <2>1
    <3>2. P2[m - 1] = pn /\ O2[m - 1] = rn /\ w[m] = Head(ch) /\ P2[m] = pn2 /\ O2[m] = rn2
      BY <1>5, <1>6, <1>9, <2>1, <3>1
    <3> QED BY <3>2
  <2>2. CASE m \in 1 .. n
    <3>1. m - 1 \in 0 .. n /\ m \in 0 .. n
      BY <1>4, <2>2
    <3>2. /\ P2[m - 1] = P[m - 1] /\ O2[m - 1] = O[m - 1] /\ P2[m] = P[m] /\ O2[m] = O[m]
      BY <1>9, <3>1
    <3>3. Stepped(B, P[m - 1], O[m - 1], w[m], P[m], O[m])
      BY <1>7, <2>2
    <3> QED BY <3>2, <3>3
  <2> QED BY <1>4, <2>1, <2>2
<1>11. History(B, w, n + 1, P2, O2)
  <2>1. P2[0] = P[0] /\ O2[0] = O[0]
    BY <1>4, <1>9
  <2> QED BY <1>7, <1>8, <1>10, <2>1 DEF History
<1>12. t - Len(rest) = n + 1 /\ Len(rest) <= t
  BY <1>3, <1>4 DEF n
<1>13. \A j \in DOMAIN rest : rest[j] = w[n + 1 + j]
  <2> SUFFICES ASSUME NEW j \in DOMAIN rest PROVE rest[j] = w[n + 1 + j]
    OBVIOUS
  <2>1. rest[j] = ch[j + 1] /\ j + 1 \in DOMAIN ch /\ n + 1 + j = n + (j + 1)
    BY <1>3, <1>4
  <2> QED BY <1>5, <2>1
<1>14. Followed(B, o, us, td, rest, pn2, rn2, ps, P2, O2)
  BY <1>5, <1>9, <1>11, <1>12, <1>13 DEF Followed, w, t
<1>15. RestOf(o, us, td)
  BY DEF Follows
<1> QED BY <1>14, <1>15 DEF Follows, rest

\* What one pass of the one has sent before something that the other has sent,
\* the other has sent too.
LEMMA SentBefore ==
    ASSUME NEW o \in Orders, NEW us \in UseSeq, NEW vs \in UseSeq, AgreeOn(us, vs),
           NEW td, NEW te, te \in Names,
           NEW d \in Sent(o, us, td), NEW e \in Sent(o, vs, te), Ahead(d, e)
    PROVE  d \in Sent(o, vs, te)
<1> DEFINE k == Len(Among(o, us[d[1]]))
           h == Len(Among(o, vs[e[1]]))
           l == Len(te)
           n == Len(vs)
<1>1. /\ d \in Positions /\ d[1] \in 1 .. Len(us) /\ d[2] \in 1 .. k
      /\ e[1] \in 1 .. n /\ e[2] \in 1 .. h /\ (e[1] < n \/ e[2] <= h - l)
      /\ n \in Nat /\ Len(us) \in Nat
      /\ DOMAIN us = 1 .. Len(us) /\ DOMAIN vs = 1 .. n
  BY InSent
<1>2. d[1] \in Nat /\ d[2] \in Nat /\ e[1] \in Nat /\ e[2] \in Nat /\ k \in Nat /\ h \in Nat
      /\ l \in Nat
  BY <1>1, RowFacts DEF Names
<1>3. d[1] < e[1] \/ (d[1] = e[1] /\ d[2] < e[2])
  BY DEF Ahead
<1>4. d[1] \in 1 .. n
  BY <1>1, <1>2, <1>3
<1>5. us[d[1]] = vs[d[1]]
  BY <1>1, <1>4 DEF AgreeOn
<1>6. d[1] = e[1] => k = h
  BY <1>5
<1>7. k = Len(Among(o, vs[d[1]]))
  BY <1>5
<1> HIDE DEF k, h, n, l
<1>8. d[1] < n \/ d[2] <= k - l
  BY <1>1, <1>2, <1>3, <1>6
<1>9. d[1] \in 1 .. Len(vs) /\ d[2] \in 1 .. Len(Among(o, vs[d[1]]))
      /\ (d[1] < Len(vs) \/ d[2] <= Len(Among(o, vs[d[1]])) - Len(te))
  BY <1>1, <1>4, <1>7, <1>8 DEF n, l
<1> QED BY <1>1, <1>9, InSent

\* The worker that is behind has handed out what the other has.
LEMMA FollowedAlike ==
    ASSUME NEW B, NEW n \in Nat, NEW l \in Nat, n <= l, NEW names, NEW others,
           \A j \in 1 .. n : names[j] = others[j],
           NEW P, NEW O, History(B, names, n, P, O),
           NEW Q, NEW R, History(B, others, l, Q, R)
    PROVE  AgreeOn(O[n], R[l])
<1>1. O[n] = R[n]
  BY SameHistory
<1>2. \A j \in DOMAIN R[n] : j \in DOMAIN R[l] => R[l][j] = R[n][j]
  <2>1. n \in 0 .. l
    OBVIOUS
  <2> QED BY <2>1, HandedOut
<1> QED BY <1>1, <1>2 DEF AgreeOn

LEMMA FollowsAlike ==
    ASSUME NEW B, NEW o \in Orders, NEW us \in UseSeq, NEW vs \in UseSeq, AgreeOn(us, vs),
           NEW td \in Names, NEW te \in Names, NEW ch \in Names, NEW dh \in Names,
           NEW pn, NEW rn, Follows(B, o, us, td, ch, pn, rn),
           NEW qn, NEW sn, Follows(B, o, vs, te, dh, qn, sn),
           NEW k \in DOMAIN rn, k \in DOMAIN sn
    PROVE  rn[k] = sn[k]
<1>1. PICK ps \in Seq(Positions) : \E P, O : Followed(B, o, us, td, ch, pn, rn, ps, P, O)
  BY DEF Follows
<1>2. PICK P, O : Followed(B, o, us, td, ch, pn, rn, ps, P, O)
  BY <1>1
<1>3. PICK qs \in Seq(Positions) : \E Q, R : Followed(B, o, vs, te, dh, qn, sn, qs, Q, R)
  BY DEF Follows
<1>4. PICK Q, R : Followed(B, o, vs, te, dh, qn, sn, qs, Q, R)
  BY <1>3
<1>5. \A j \in DOMAIN ps \intersect DOMAIN qs : ps[j] = qs[j]
  <2> DEFINE D == Sent(o, us, td)
             E == Sent(o, vs, te)
  <2>1. D \subseteq Positions /\ E \subseteq Positions
    BY InSent
  <2>2. Enumerates(ps, D) /\ Enumerates(qs, E)
    BY <1>2, <1>4 DEF Followed
  <2>3. \A d \in D, e \in E : Ahead(d, e) => d \in E
    BY SentBefore
  <2>4. AgreeOn(vs, us)
    BY DEF AgreeOn
  <2>5. \A d \in D, e \in E : Ahead(e, d) => e \in D
    BY <2>4, SentBefore
  <2> HIDE DEF D, E
  <2> QED BY <2>1, <2>2, <2>3, <2>5, SameEnum
<1> DEFINE w == NamesAt(o, us, ps)
           v == NamesAt(o, vs, qs)
           n == Len(ps) - Len(ch)
           l == Len(qs) - Len(dh)
<1>6. \A j \in DOMAIN ps \intersect DOMAIN qs : w[j] = v[j]
  <2> SUFFICES ASSUME NEW j \in DOMAIN ps, j \in DOMAIN qs PROVE w[j] = v[j]
    OBVIOUS
  <2>1. ps[j] = qs[j] /\ ps[j] \in Sent(o, us, td) /\ qs[j] \in Sent(o, vs, te)
    BY <1>2, <1>4, <1>5 DEF Followed, Enumerates
  <2>2. ps[j][1] \in DOMAIN us /\ ps[j][1] \in DOMAIN vs
    BY <2>1, InSent
  <2>3. us[ps[j][1]] = vs[ps[j][1]]
    BY <2>2 DEF AgreeOn
  <2>4. NameAt(o, us, ps[j]) = NameAt(o, vs, qs[j])
    BY <2>1, <2>3 DEF NameAt
  <2> QED BY <2>4 DEF NamesAt
<1>7. /\ n \in Nat /\ l \in Nat /\ 1 .. n \subseteq DOMAIN ps /\ 1 .. l \subseteq DOMAIN qs
  <2>1. Len(ch) <= Len(ps) /\ Len(dh) <= Len(qs)
    BY <1>2, <1>4 DEF Followed
  <2>2. Len(ch) \in Nat /\ Len(dh) \in Nat /\ Len(ps) \in Nat /\ Len(qs) \in Nat
        /\ DOMAIN ps = 1 .. Len(ps) /\ DOMAIN qs = 1 .. Len(qs)
    BY DEF Names
  <2> QED BY <2>1, <2>2
<1>8. /\ History(B, w, n, P, O) /\ O[n] = rn
      /\ History(B, v, l, Q, R) /\ R[l] = sn
  BY <1>2, <1>4 DEF Followed
<1> HIDE DEF w, v, n, l
<1>9. CASE n <= l
  <2>1. \A j \in 1 .. n : w[j] = v[j]
    BY <1>6, <1>7, <1>9
  <2>2. k \in DOMAIN O[n] /\ k \in DOMAIN R[l]
    BY <1>8
  <2>3. AgreeOn(O[n], R[l])
    <3>1. n \in Nat /\ l \in Nat /\ n <= l
      BY <1>7, <1>9
    <3>2. History(B, w, n, P, O) /\ History(B, v, l, Q, R)
      BY <1>8
    <3> QED BY ONLY <2>1, <3>1, <3>2, FollowedAlike
  <2> QED BY <1>8, <2>2, <2>3 DEF AgreeOn
<1>10. CASE l <= n
  <2>1. \A j \in 1 .. l : v[j] = w[j]
    BY <1>6, <1>7, <1>10
  <2>2. k \in DOMAIN O[n] /\ k \in DOMAIN R[l]
    BY <1>8
  <2>3. AgreeOn(R[l], O[n])
    <3>1. l \in Nat /\ n \in Nat /\ l <= n
      BY <1>7, <1>10
    <3>2. History(B, v, l, Q, R) /\ History(B, w, n, P, O)
      BY <1>8
    <3> QED BY ONLY <2>1, <3>1, <3>2, FollowedAlike
  <2> QED BY <1>8, <2>2, <2>3 DEF AgreeOn
<1> QED BY <1>7, <1>9, <1>10
-----------------------------------------------------------------------------
(* Overlapped reductions in step.                                           *)

PendingNames(pd) == [b \in 1 .. NP |-> NamesOf(pd[b])]
ReducedNames(rs) == [n \in DOMAIN rs |-> NamesOf(rs[n].parts)]

RankFollows(r) ==
    Follows(buckets[r], setup.arrival[r], uses[r], todo[r], NamesOf(channel[r]),
            PendingNames(pending[r]), ReducedNames(reductions[r]))

\* A call that a reduction made is about what the reduction was handed.
CallsOf(r) ==
    \A k \in DOMAIN calls[r] : calls[r][k].by # 0 =>
        /\ calls[r][k].step = 0 /\ calls[r][k].by \in DOMAIN reductions[r]
        /\ calls[r][k].parts = reductions[r][calls[r][k].by].parts

OInv ==
    /\ PInv /\ WInv
    /\ \A r \in Ranks : CallsOf(r)
    /\ setup.overlap /\ Reduces => \A r \in Ranks : RankFollows(r)

LEMMA ItemNames ==
    ASSUME NEW items \in Items
    PROVE  /\ NamesOf(items) \in Names /\ DOMAIN NamesOf(items) = DOMAIN items
           /\ \A g \in Named : NamesOf(Append(items, g)) = Append(NamesOf(items), g.name)
           /\ items # <<>> => /\ NamesOf(items) # <<>>
                              /\ Head(NamesOf(items)) = Head(items).name
                              /\ NamesOf(Tail(items)) = Tail(NamesOf(items))
<1> DEFINE names == NamesOf(items)
<1>1. /\ items \in Seq(Named) /\ DOMAIN items = 1 .. Len(items) /\ Len(items) \in Nat
      /\ \A i \in DOMAIN items : items[i] \in Named /\ items[i].name \in Params
  <2>1. items \in Seq(Named)
    BY DEF Items
  <2>2. /\ DOMAIN items = 1 .. Len(items) /\ Len(items) \in Nat
        /\ \A i \in DOMAIN items : items[i] \in Named
    BY <2>1
  <2>3. \A g \in Named : g.name \in Params
    BY DEF Named
  <2> QED BY <2>1, <2>2, <2>3
<1>2. names = [i \in 1 .. Len(items) |-> items[i].name]
  BY <1>1 DEF NamesOf
<1> HIDE DEF names
<1>3. names \in Seq(Params) /\ Len(names) = Len(items) /\ DOMAIN names = DOMAIN items
      /\ \A i \in DOMAIN items : names[i] = items[i].name
  BY <1>1, <1>2
<1>4. ASSUME NEW g \in Named
      PROVE  NamesOf(Append(items, g)) = Append(names, g.name)
  <2> DEFINE more == Append(items, g)
  <2>1. /\ DOMAIN more = 1 .. Len(items) + 1 /\ more[Len(items) + 1] = g
        /\ \A i \in 1 .. Len(items) : more[i] = items[i]
    BY <1>1, AppendFacts
  <2> HIDE DEF more
  <2>2. NamesOf(more) = [i \in 1 .. Len(items) + 1 |-> more[i].name]
    BY <2>1 DEF NamesOf
  <2>3. g.name \in Params
    BY DEF Named
  <2>4. Append(names, g.name) = [i \in 1 .. Len(items) + 1 |->
                                   IF i = Len(items) + 1 THEN g.name ELSE names[i]]
    BY <1>1, <1>3, <2>3
  <2>5. \A i \in 1 .. Len(items) + 1 :
           more[i].name = IF i = Len(items) + 1 THEN g.name ELSE names[i]
    BY <1>1, <1>3, <2>1
  <2> QED BY <2>2, <2>4, <2>5 DEF more
<1>5. ASSUME items # <<>>
      PROVE  /\ names # <<>> /\ Head(names) = Head(items).name
             /\ NamesOf(Tail(items)) = Tail(names)
  <2>1. 1 \in DOMAIN items
    BY <1>1, <1>5
  <2>2. names # <<>>
    BY <1>3, <2>1
  <2>3. Head(names) = names[1] /\ Head(items) = items[1]
    BY <1>1, <1>3, <1>5, <2>2
  <2>4. /\ Tail(items) \in Seq(Named)
        /\ DOMAIN Tail(items) = 1 .. Len(items) - 1
        /\ \A i \in DOMAIN Tail(items) : i + 1 \in DOMAIN items /\ Tail(items)[i] = items[i + 1]
    BY <1>1, <1>5, TailFacts
  <2>5. /\ Tail(names) \in Seq(Params) /\ DOMAIN Tail(names) = 1 .. Len(items) - 1
        /\ \A i \in DOMAIN Tail(names) : Tail(names)[i] = names[i + 1]
    <3>1. Tail(names) \in Seq(Params)
      BY <1>3, <2>2
    <3> QED BY <1>3, <2>2, <3>1, TailFacts
  <2>6. Tail(names) = [i \in 1 .. Len(items) - 1 |-> Tail(names)[i]]
    <3>1. \A s \in Seq(Params) : s = [i \in DOMAIN s |-> s[i]]
      OBVIOUS
    <3> QED BY <2>5, <3>1
  <2>7. NamesOf(Tail(items)) = [i \in 1 .. Len(items) - 1 |-> Tail(items)[i].name]
    BY <2>4 DEF NamesOf
  <2>8. \A i \in 1 .. Len(items) - 1 : Tail(items)[i].name = Tail(names)[i]
    <3> SUFFICES ASSUME NEW i \in 1 .. Len(items) - 1
                 PROVE  Tail(items)[i].name = Tail(names)[i]
      OBVIOUS
    <3>1. i + 1 \in DOMAIN items /\ Tail(items)[i] = items[i + 1]
      BY <2>4
    <3>2. Tail(names)[i] = names[i + 1]
      BY <2>5
    <3> QED BY <1>3, <3>1, <3>2
  <2>9. NamesOf(Tail(items)) = Tail(names)
    <3> DEFINE f == Tail(items)
               h == Tail(names)
               n == Len(items) - 1
    <3>1. h = [i \in 1 .. n |-> h[i]]
      BY <2>6
    <3>2. NamesOf(f) = [i \in 1 .. n |-> f[i].name] /\ \A i \in 1 .. n : f[i].name = h[i]
      BY <2>7, <2>8
    <3> HIDE DEF f, h, n
    <3>3. [i \in 1 .. n |-> f[i].name] = [i \in 1 .. n |-> h[i]]
      BY <3>2
    <3>4. NamesOf(f) = h
      BY <3>1, <3>2, <3>3
    <3> QED BY <3>4 DEF f, h
  <2> QED BY <1>3, <2>1, <2>2, <2>3, <2>9
<1> QED BY <1>3, <1>4, <1>5 DEF Names, names

LEMMA NoNames == NamesOf(<<>>) = <<>>
BY DEF NamesOf

LEMMA OverlapFacts ==
    ASSUME OInv, setup.overlap, Reduces, NEW r \in Ranks
    PROVE  /\ AInv /\ TInv /\ Typed /\ RankFollows(r) /\ Partition(buckets[r])
           /\ setup.arrival[r] \in Orders /\ uses[r] \in UseSeq /\ todo[r] \in Names
           /\ channel[r] \in Items /\ NamesOf(channel[r]) \in Names
           /\ pending[r] \in Slots /\ reductions[r] \in Reductions
           /\ pc[r] # "backward" => todo[r] = <<>>
<1>1. AInv /\ TInv /\ Typed /\ RankFollows(r)
  BY DEF OInv, PInv, AInv, TInv
<1>2. Partition(buckets[r])
  BY <1>1, BucketFacts DEF Reduces
<1>3. setup.arrival[r] \in Orders
  BY <1>1, SetupFacts
<1>4. channel[r] \in Items
  BY <1>1 DEF Typed
<1>5. NamesOf(channel[r]) \in Names
  BY <1>4, ItemNames
<1> QED BY <1>1, <1>2, <1>3, <1>4, <1>5 DEF Typed, OInv, WInv

LEMMA SameFollows ==
    ASSUME NEW r \in Ranks, RankFollows(r), SameWork(r)
    PROVE  RankFollows(r)'
BY DEF SameWork, RankFollows

LEMMA BackwardFollows ==
    ASSUME OInv, setup.overlap, Reduces, NEW r \in Ranks, Backward(r)
    PROVE  RankFollows(r)'
<1>1. PICK use \in setup.useSets :
         /\ uses' = [uses EXCEPT ![r] = Append(@, use)]
         /\ todo' = [todo EXCEPT ![r] =
                        IF setup.overlap THEN Among(setup.arrival[r], use) ELSE <<>>]
  BY DEF Backward
<1>2. /\ pc[r] = "idle" /\ todo[r] = <<>>
      /\ UNCHANGED <<setup, buckets, channel, pending, reductions>>
  BY OverlapFacts DEF Backward
<1>3. uses'[r] = Append(uses[r], use) /\ todo'[r] = Among(setup.arrival[r], use)
  BY <1>1, OverlapFacts DEF Typed
<1>4. use \in SUBSET Params
  BY OverlapFacts, SetupFacts
<1>5. Follows(buckets[r], setup.arrival[r], uses[r], <<>>, NamesOf(channel[r]),
              PendingNames(pending[r]), ReducedNames(reductions[r]))
  BY <1>2, OverlapFacts DEF RankFollows
<1>6. Follows(buckets[r], setup.arrival[r], uses'[r], todo'[r], NamesOf(channel[r]),
              PendingNames(pending[r]), ReducedNames(reductions[r]))
  BY <1>3, <1>4, <1>5, OverlapFacts, FollowsBackward
<1> QED BY <1>2, <1>6 DEF RankFollows

LEMMA RegisterFollows ==
    ASSUME OInv, setup.overlap, Reduces, NEW r \in Ranks, Register(r)
    PROVE  RankFollows(r)'
<1> DEFINE g == [name |-> Head(todo[r]), grad |-> grad[r][Head(todo[r])]]
<1>1. /\ todo[r] # <<>> /\ channel'[r] = Append(channel[r], g) /\ todo'[r] = Tail(todo[r])
      /\ UNCHANGED <<setup, buckets, uses, pending, reductions>>
  BY OverlapFacts DEF Register, Typed
<1>2. g \in Named /\ g.name = Head(todo[r])
  <2>1. Head(todo[r]) \in Params
    BY <1>1, OverlapFacts, Tails
  <2>2. grad[r][Head(todo[r])] \in Gradient
    BY <2>1, OverlapFacts DEF Typed, Grads
  <2> QED BY <2>1, <2>2 DEF Named
<1> HIDE DEF g
<1>3. NamesOf(channel'[r]) = Append(NamesOf(channel[r]), Head(todo[r]))
  BY <1>1, <1>2, OverlapFacts, ItemNames
<1>4. Follows(buckets[r], setup.arrival[r], uses[r], todo[r], NamesOf(channel[r]),
              PendingNames(pending[r]), ReducedNames(reductions[r]))
  BY OverlapFacts DEF RankFollows
<1>5. Follows(buckets[r], setup.arrival[r], uses[r], todo'[r], NamesOf(channel'[r]),
              PendingNames(pending[r]), ReducedNames(reductions[r]))
  BY <1>1, <1>3, <1>4, OverlapFacts, FollowsRegister
<1> QED BY <1>1, <1>5 DEF RankFollows

LEMMA SlotFacts ==
    ASSUME NEW pd \in Slots
    PROVE  /\ PendingNames(pd) \in NameSlots
           /\ \A b \in 1 .. NP : PendingNames(pd)[b] = NamesOf(pd[b]) /\ pd[b] \in Items
           /\ \A b \in 1 .. NP, v \in Items :
                 PendingNames([pd EXCEPT ![b] = v]) = [PendingNames(pd) EXCEPT ![b] = NamesOf(v)]
<1>1. \A b \in 1 .. NP : pd[b] \in Items /\ NamesOf(pd[b]) \in Names
  BY ItemNames DEF Slots
<1>2. PendingNames(pd) \in NameSlots
  BY <1>1 DEF PendingNames, NameSlots
<1>3. ASSUME NEW b \in 1 .. NP, NEW v \in Items
      PROVE  PendingNames([pd EXCEPT ![b] = v]) = [PendingNames(pd) EXCEPT ![b] = NamesOf(v)]
  <2> DEFINE pd2 == [pd EXCEPT ![b] = v]
  <2>1. \A a \in 1 .. NP : pd2[a] = IF a = b THEN v ELSE pd[a]
    BY DEF Slots
  <2> HIDE DEF pd2
  <2>2. \A a \in 1 .. NP : NamesOf(pd2[a]) = IF a = b THEN NamesOf(v) ELSE NamesOf(pd[a])
    BY <2>1
  <2> QED BY <2>2 DEF PendingNames, pd2
<1> QED BY <1>1, <1>2, <1>3 DEF PendingNames

LEMMA ReducedFacts ==
    ASSUME NEW rs \in Reductions
    PROVE  /\ ReducedNames(rs) \in NameLists
           /\ \A p \in Items : ReducedNames(Append(rs, [parts |-> p, tag |-> NoTag]))
                                = Append(ReducedNames(rs), NamesOf(p))
<1> DEFINE names == ReducedNames(rs)
           n == Len(rs)
<1>1. /\ rs \in Seq(Reduction) /\ DOMAIN rs = 1 .. n /\ n \in Nat
      /\ \A m \in 1 .. n : rs[m] \in Reduction
  BY DEF Reductions
<1> HIDE DEF n
<1>2. \A m \in 1 .. n : NamesOf(rs[m].parts) \in Names
  <2>1. \A m \in 1 .. n : rs[m].parts \in Items
    BY <1>1 DEF Reduction
  <2> QED BY <2>1, ItemNames
<1>3. names = [m \in 1 .. n |-> NamesOf(rs[m].parts)]
  BY <1>1 DEF ReducedNames
<1> HIDE DEF names
<1>4. names \in Seq(Names) /\ Len(names) = n
  BY <1>1, <1>2, <1>3
<1>5. ASSUME NEW p \in Items
      PROVE  ReducedNames(Append(rs, [parts |-> p, tag |-> NoTag])) = Append(names, NamesOf(p))
  <2> DEFINE e == [parts |-> p, tag |-> NoTag]
             more == Append(rs, e)
  <2>1. e.parts = p
    OBVIOUS
  <2> HIDE DEF e
  <2>2. /\ DOMAIN more = 1 .. n + 1 /\ more[n + 1] = e
        /\ \A i \in 1 .. n : more[i] = rs[i]
    BY <1>1, AppendFacts DEF n
  <2> HIDE DEF more
  <2>3. ReducedNames(more) = [i \in 1 .. n + 1 |-> NamesOf(more[i].parts)]
    BY <2>2 DEF ReducedNames
  <2>4. NamesOf(p) \in Names
    BY ItemNames
  <2>5. Append(names, NamesOf(p)) = [i \in 1 .. n + 1 |->
                                       IF i = n + 1 THEN NamesOf(p) ELSE names[i]]
    <3> DEFINE s2 == Append(names, NamesOf(p))
               T == Names \union {NamesOf(p)}
    <3>1. /\ s2 \in Seq(T) /\ DOMAIN s2 = 1 .. n + 1 /\ s2[n + 1] = NamesOf(p)
          /\ \A i \in 1 .. n : s2[i] = names[i]
      BY <1>4, AppendFacts
    <3>2. s2 = [i \in DOMAIN s2 |-> s2[i]]
      <4>1. \A s \in Seq(T) : s = [i \in DOMAIN s |-> s[i]]
        OBVIOUS
      <4> HIDE DEF s2, T
      <4> QED BY <3>1, <4>1
    <3> HIDE DEF s2
    <3>3. \A i \in 1 .. n + 1 : s2[i] = IF i = n + 1 THEN NamesOf(p) ELSE names[i]
      <4>1. \A i \in 1 .. n + 1 : i = n + 1 \/ (i \in 1 .. n /\ i # n + 1)
        BY <1>1
      <4> QED BY <3>1, <4>1
    <3>4. s2 = [i \in 1 .. n + 1 |-> s2[i]]
      BY <3>1, <3>2
    <3>5. s2 = [i \in 1 .. n + 1 |-> IF i = n + 1 THEN NamesOf(p) ELSE names[i]]
      BY <3>3, <3>4
    <3> QED BY <3>5 DEF s2
  <2>6. \A i \in 1 .. n + 1 :
           NamesOf(more[i].parts) = IF i = n + 1 THEN NamesOf(p) ELSE names[i]
    <3> SUFFICES ASSUME NEW i \in 1 .. n + 1
                 PROVE  NamesOf(more[i].parts) = IF i = n + 1 THEN NamesOf(p) ELSE names[i]
      OBVIOUS
    <3>1. CASE i = n + 1
      BY <2>1, <2>2, <3>1
    <3>2. CASE i \in 1 .. n
      BY <1>1, <1>3, <2>2, <3>2
    <3> QED BY <1>1, <3>1, <3>2
  <2> QED BY <2>3, <2>5, <2>6 DEF e, more
<1> QED BY <1>4, <1>5 DEF NameLists, names

LEMMA ReceiveFollows ==
    ASSUME OInv, setup.overlap, Reduces, NEW r \in Ranks, WorkerReceive(r)
    PROVE  RankFollows(r)'
<1> DEFINE g == Head(channel[r])
           b == BucketOf(r, g.name)
           got == Append(pending[r][b], g)
           B == buckets[r]
           pn == PendingNames(pending[r])
           rn == ReducedNames(reductions[r])
<1>1. /\ channel[r] # <<>> /\ channel'[r] = Tail(channel[r])
      /\ UNCHANGED <<setup, buckets, uses, todo>>
      /\ \/ /\ Ready(r, b, Len(got))
            /\ reductions'[r] = Append(reductions[r], [parts |-> got, tag |-> NoTag])
            /\ pending'[r] = [pending[r] EXCEPT ![b] = <<>>]
         \/ /\ ~Ready(r, b, Len(got))
            /\ pending'[r] = [pending[r] EXCEPT ![b] = got] /\ reductions'[r] = reductions[r]
  BY OverlapFacts DEF WorkerReceive, Typed, mainVars, LeftPending
<1>2. g \in Named
  BY <1>1, OverlapFacts, Tails
<1>3. b \in 1 .. NP /\ b = BucketIn(B, g.name)
  BY OverlapFacts, BucketOfTyped, InBuckets
<1>4. Ready(r, b, Len(got)) <=> ReadyIn(B, b, Len(got))
  BY InBuckets
<1> HIDE DEF g, b
<1>5. pending[r][b] \in Items /\ pn[b] = NamesOf(pending[r][b]) /\ pn \in NameSlots
  <2>1. pending[r] \in Slots /\ b \in 1 .. NP
    BY <1>3, OverlapFacts
  <2> QED BY <2>1, SlotFacts
<1>6. got \in Items /\ NamesOf(got) = Append(pn[b], g.name)
  <2>1. got \in Items
    BY <1>2, <1>5, Tails
  <2>2. NamesOf(got) = Append(NamesOf(pending[r][b]), g.name)
    BY <1>2, <1>5, ItemNames
  <2> QED BY <1>5, <2>1, <2>2
<1> HIDE DEF got
<1>7. Len(NamesOf(got)) = Len(got)
  <2>1. NamesOf(got) \in Seq(Params) /\ got \in Seq(Named) /\ DOMAIN NamesOf(got) = DOMAIN got
    BY <1>6, ItemNames DEF Names, Items
  <2> QED BY <2>1
<1> DEFINE pn2 == PendingNames(pending'[r])
           rn2 == ReducedNames(reductions'[r])
<1>8. Stepped(B, pn, rn, g.name, pn2, rn2) /\ pn2 \in NameSlots /\ rn2 \in NameLists
  <2>1. rn \in NameLists
    BY OverlapFacts, ReducedFacts
  <2>2. <<>> \in Items /\ NamesOf(<<>>) = <<>> /\ <<>> \in Names /\ NamesOf(got) \in Names
    BY <1>6, ItemNames, NoNames, Tails
  <2>3. CASE Ready(r, b, Len(got))
    <3>1. /\ reductions'[r] = Append(reductions[r], [parts |-> got, tag |-> NoTag])
          /\ pending'[r] = [pending[r] EXCEPT ![b] = <<>>]
      BY <1>1, <2>3 DEF got, b, g
    <3>2. pn2 = [pn EXCEPT ![b] = <<>>]
      BY <1>3, <2>2, <3>1, OverlapFacts, SlotFacts
    <3>3. rn2 = Append(rn, NamesOf(got))
      BY <1>6, <3>1, OverlapFacts, ReducedFacts
    <3> HIDE DEF pn, rn, pn2, rn2, B
    <3>4. Stepped(B, pn, rn, g.name, pn2, rn2)
      BY <1>3, <1>4, <1>6, <1>7, <2>3, <3>2, <3>3 DEF Stepped
    <3>5. pn2 \in NameSlots
      BY <1>5, <2>2, <3>2 DEF NameSlots
    <3>6. rn2 \in NameLists
      BY <2>1, <2>2, <3>3 DEF NameLists
    <3> QED BY <3>4, <3>5, <3>6
  <2>4. CASE ~Ready(r, b, Len(got))
    <3>1. reductions'[r] = reductions[r] /\ pending'[r] = [pending[r] EXCEPT ![b] = got]
      BY <1>1, <2>4 DEF got, b, g
    <3>2. pn2 = [pn EXCEPT ![b] = NamesOf(got)]
      <4>1. b \in 1 .. NP /\ got \in Items /\ pending[r] \in Slots
        BY <1>3, <1>6, OverlapFacts
      <4>2. PendingNames([pending[r] EXCEPT ![b] = got])
            = [PendingNames(pending[r]) EXCEPT ![b] = NamesOf(got)]
        BY <4>1, SlotFacts
      <4> QED BY <3>1, <4>2
    <3>3. rn2 = rn
      BY <3>1
    <3> HIDE DEF pn, rn, pn2, rn2, B
    <3>4. Stepped(B, pn, rn, g.name, pn2, rn2)
      BY <1>3, <1>4, <1>6, <1>7, <2>4, <3>2, <3>3 DEF Stepped
    <3>5. pn2 \in NameSlots
      BY <1>5, <2>2, <3>2 DEF NameSlots
    <3> QED BY <2>1, <3>3, <3>4, <3>5
  <2> QED BY <2>3, <2>4
<1> DEFINE ch == NamesOf(channel[r])
<1>9. ch \in Names /\ ch # <<>> /\ Head(ch) = g.name /\ NamesOf(channel'[r]) = Tail(ch)
  BY <1>1, OverlapFacts, ItemNames DEF g
<1>10. Follows(B, setup.arrival[r], uses[r], todo[r], ch, pn, rn)
  BY OverlapFacts DEF RankFollows
<1> HIDE DEF pn2, rn2, pn, rn, ch
<1>11. Follows(B, setup.arrival[r], uses[r], todo[r], Tail(ch), pn2, rn2)
  BY <1>8, <1>9, <1>10, FollowsReceive
<1> QED BY <1>1, <1>9, <1>11 DEF RankFollows, pn2, rn2

\* What the reductions were handed stays.
Handed(r) ==
    \A n \in DOMAIN reductions[r] : /\ n \in DOMAIN reductions'[r]
                                    /\ reductions'[r][n].parts = reductions[r][n].parts

LEMMA TagKeeps ==
    ASSUME Typed, NEW r \in Ranks, ReductionStep(r)
    PROVE  Handed(r) /\ DOMAIN reductions'[r] = DOMAIN reductions[r]
<1>1. PICK n \in DOMAIN reductions[r] : ReductionStart(r, n) \/ ReductionEnd(r, n)
  BY DEF ReductionStep
<1>2. PICK t \in Nat \union {Ended} : reductions'[r] = [reductions[r] EXCEPT ![n].tag = t]
  <2>1. Len(calls[r]) + 1 \in Nat
    <3>1. calls[r] \in CallSeq
      BY DEF Typed
    <3> QED BY <3>1 DEF CallSeq
  <2>2. \/ reductions' = [reductions EXCEPT ![r][n].tag = Len(calls[r]) + 1]
        \/ reductions' = [reductions EXCEPT ![r][n].tag = Ended]
    BY <1>1 DEF ReductionStart, ReductionEnd
  <2>3. reductions \in [Ranks -> Reductions]
    BY DEF Typed
  <2> QED BY <2>1, <2>2, <2>3
<1>3. reductions[r] \in Reductions
  BY DEF Typed
<1>4. /\ DOMAIN reductions'[r] = DOMAIN reductions[r]
      /\ \A m \in DOMAIN reductions[r] : reductions'[r][m].parts = reductions[r][m].parts
  BY <1>2, <1>3, TagParts
<1> QED BY <1>4 DEF Handed

LEMMA ReductionFollows ==
    ASSUME OInv, setup.overlap, Reduces, NEW r \in Ranks, ReductionStep(r)
    PROVE  RankFollows(r)'
<1>1. UNCHANGED <<setup, buckets, uses, todo, channel, pending>>
  BY DEF ReductionStep, ReductionStart, ReductionEnd, mainVars
<1>2. Handed(r) /\ DOMAIN reductions'[r] = DOMAIN reductions[r]
  BY OverlapFacts, TagKeeps
<1>3. ReducedNames(reductions'[r]) = ReducedNames(reductions[r])
  BY <1>2 DEF ReducedNames, Handed
<1> QED BY <1>1, <1>3, OverlapFacts DEF RankFollows

LEMMA StepHands ==
    ASSUME Typed, NEW r \in Ranks,
           Backward(r) \/ InBackward(r) \/ InSync(r) \/ WorkerStep(r) \/ ReductionStep(r),
           NEW q \in Ranks
    PROVE  Handed(q)
<1>1. CASE q # r
  BY <1>1, OtherRanks DEF SameWork, Handed
<1>2. CASE q = r /\ reductions' = reductions
  BY <1>2 DEF Handed
<1>3. CASE q = r /\ ReductionStep(r)
  BY <1>3, TagKeeps
<1>4. CASE q = r /\ WorkerReceive(r)
  <2>1. \/ reductions'[r] = reductions[r]
        \/ \E x : reductions'[r] = Append(reductions[r], x)
    BY <1>4 DEF WorkerReceive, Typed
  <2>2. reductions[r] \in Seq(Reduction)
    BY DEF Typed, Reductions
  <2>3. \A x : /\ DOMAIN reductions[r] = 1 .. Len(reductions[r]) /\ Len(reductions[r]) \in Nat
               /\ DOMAIN Append(reductions[r], x) = 1 .. Len(reductions[r]) + 1
               /\ \A n \in 1 .. Len(reductions[r]) :
                     Append(reductions[r], x)[n] = reductions[r][n]
    BY <2>2, AppendFacts
  <2>4. \A x, n : n \in DOMAIN reductions[r] =>
           n \in DOMAIN Append(reductions[r], x) /\ Append(reductions[r], x)[n] = reductions[r][n]
    BY <2>3
  <2> QED BY <1>4, <2>1, <2>4 DEF Handed
<1>5. reductions' = reductions \/ ReductionStep(r) \/ WorkerReceive(r)
  BY DEF Backward, InBackward, Register, EndBackward, BeginSync, InSync, MainSkips, MainReduce,
         MainReduced, MainFails, EndSync, WorkerStep, WorkerDrop
<1> QED BY <1>1, <1>2, <1>3, <1>4, <1>5

LEMMA StepCalls ==
    ASSUME Typed, NEW r \in Ranks,
           Backward(r) \/ InBackward(r) \/ InSync(r) \/ WorkerStep(r) \/ ReductionStep(r),
           NEW q \in Ranks, CallsOf(q)
    PROVE  CallsOf(q)'
<1>1. Handed(q)
  BY StepHands
<1>2. CASE calls'[q] = calls[q]
  BY <1>1, <1>2 DEF CallsOf, Handed
<1>3. CASE q = r /\ MainReduce(r)
  <2>1. PICK c : c.by = 0 /\ calls' = [calls EXCEPT ![r] = Append(@, c)]
    <3> DEFINE c == [by |-> 0, step |-> Step(r), parts |-> PartsOf(r, Reducible(r))]
    <3>1. c.by = 0 /\ calls' = [calls EXCEPT ![r] = Append(@, c)]
      BY <1>3 DEF MainReduce, Post
    <3> QED BY <3>1
  <2>2. \A k \in DOMAIN calls'[r] : \/ k \in DOMAIN calls[r] /\ calls'[r][k] = calls[r][k]
                                    \/ calls'[r][k] = c
    BY <2>1, AppendedCall
  <2> QED BY <1>1, <1>3, <2>1, <2>2 DEF CallsOf, Handed
<1>4. ASSUME q = r, NEW n \in DOMAIN reductions[r], ReductionStart(r, n) PROVE CallsOf(q)'
  <2> DEFINE c == [by |-> n, step |-> 0, parts |-> reductions[r][n].parts]
  <2>1. calls' = [calls EXCEPT ![r] = Append(@, c)]
    BY <1>4 DEF ReductionStart, Post
  <2>2. c.by = n /\ c.step = 0 /\ c.parts = reductions[r][n].parts
    OBVIOUS
  <2> HIDE DEF c
  <2>3. \A k \in DOMAIN calls'[r] : \/ k \in DOMAIN calls[r] /\ calls'[r][k] = calls[r][k]
                                    \/ calls'[r][k] = c
    BY <2>1, AppendedCall
  <2>4. c.by \in DOMAIN reductions'[r] /\ c.parts = reductions'[r][n].parts
    BY <1>1, <1>4, <2>2 DEF Handed
  <2> QED BY <1>1, <1>4, <2>2, <2>3, <2>4 DEF CallsOf, Handed
<1>5. calls'[q] = calls[q] \/ (q = r /\ MainReduce(r))
      \/ (q = r /\ \E n \in DOMAIN reductions[r] : ReductionStart(r, n))
  <2>1. CASE calls' = calls
    BY <2>1
  <2>2. CASE MainReduce(r)
    <3>1. PICK c : calls' = [calls EXCEPT ![r] = Append(@, c)]
      BY <2>2 DEF MainReduce, Post
    <3> QED BY <2>2, <3>1 DEF Typed
  <2>3. CASE \E n \in DOMAIN reductions[r] : ReductionStart(r, n)
    <3>1. PICK c : calls' = [calls EXCEPT ![r] = Append(@, c)]
      BY <2>3 DEF ReductionStart, Post
    <3> QED BY <2>3, <3>1 DEF Typed
  <2>4. \/ calls' = calls \/ MainReduce(r)
        \/ \E n \in DOMAIN reductions[r] : ReductionStart(r, n)
    BY DEF Backward, InBackward, Register, EndBackward, BeginSync, InSync, MainSkips,
           MainReduced, MainFails, EndSync, WorkerStep, WorkerReceive, WorkerDrop,
           ReductionStep, ReductionEnd
  <2> QED BY <2>1, <2>2, <2>3, <2>4
<1> QED BY <1>2, <1>3, <1>4, <1>5

LEMMA StepFollows ==
    ASSUME OInv, PInv', WInv', NEW r \in Ranks,
           Backward(r) \/ InBackward(r) \/ InSync(r) \/ WorkerStep(r) \/ ReductionStep(r)
    PROVE  OInv'
<1>0. Typed
  BY DEF OInv, PInv, AInv, TInv
<1>1. setup' = setup
  BY DEF Backward, InBackward, Register, EndBackward, BeginSync, InSync, MainSkips, MainReduce,
         MainReduced, MainFails, EndSync, WorkerStep, WorkerReceive, WorkerDrop, ReductionStep,
         ReductionStart, ReductionEnd
<1>2. \A q \in Ranks : CallsOf(q)'
  BY <1>0, StepCalls DEF OInv
<1>3. ASSUME setup.overlap, Reduces, NEW q \in Ranks PROVE RankFollows(q)'
  <2>1. RankFollows(q)
    BY <1>3, OverlapFacts
  <2>2. CASE q # r
    BY <1>0, <2>1, <2>2, OtherRanks, SameFollows
  <2>3. CASE q = r
    <3>1. CASE EndBackward(r) \/ BeginSync(r) \/ InSync(r)
      BY <2>1, <2>3, <3>1, OtherSteps, SameFollows
    <3>2. ~WorkerDrop(r)
      BY <1>3 DEF WorkerDrop, Reduces
    <3> QED BY <1>3, <2>3, <3>1, <3>2, BackwardFollows, RegisterFollows, ReceiveFollows,
               ReductionFollows
            DEF InBackward, WorkerStep
  <2> QED BY <2>2, <2>3
<1>4. setup'.overlap /\ Reduces' => setup.overlap /\ Reduces
  BY <1>1 DEF Reduces
<1> QED BY <1>2, <1>3, <1>4 DEF OInv

LEMMA NextFollows == OInv /\ CInv /\ [Next]_vars => OInv'
<1> SUFFICES ASSUME OInv, CInv, [Next]_vars PROVE OInv'
  OBVIOUS
<1>1. PInv' /\ WInv'
  BY NextListed, NextWhole DEF OInv
<1>2. CASE Next
  BY <1>1, <1>2, StepFollows DEF Next
<1>3. CASE UNCHANGED vars
  <2>1. \A q \in Ranks : SameWork(q)
    BY <1>3 DEF vars, SameWork
  <2>2. setup'.overlap /\ Reduces' => setup.overlap /\ Reduces
    BY <1>3 DEF vars, Reduces
  <2>3. ASSUME setup.overlap, Reduces, NEW q \in Ranks PROVE RankFollows(q)'
    BY <2>1, <2>3, OverlapFacts, SameFollows
  <2>4. \A q \in Ranks : CallsOf(q)'
    BY <1>3 DEF vars, OInv, CallsOf
  <2> QED BY <1>1, <2>2, <2>3, <2>4 DEF OInv
<1> QED BY <1>2, <1>3

LEMMA InitFollows == Init => OInv
<1> SUFFICES ASSUME Init PROVE OInv
  OBVIOUS
<1>1. PInv /\ WInv
  BY InitListed, InitWhole
<1>2. \A r \in Ranks : /\ todo[r] = <<>> /\ channel[r] = <<>> /\ reductions[r] = <<>>
                       /\ calls[r] = <<>> /\ uses[r] = <<>>
                       /\ pending[r] = [b \in 1 .. NP |-> <<>>]
  BY DEF Init, NP
<1>3. \A r \in Ranks : CallsOf(r)
  <2>1. \A r \in Ranks : DOMAIN calls[r] = {}
    BY <1>2
  <2> QED BY <2>1 DEF CallsOf
<1>4. ASSUME NEW r \in Ranks PROVE RankFollows(r)
  <2> DEFINE o == setup.arrival[r]
             B == buckets[r]
             none == [b \in 1 .. NP |-> <<>>]
             P == [i \in 0 .. 0 |-> none]
             O == [i \in 0 .. 0 |-> <<>>]
             w == NamesAt(o, <<>>, <<>>)
  <2>1. PendingNames(pending[r]) = none
    BY <1>2, NoNames DEF PendingNames
  <2>2. ReducedNames(reductions[r]) = <<>>
    BY <1>2 DEF ReducedNames
  <2>3. NamesOf(channel[r]) = <<>>
    BY <1>2, NoNames
  <2>4. RestOf(o, <<>>, <<>>)
    BY DEF RestOf
  <2>5. DOMAIN <<>> = {} /\ Len(<<>>) = 0 /\ <<>> \in Seq(Positions) /\ <<>> \in Names
        /\ <<>> \in NameLists
    BY DEF Names, NameLists
  <2>6. Sent(o, <<>>, <<>>) = {}
    BY <2>5 DEF Sent
  <2>7. Enumerates(<<>>, {})
    BY <2>5 DEF Enumerates
  <2>8. P \in [0 .. 0 -> NameSlots] /\ O \in [0 .. 0 -> NameLists] /\ P[0] = none /\ O[0] = <<>>
    <3>1. none \in NameSlots
      BY <2>5 DEF NameSlots
    <3> HIDE DEF none
    <3> QED BY <2>5, <3>1
  <2> HIDE DEF P, O, w, o, B
  <2>9. History(B, w, 0, P, O)
    BY <2>8 DEF History
  <2>10. Followed(B, o, <<>>, <<>>, <<>>, none, <<>>, <<>>, P, O)
    BY <2>5, <2>6, <2>7, <2>8, <2>9 DEF Followed, w
  <2> HIDE DEF none
  <2>11. Follows(B, o, <<>>, <<>>, <<>>, none, <<>>)
    BY <2>4, <2>5, <2>10 DEF Follows
  <2> QED BY <1>2, <2>1, <2>2, <2>3, <2>11 DEF RankFollows, B, o
<1> QED BY <1>1, <1>3, <1>4 DEF OInv

LEMMA FollowsIsInStep == OInv => OverlapInStep
<1> SUFFICES ASSUME OInv, setup.overlap, DistinctSizes, SameUses,
                    \A q, r \in Ranks : setup.arrival[q] = setup.arrival[r],
                    \A r \in Ranks : StartedInOrder(r),
                    NEW q \in Ranks, NEW r \in Ranks,
                    NEW k \in DOMAIN calls[q] \intersect DOMAIN calls[r]
             PROVE  /\ calls[q][k].by = calls[r][k].by /\ calls[q][k].step = calls[r][k].step
                    /\ NamesOf(calls[q][k].parts) = NamesOf(calls[r][k].parts)
  BY DEF OverlapInStep, Paired
<1>0. Typed
  BY DEF OInv, PInv, AInv, TInv
<1>1. calls[q][k].by = k /\ calls[r][k].by = k /\ k # 0
  <2>1. calls[q] \in CallSeq
    BY <1>0 DEF Typed
  <2>2. DOMAIN calls[q] = 1 .. Len(calls[q]) /\ Len(calls[q]) \in Nat
    BY <2>1 DEF CallSeq
  <2> QED BY <2>2 DEF StartedInOrder
<1>2. /\ calls[q][k].step = 0 /\ k \in DOMAIN reductions[q]
      /\ calls[q][k].parts = reductions[q][k].parts
      /\ calls[r][k].step = 0 /\ k \in DOMAIN reductions[r]
      /\ calls[r][k].parts = reductions[r][k].parts
  BY <1>1 DEF OInv, CallsOf
<1>3. Reduces
  <2>1. DOMAIN <<>> = {}
    OBVIOUS
  <2> QED BY <1>2, <2>1 DEF OInv, WInv
<1>4. buckets[q] = buckets[r]
  <2>1. setup \in Setup
    BY <1>0, DdpAssumption DEF Typed
  <2>2. SortedBySize(setup, q) = SortedBySize(setup, r)
    BY <2>1, SortedAlike DEF DistinctSizes
  <2> QED BY <2>2 DEF OInv, PInv, Buckets
<1> DEFINE qn == ReducedNames(reductions[q])
           rn == ReducedNames(reductions[r])
           o == setup.arrival[r]
           B == buckets[r]
<1>5. qn[k] = rn[k]
  <2>1. Follows(B, o, uses[q], todo[q], NamesOf(channel[q]), PendingNames(pending[q]), qn)
    BY <1>3, <1>4, OverlapFacts DEF RankFollows
  <2>2. Follows(B, o, uses[r], todo[r], NamesOf(channel[r]), PendingNames(pending[r]), rn)
    BY <1>3, OverlapFacts DEF RankFollows
  <2>3. /\ o \in Orders /\ uses[q] \in UseSeq /\ uses[r] \in UseSeq
        /\ todo[q] \in Names /\ todo[r] \in Names
        /\ NamesOf(channel[q]) \in Names /\ NamesOf(channel[r]) \in Names
    BY <1>3, OverlapFacts
  <2>4. AgreeOn(uses[q], uses[r])
    BY DEF SameUses, AgreeOn
  <2>5. k \in DOMAIN qn /\ k \in DOMAIN rn
    BY <1>2 DEF ReducedNames
  <2> HIDE DEF qn, rn, o, B
  <2> QED BY <2>1, <2>2, <2>3, <2>4, <2>5, FollowsAlike
<1>6. qn[k] = NamesOf(reductions[q][k].parts) /\ rn[k] = NamesOf(reductions[r][k].parts)
  BY <1>2 DEF ReducedNames
<1> HIDE DEF qn, rn
<1> QED BY <1>1, <1>2, <1>5, <1>6

\* Ranks whose parameters all differ in size, that give gradients to the same
\* parameters and register them in the same order, reduce the same buckets
\* under the same numbers as long as no reduction overtakes another: however
\* far each worker lags behind its backward passes.
THEOREM OverlappedInStep == Spec => []OverlapInStep
BY InitFollows, NextFollows, InitCalls, NextCalls, FollowsIsInStep, PTL DEF Spec
-----------------------------------------------------------------------------
(* Mixed gradients.                                                         *)

\* What sync_gradients reduces at once: part of a bucket, or one parameter.
Cut(B, names) ==
    \/ \E b \in DOMAIN B : \E S \in SUBSET Params : names = Among(B[b], S)
    \/ \E p \in Params : names = <<p>>

\* What it has queued: a bucket, or one parameter.
QueuedWhole(B, qs) ==
    \A j \in DOMAIN qs : \/ \E b \in DOMAIN B : qs[j].names = B[b]
                         \/ \E p \in Params : qs[j].names = <<p>>

CallsCut(B, cs) ==
    \A k \in DOMAIN cs :
        /\ cs[k].by = 0 /\ Cut(B, NamesOf(cs[k].parts))
        /\ NamesOf(cs[k].parts) # <<>> /\ Unrepeated(NamesOf(cs[k].parts))

MainCuts(r) == QueuedWhole(buckets[r], queue[r]) /\ CallsCut(buckets[r], calls[r])

OneOfEach(r) == \A p \in Params : OfItself(r, p)

MInv ==
    /\ PInv
    /\ ~setup.overlap => \A r \in Ranks : MainCuts(r)
    /\ ~setup.overlap /\ SizesTell => \A r \in Ranks : OneOfEach(r)

\* A sequence that never repeats a parameter has no more than there are.
LEMMA InLists ==
    ASSUME NEW names \in Names, names # <<>>, Unrepeated(names)
    PROVE  names \in Lists
<1> DEFINE N == Len(names)
<1>1. names \in [1 .. N -> Params] /\ N \in Nat /\ N # 0 /\ DOMAIN names = 1 .. N
  BY DEF Names
<1> HIDE DEF N
<1>2. names \in Injection(1 .. N, Params)
  BY <1>1 DEF Unrepeated, Injection, IsInjective
<1>3. Cardinality(1 .. N) <= NP
  BY <1>2, DdpAssumption, FS_Injection DEF NP
<1>4. Cardinality(1 .. N) = N
  BY <1>1, FS_Interval
<1>5. N \in 1 .. NP
  BY <1>1, <1>3, <1>4, ParamsCount
<1>6. names \in UNION {[1 .. n -> Params] : n \in 1 .. Cardinality(Params)}
  BY <1>1, <1>5 DEF NP
<1> QED BY <1>6 DEF Lists, Unrepeated

\* A sequence without repetitions that has one parameter only.
LEMMA OneName ==
    ASSUME NEW names \in Names, names # <<>>, Unrepeated(names), NEW p \in Params,
           \A i \in DOMAIN names : names[i] = p
    PROVE  names = <<p>>
<1>1. names \in Seq(Params) /\ Len(names) \in Nat /\ DOMAIN names = 1 .. Len(names)
      /\ Len(names) # 0
  BY DEF Names
<1>2. Len(names) = 1
  <2>1. ASSUME Len(names) # 1 PROVE FALSE
    <3>1. 1 \in DOMAIN names /\ 2 \in DOMAIN names
      BY <1>1, <2>1
    <3>2. names[1] = names[2]
      BY <3>1
    <3> QED BY <3>1, <3>2 DEF Unrepeated
  <2> QED BY <2>1
<1>3. names[1] = p
  BY <1>1, <1>2
<1> QED BY <1>1, <1>2, <1>3

\* With the same buckets, what is cut tells its order by its parameters.
LEMMA SameCut ==
    ASSUME NEW B, Partition(B) \/ B = <<>>,
           NEW these \in Names, these # <<>>, Unrepeated(these), Cut(B, these),
           NEW those \in Names, those # <<>>, Unrepeated(those), Cut(B, those),
           \A p : Has(these, p) <=> Has(those, p)
    PROVE  these = those
<1>1. ASSUME NEW p \in Params, these = <<p>> PROVE these = those
  <2>1. \A i \in DOMAIN those : Has(these, those[i])
    BY DEF Has
  <2>2. \A i \in DOMAIN those : those[i] = p
    BY <1>1, <2>1 DEF Has
  <2>3. those = <<p>>
    BY <2>2, OneName
  <2> QED BY <1>1, <2>3
<1>2. ASSUME NEW p \in Params, those = <<p>> PROVE these = those
  <2>1. \A i \in DOMAIN these : Has(those, these[i])
    BY DEF Has
  <2>2. \A i \in DOMAIN these : these[i] = p
    BY <1>2, <2>1 DEF Has
  <2>3. these = <<p>>
    BY <2>2, OneName
  <2> QED BY <1>2, <2>3
<1>3. ASSUME NEW b \in DOMAIN B, NEW S \in SUBSET Params, these = Among(B[b], S),
             NEW c \in DOMAIN B, NEW T \in SUBSET Params, those = Among(B[c], T)
      PROVE  these = those
  <2>1. Partition(B)
    <3>1. B # <<>>
      BY <1>3
    <3> QED BY <3>1
  <2>2. B[b] \in Seq(Params) /\ B[c] \in Seq(Params) /\ Unrepeated(B[b]) /\ Unrepeated(B[c])
    <3>1. B \in Seq(Seq(Params))
      BY <2>1 DEF Partition
    <3>2. B[b] \in Seq(Params) /\ B[c] \in Seq(Params)
      BY <3>1
    <3>3. \A e, f \in DOMAIN B : \A i \in DOMAIN B[e], j \in DOMAIN B[f] :
             B[e][i] = B[f][j] => e = f /\ i = j
      BY <2>1 DEF Partition
    <3> QED BY <3>2, <3>3 DEF Unrepeated
  <2>3. /\ \A i \in DOMAIN these : these[i] \in S /\ Has(B[b], these[i])
        /\ \A j \in DOMAIN B[b] : B[b][j] \in S => Has(these, B[b][j])
    BY <1>3, <2>2, AmongFacts DEF Has
  <2>4. /\ \A i \in DOMAIN those : those[i] \in T /\ Has(B[c], those[i])
        /\ \A j \in DOMAIN B[c] : B[c][j] \in T => Has(those, B[c][j])
    BY <1>3, <2>2, AmongFacts DEF Has
  <2>5. b = c
    <3>1. 1 \in DOMAIN these
      BY DEF Names
    <3>2. Has(those, these[1])
      BY <3>1 DEF Has
    <3>3. Has(B[b], these[1]) /\ Has(B[c], these[1])
      BY <2>3, <2>4, <3>1, <3>2 DEF Has
    <3> QED BY <2>1, <3>3 DEF Partition, Has
  <2>6. \A j \in DOMAIN B[b] : B[b][j] \in S <=> B[b][j] \in T
    <3>1. \A j \in DOMAIN B[b] : /\ B[b][j] \in S <=> Has(these, B[b][j])
                                 /\ B[b][j] \in T <=> Has(those, B[b][j])
      BY <2>3, <2>4, <2>5 DEF Has
    <3> QED BY <3>1
  <2> QED BY <1>3, <2>2, <2>5, <2>6, AmongAlike
<1> QED BY <1>1, <1>2, <1>3 DEF Cut

\* The length of a call is where its last part ends.
LEMMA LengthFacts ==
    ASSUME NEW parts \in Items
    PROVE  /\ NamesOf(parts) \in Names
           /\ LengthOf(parts) = Offsets(NamesOf(parts))[Len(NamesOf(parts))]
<1>1. parts \in Seq(Named) /\ DOMAIN NamesOf(parts) = DOMAIN parts
  BY DEF Items, NamesOf
<1>2. \A j \in DOMAIN parts : parts[j] \in Named
  BY <1>1
<1>3. \A j \in DOMAIN parts : parts[j].name \in Params
  BY <1>2 DEF Named
<1>4. NamesOf(parts) \in Seq(Params) /\ Len(NamesOf(parts)) = Len(parts)
  BY <1>1, <1>3 DEF NamesOf
<1> QED BY <1>4 DEF LengthOf, Names

\* Calls of one length are about the same parameters, in the same order.
LEMMA SameNames ==
    ASSUME MInv, ~setup.overlap, SizesTell, NEW q \in Ranks, NEW r \in Ranks,
           NEW k \in DOMAIN calls[q] \intersect DOMAIN calls[r],
           LengthOf(calls[q][k].parts) = LengthOf(calls[r][k].parts)
    PROVE  NamesOf(calls[q][k].parts) = NamesOf(calls[r][k].parts)
<1> DEFINE these == NamesOf(calls[q][k].parts)
           those == NamesOf(calls[r][k].parts)
           B == buckets[r]
<1>1. TInv /\ Typed
  BY DEF MInv, PInv, AInv, TInv
<1>2. calls[q][k].parts \in Items /\ calls[r][k].parts \in Items
  <2>1. calls[q] \in Seq(Call) /\ calls[r] \in Seq(Call)
    BY <1>1 DEF Typed, CallSeq
  <2>2. calls[q][k] \in Call /\ calls[r][k] \in Call
    BY <2>1
  <2> QED BY <2>2 DEF Call, Items
<1>3. /\ these \in Names /\ those \in Names
      /\ Offsets(these)[Len(these)] = Offsets(those)[Len(those)]
  BY <1>2, LengthFacts
<1>4. /\ these # <<>> /\ Unrepeated(these) /\ Cut(buckets[q], these)
      /\ those # <<>> /\ Unrepeated(those) /\ Cut(B, those)
  BY DEF MInv, MainCuts, CallsCut
<1> HIDE DEF these, those
<1>5. these \in Lists /\ those \in Lists
  BY <1>3, <1>4, InLists
<1>6. ToSet(these) = ToSet(those)
  BY <1>3, <1>5 DEF SizesTell
<1>7. \A p : Has(these, p) <=> Has(those, p)
  <2>1. \A p : /\ Has(these, p) <=> p \in ToSet(these)
               /\ Has(those, p) <=> p \in ToSet(those)
    BY DEF Has, ToSet
  <2> QED BY <1>6, <2>1
<1>8. buckets[q] = B
  <2>1. setup \in Setup
    BY <1>1, SetupFacts
  <2>2. \A x, y \in Params : setup.size[x] = setup.size[y] => x = y
    <3> SUFFICES ASSUME NEW x \in Params, NEW y \in Params, setup.size[x] = setup.size[y]
                 PROVE  x = y
      OBVIOUS
    <3>1. <<x>> \in Names /\ <<y>> \in Names /\ Unrepeated(<<x>>) /\ Unrepeated(<<y>>)
      BY DEF Names, Unrepeated
    <3>2. <<x>> \in Lists /\ <<y>> \in Lists
      BY <3>1, InLists
    <3>3. \A z \in Params : Offsets(<<z>>)[Len(<<z>>)] = setup.size[z]
      <4> SUFFICES ASSUME NEW z \in Params PROVE Offsets(<<z>>)[1] = setup.size[z]
        OBVIOUS
      <4>1. <<z>> \in Seq(Params) /\ 1 \in 1 .. Len(<<z>>) /\ <<z>>[1] = z
        OBVIOUS
      <4>2. setup.size \in [Params -> Nat \ {0}]
        BY <1>1, SetupFacts
      <4>3. Offsets(<<z>>)[0] = 0 /\ Offsets(<<z>>)[1]
                    = Offsets(<<z>>)[1 - 1] + setup.size[<<z>>[1]]
        BY <4>1, <4>2, OffsetsFacts
      <4>4. setup.size[z] \in Nat
        BY <4>2
      <4> QED BY <4>1, <4>3, <4>4
    <3>4. ToSet(<<x>>) = ToSet(<<y>>)
      BY <3>2, <3>3 DEF SizesTell
    <3>5. \A z \in Params : ToSet(<<z>>) = {z}
      <4> SUFFICES ASSUME NEW z \in Params PROVE ToSet(<<z>>) = {z}
        OBVIOUS
      <4> DEFINE one == <<z>>
      <4>1. DOMAIN one = {1} /\ one[1] = z
        OBVIOUS
      <4> HIDE DEF one
      <4>2. ToSet(one) = {z}
        BY <4>1 DEF ToSet
      <4> QED BY <4>2 DEF one
    <3> QED BY <3>4, <3>5
  <2>3. SortedBySize(setup, q) = SortedBySize(setup, r)
    BY <2>1, <2>2, SortedAlike
  <2> QED BY <2>3 DEF MInv, PInv, Buckets
<1>9. Partition(B) \/ B = <<>>
  BY <1>1, BucketFacts, SetupFacts
<1> HIDE DEF B
<1>10. these = those
  BY <1>3, <1>4, <1>7, <1>8, <1>9, SameCut
<1> QED BY <1>10 DEF these, those

LEMMA MixFacts ==
    ASSUME MInv, ~setup.overlap, NEW r \in Ranks
    PROVE  /\ TInv /\ Typed /\ AInv /\ MainCuts(r)
           /\ QueuedWhole(buckets[r], queue[r]) /\ CallsCut(buckets[r], calls[r])
           /\ queue[r] \in Entries /\ calls[r] \in CallSeq
           /\ SizesTell => OneOfEach(r)
BY DEF MInv, MainCuts, PInv, AInv, TInv, Typed

LEMMA WholeTail ==
    ASSUME NEW B, NEW qs \in Entries, qs # <<>>, QueuedWhole(B, qs)
    PROVE  QueuedWhole(B, Tail(qs))
<1>1. \A j \in DOMAIN Tail(qs) : j + 1 \in DOMAIN qs /\ Tail(qs)[j] = qs[j + 1]
  BY TailFacts DEF Entries
<1> SUFFICES ASSUME NEW j \in DOMAIN Tail(qs)
             PROVE  \/ \E b \in DOMAIN B : Tail(qs)[j].names = B[b]
                    \/ \E p \in Params : Tail(qs)[j].names = <<p>>
  BY DEF QueuedWhole
<1> QED BY <1>1 DEF QueuedWhole

LEMMA WholeOneByOne ==
    ASSUME NEW B, NEW names \in Names
    PROVE  QueuedWhole(B, OneByOne(names))
<1>1. \A i \in DOMAIN names : names[i] \in Params
  BY DEF Names
<1>2. /\ DOMAIN OneByOne(names) = DOMAIN names
      /\ \A i \in DOMAIN names : OneByOne(names)[i].names = <<names[i]>>
  BY DEF OneByOne
<1> QED BY <1>1, <1>2 DEF QueuedWhole

LEMMA WholeConcat ==
    ASSUME NEW B, NEW qs \in Entries, NEW rs \in Entries, QueuedWhole(B, qs), QueuedWhole(B, rs)
    PROVE  QueuedWhole(B, qs \o rs)
<1> DEFINE N == Len(qs)
           all == qs \o rs
<1>1. qs \in Seq(Entry) /\ rs \in Seq(Entry) /\ N \in Nat
  BY DEF Entries
<1>2. \A j \in DOMAIN all : \/ j \in DOMAIN qs /\ all[j] = qs[j]
                            \/ j - N \in DOMAIN rs /\ all[j] = rs[j - N]
  BY <1>1
<1> HIDE DEF all, N
<1> SUFFICES ASSUME NEW j \in DOMAIN all
             PROVE  \/ \E b \in DOMAIN B : all[j].names = B[b]
                    \/ \E p \in Params : all[j].names = <<p>>
  BY DEF QueuedWhole, all
<1>3. CASE j \in DOMAIN qs /\ all[j] = qs[j]
  BY <1>3 DEF QueuedWhole
<1>4. CASE j - N \in DOMAIN rs /\ all[j] = rs[j - N]
  BY <1>4 DEF QueuedWhole
<1> QED BY <1>2, <1>3, <1>4

\* What is reduced of the first of the queue is cut out of it.
LEMMA ReducibleCut ==
    ASSUME MInv, ~setup.overlap, NEW r \in Ranks, queue[r] # <<>>, Reducible(r) # <<>>
    PROVE  Cut(buckets[r], Reducible(r))
<1> DEFINE S == {p \in Params : HasGrad(r, p)}
           head == Head(queue[r]).names
           names == Reducible(r)
<1>1. names = Among(head, S) /\ S \in SUBSET Params
  BY DEF Reducible
<1>2. /\ names \in Names /\ Unrepeated(names)
      /\ \A i \in DOMAIN names : \E j \in DOMAIN head : head[j] = names[i]
  BY MixFacts, ReducibleFacts
<1>3. 1 \in DOMAIN queue[r] /\ Head(queue[r]) = queue[r][1]
  BY MixFacts DEF Entries
<1>4. \/ \E b \in DOMAIN buckets[r] : head = buckets[r][b]
      \/ \E p \in Params : head = <<p>>
  BY <1>3, MixFacts DEF QueuedWhole
<1> HIDE DEF head, names, S
<1>5. ASSUME NEW b \in DOMAIN buckets[r], head = buckets[r][b] PROVE Cut(buckets[r], names)
  BY <1>1, <1>5 DEF Cut
<1>6. ASSUME NEW p \in Params, head = <<p>> PROVE Cut(buckets[r], names)
  <2>1. \A j \in DOMAIN head : head[j] = p
    BY <1>6
  <2>2. \A i \in DOMAIN names : names[i] = p
    BY <1>2, <2>1
  <2>3. names = <<p>>
    BY <1>2, <2>2, OneName DEF names
  <2> QED BY <2>3 DEF Cut
<1> QED BY <1>4, <1>5, <1>6 DEF names

LEMMA MainReduceCuts ==
    ASSUME MInv, ~setup.overlap, NEW r \in Ranks, MainReduce(r)
    PROVE  MainCuts(r)'
<1> DEFINE names == Reducible(r)
           call == [by |-> 0, step |-> Step(r), parts |-> PartsOf(r, names)]
           n == Len(calls[r]) + 1
<1>1. /\ queue[r] # <<>> /\ names # <<>> /\ UNCHANGED <<buckets, queue>>
      /\ calls' = [calls EXCEPT ![r] = Append(@, call)]
  BY DEF MainReduce, Post, mainVars
<1>2. Typed /\ TInv
  BY MixFacts
<1>3. names \in Names /\ Unrepeated(names) /\ Cut(buckets[r], names)
  BY <1>1, <1>2, ReducibleFacts, ReducibleCut
<1>4. NamesOf(call.parts) = names /\ call.by = 0
  BY <1>2, <1>3, PartsTyped
<1> HIDE DEF call, names
<1>5. /\ DOMAIN calls'[r] = DOMAIN calls[r] \union {n} /\ calls'[r][n] = call
      /\ \A k \in DOMAIN calls[r] : calls'[r][k] = calls[r][k]
  BY <1>1, <1>2, AppendedCall
<1> HIDE DEF n
<1>6. CallsCut(buckets[r], calls'[r])
  <2> SUFFICES ASSUME NEW k \in DOMAIN calls'[r]
               PROVE  /\ calls'[r][k].by = 0 /\ Cut(buckets[r], NamesOf(calls'[r][k].parts))
                      /\ NamesOf(calls'[r][k].parts) # <<>>
                      /\ Unrepeated(NamesOf(calls'[r][k].parts))
    BY DEF CallsCut
  <2>1. CASE k = n
    BY <1>1, <1>3, <1>4, <1>5, <2>1
  <2>2. CASE k # n
    BY <1>5, <2>2, MixFacts DEF CallsCut
  <2> QED BY <2>1, <2>2
<1> QED BY <1>1, <1>6, MixFacts DEF MainCuts

LEMMA MainStepCuts ==
    ASSUME MInv, ~setup.overlap, NEW r \in Ranks,
           Backward(r) \/ EndBackward(r) \/ BeginSync(r) \/ InSync(r)
    PROVE  MainCuts(r)'
<1>0. Typed /\ queue[r] \in Entries /\ TInv
  BY MixFacts
<1>1. ASSUME QueuedWhole(buckets[r], queue'[r]), buckets' = buckets, calls' = calls
      PROVE  MainCuts(r)'
  BY <1>1, MixFacts DEF MainCuts
<1>2. CASE Backward(r) \/ EndBackward(r) \/ EndSync(r)
  BY <1>1, <1>2, MixFacts DEF Backward, EndBackward, EndSync
<1>3. CASE BeginSync(r)
  <2>1. buckets' = buckets /\ calls' = calls
    BY <1>3 DEF BeginSync
  <2>2. CASE queue' = [queue EXCEPT ![r] = ByBucket(r)]
    <3>1. queue'[r] = ByBucket(r)
      BY <1>0, <2>2 DEF Typed
    <3>2. QueuedWhole(buckets[r], ByBucket(r))
      BY DEF ByBucket, QueuedWhole
    <3> QED BY <1>1, <2>1, <3>1, <3>2
  <2>3. CASE \E o \in Orders : queue' = [queue EXCEPT ![r] = OneByOne(o)]
    <3>1. PICK o \in Orders : queue' = [queue EXCEPT ![r] = OneByOne(o)]
      BY <2>3
    <3>2. queue'[r] = OneByOne(o) /\ o \in Names
      BY <1>0, <3>1, OrderUnrepeated DEF Typed
    <3> QED BY <1>1, <2>1, <3>2, WholeOneByOne
  <2> QED BY <1>3, <2>2, <2>3 DEF BeginSync
<1>4. CASE MainSkips(r) \/ MainReduced(r)
  <2>1. /\ queue[r] # <<>> /\ queue' = [queue EXCEPT ![r] = Tail(@)]
        /\ buckets' = buckets /\ calls' = calls
    BY <1>0, <1>4 DEF MainSkips, MainReduced, TInv, QueueRight
  <2>2. queue'[r] = Tail(queue[r])
    BY <1>0, <2>1 DEF Typed
  <2> QED BY <1>0, <1>1, <2>1, <2>2, WholeTail, MixFacts
<1>5. CASE MainFails(r)
  <2>1. queue[r] # <<>> /\ buckets' = buckets /\ calls' = calls
    BY <1>0, <1>5 DEF MainFails, TInv, QueueRight
  <2>2. queue'[r] = IF Head(queue[r]).fallback
                    THEN OneByOne(Reducible(r)) \o Tail(queue[r]) ELSE <<>>
    BY <1>0, <1>5 DEF MainFails, Typed
  <2>3. Reducible(r) \in Names
    BY <1>0, <2>1, ReducibleFacts
  <2>4. OneByOne(Reducible(r)) \in Entries /\ Tail(queue[r]) \in Entries
    BY <1>0, <2>1, <2>3, OneByOneTyped, Tails
  <2>5. QueuedWhole(buckets[r], OneByOne(Reducible(r)) \o Tail(queue[r]))
    BY <1>0, <2>1, <2>3, <2>4, WholeOneByOne, WholeTail, WholeConcat, MixFacts
  <2>6. QueuedWhole(buckets[r], <<>>)
    BY DEF QueuedWhole
  <2> QED BY <1>1, <2>1, <2>2, <2>5, <2>6
<1> QED BY <1>2, <1>3, <1>4, <1>5, MainReduceCuts DEF InSync

\* A gradient that is replaced is the average of that parameter's.
LEMMA MainReducedOne ==
    ASSUME MInv, ~setup.overlap, SizesTell, NEW r \in Ranks, MainReduced(r)
    PROVE  OneOfEach(r)'
<1> DEFINE k == mainTag[r]
           parts == calls[r][k].parts
<1>0. Typed /\ AInv /\ OneOfEach(r)
  BY MixFacts
<1>1. /\ k # NoTag /\ Succeeds(k) /\ UNCHANGED <<setup, uses, calls>>
      /\ grad'[r] = [p \in Params |->
                        IF \E i \in DOMAIN parts : parts[i].name = p
                        THEN Averaged(r, k, CHOOSE i \in DOMAIN parts : parts[i].name = p)
                        ELSE grad[r][p]]
  BY <1>0 DEF MainReduced, Typed
<1>2. k \in DOMAIN calls[r] /\ calls[r][k].step = Step(r)
  <2>1. TagRight(r) /\ mainTag[r] # NoTag
    BY <1>0, <1>1, RightFacts
  <2> QED BY <2>1 DEF TagRight
<1>3. \A q \in Ranks : k \in DOMAIN calls[q] /\ calls[q] \in Seq(Call)
  <2>1. \A q \in Ranks : calls[q] \in Seq(Call)
    BY <1>0 DEF Typed, CallSeq
  <2> HIDE DEF k
  <2> QED BY <1>1, <1>2, <2>1 DEF Succeeds, Met
<1> HIDE DEF k
<1>4. \A q \in Ranks : calls[q][k].by = 0 /\ CallRight(q)
  BY <1>0, <1>3, MixFacts, RightFacts DEF CallsCut
<1>5. \A q \in Ranks : NamesOf(calls[q][k].parts) = NamesOf(calls[r][k].parts)
  <2>1. \A q \in Ranks : LengthOf(calls[q][k].parts) = LengthOf(calls[r][k].parts)
    BY <1>1 DEF Succeeds, SameLength
  <2> QED BY <1>2, <1>3, <2>1, SameNames
<1>6. ASSUME NEW q \in Ranks PROVE calls[q][k].step \in 1 .. MaxSteps
  <2>1. calls[q][k] \in Call /\ NamesOf(calls[q][k].parts) # <<>>
    BY <1>3, MixFacts DEF CallsCut
  <2>2. calls[q][k].parts \in Seq(Named)
    BY <2>1 DEF Call
  <2>3. 1 \in DOMAIN calls[q][k].parts
    <3> DEFINE ps == calls[q][k].parts
    <3>1. ps # <<>>
      <4>1. NamesOf(<<>>) = <<>>
        BY NoNames
      <4> QED BY <2>1, <4>1
    <3> HIDE DEF ps
    <3>2. ps \in Seq(Named)
      BY <2>2 DEF ps
    <3>3. 1 \in DOMAIN ps
      BY <3>1, <3>2
    <3> QED BY <3>3 DEF ps
  <2>4. calls[q][k].parts[1] \in Named
    BY <2>2, <2>3
  <2>5. /\ calls[q][k].parts[1].grad \in Gradient
        /\ <<q, calls[q][k].parts[1].name, calls[q][k].step>> \in calls[q][k].parts[1].grad
    <3>1. calls[q][k].parts[1].grad = {<<q, calls[q][k].parts[1].name, calls[q][k].step>>}
      BY <1>3, <1>4, <2>3 DEF CallRight
    <3> QED BY <2>4, <3>1 DEF Named
  <2> QED BY <2>5 DEF Gradient
<1> SUFFICES ASSUME NEW p \in Params PROVE OfItself(r, p)'
  BY DEF OneOfEach
<1>7. Step(r)' = Step(r)
  BY <1>1 DEF Step
<1>8. CASE \E i \in DOMAIN parts : parts[i].name = p
  <2> DEFINE i == CHOOSE i \in DOMAIN parts : parts[i].name = p
             pass == [q \in Ranks |-> calls[q][k].step]
  <2>1. i \in DOMAIN parts /\ parts[i].name = p
    BY <1>8
  <2>2. grad'[r][p] = Averaged(r, k, i)
    BY <1>1, <1>8
  <2> HIDE DEF i
  <2>3. Averaged(r, k, i) = {<<q, parts[i].name, calls[q][k].step>> : q \in Ranks}
    BY <1>0, <1>1, <1>2, <1>4, <1>5, <2>1, AveragedOf
  <2>4. grad'[r][p] = {<<q, p, pass[q]>> : q \in Ranks}
    BY <2>1, <2>2, <2>3
  <2>5. pass \in [Ranks -> 1 .. MaxSteps] /\ pass[r] = Step(r)'
    BY <1>2, <1>6, <1>7
  <2> HIDE DEF pass
  <2> QED BY <2>4, <2>5 DEF OfItself
<1>9. CASE ~\E i \in DOMAIN parts : parts[i].name = p
  <2>1. grad'[r][p] = grad[r][p]
    BY <1>1, <1>9
  <2> QED BY <1>0, <1>7, <2>1 DEF OneOfEach, OfItself
<1> QED BY <1>8, <1>9

LEMMA BackwardOne ==
    ASSUME Typed, NEW r \in Ranks, Backward(r)
    PROVE  OneOfEach(r)'
<1>1. PICK use \in setup.useSets :
          /\ uses' = [uses EXCEPT ![r] = Append(@, use)]
          /\ grad' = [grad EXCEPT ![r] = [p \in Params |->
                        IF p \in use THEN {<<r, p, Step(r) + 1>>} ELSE None]]
  BY DEF Backward
<1>2. Step(r)' = Step(r) + 1
  <2>1. uses'[r] = Append(uses[r], use) /\ uses[r] \in Seq(SUBSET Params) /\ use \in SUBSET Params
    BY <1>1, SetupFacts DEF Typed, UseSeq
  <2> QED BY <2>1 DEF Step
<1>3. \A p \in Params : grad'[r][p] = IF p \in use THEN {<<r, p, Step(r) + 1>>} ELSE None
  BY <1>1 DEF Typed
<1> QED BY <1>2, <1>3 DEF OneOfEach, OfItself

LEMMA SameOne ==
    ASSUME NEW r \in Ranks, OneOfEach(r), grad'[r] = grad[r], uses'[r] = uses[r]
    PROVE  OneOfEach(r)'
BY DEF OneOfEach, OfItself, Step

LEMMA SameSizes ==
    ASSUME setup' = setup
    PROVE  SizesTell' <=> SizesTell
BY DEF SizesTell, Offsets, Lists

LEMMA StepCuts ==
    ASSUME MInv, PInv', NEW r \in Ranks,
           Backward(r) \/ InBackward(r) \/ InSync(r) \/ WorkerStep(r) \/ ReductionStep(r)
    PROVE  MInv'
<1>0. setup' = setup /\ buckets' = buckets
  BY DEF Backward, InBackward, Register, EndBackward, BeginSync, InSync, MainSkips, MainReduce,
         MainReduced, MainFails, EndSync, WorkerStep, WorkerReceive, WorkerDrop, ReductionStep,
         ReductionStart, ReductionEnd, mainVars
<1> SUFFICES ASSUME ~setup.overlap
             PROVE  /\ \A q \in Ranks : MainCuts(q)'
                    /\ SizesTell => \A q \in Ranks : OneOfEach(q)'
  BY <1>0, SameSizes DEF MInv
<1>1. Backward(r) \/ EndBackward(r) \/ BeginSync(r) \/ InSync(r)
  BY MainOnly DEF MInv
<1>2. Typed
  BY MixFacts
<1>3. \A q \in Ranks : q # r => /\ queue'[q] = queue[q] /\ calls'[q] = calls[q]
                                /\ grad'[q] = grad[q] /\ uses'[q] = uses[q]
  BY <1>1, <1>2 DEF Typed, Backward, EndBackward, BeginSync, InSync, MainSkips, MainReduce,
                    MainReduced, MainFails, EndSync, Post, mainVars
<1>4. ASSUME NEW q \in Ranks PROVE MainCuts(q)'
  <2>1. CASE q = r
    BY <1>1, <2>1, MainStepCuts
  <2>2. CASE q # r
    BY <1>0, <1>3, <2>2, MixFacts DEF MainCuts
  <2> QED BY <2>1, <2>2
<1>5. ASSUME SizesTell, NEW q \in Ranks PROVE OneOfEach(q)'
  <2>1. CASE q # r
    BY <1>3, <1>5, <2>1, MixFacts, SameOne
  <2>2. CASE Backward(r) \/ MainReduced(r)
    BY <1>2, <1>5, <2>1, <2>2, BackwardOne, MainReducedOne
  <2>3. CASE grad' = grad /\ uses' = uses
    BY <1>5, <2>3, MixFacts, SameOne
  <2> QED BY <1>1, <2>2, <2>3 DEF EndBackward, BeginSync, InSync, MainSkips, MainReduce,
                                  MainFails, EndSync, mainVars
<1> QED BY <1>4, <1>5

LEMMA NextCuts == MInv /\ CInv /\ [Next]_vars => MInv'
<1> SUFFICES ASSUME MInv, CInv, [Next]_vars PROVE MInv'
  OBVIOUS
<1>1. PInv'
  BY NextListed DEF MInv
<1>2. CASE Next
  BY <1>1, <1>2, StepCuts DEF Next
<1>3. CASE UNCHANGED vars
  <2>1. UNCHANGED <<setup, buckets, queue, calls, grad, uses>>
    BY <1>3 DEF vars
  <2>2. SizesTell' <=> SizesTell
    BY <2>1, SameSizes
  <2>3. \A r \in Ranks : MainCuts(r) => MainCuts(r)'
    BY <2>1 DEF MainCuts
  <2>4. \A r \in Ranks : OneOfEach(r) => OneOfEach(r)'
    BY <2>1, SameOne
  <2> QED BY <1>1, <2>1, <2>2, <2>3, <2>4 DEF MInv
<1> QED BY <1>2, <1>3

LEMMA InitCuts == Init => MInv
<1> SUFFICES ASSUME Init PROVE MInv
  OBVIOUS
<1>1. \A r \in Ranks : queue[r] = <<>> /\ calls[r] = <<>>
  BY DEF Init
<1>2. \A r \in Ranks : MainCuts(r)
  BY <1>1 DEF MainCuts, QueuedWhole, CallsCut
<1>3. \A r \in Ranks : \A p \in Params : grad[r][p] = None
  BY DEF Init
<1>4. \A r \in Ranks : OneOfEach(r)
  BY <1>3 DEF OneOfEach, OfItself
<1> QED BY <1>2, <1>4, InitListed DEF MInv

LEMMA CutsKeepApart == MInv => LengthsKeepApart
BY DEF MInv, LengthsKeepApart, NothingMixed, OneOfEach

\* Without overlap, a gradient is summed with one of another parameter only
\* where the lengths of flat tensors fail to tell the parameters in them:
\* whatever has failed, was reduced again by itself or was left out, and in
\* whatever pass each rank is.
THEOREM LengthsTell == Spec => []LengthsKeepApart
BY InitCuts, NextCuts, InitCalls, NextCalls, CutsKeepApart, PTL DEF Spec
=============================================================================
