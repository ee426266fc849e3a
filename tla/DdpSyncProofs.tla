---------------------------- MODULE DdpSyncProofs ----------------------------
(***************************************************************************)
(* Proofs about DdpSync, for any ranks, parameters and setups: what        *)
(* its variables hold, who made which call, and what is averaged.          *)
(***************************************************************************)
EXTENDS DdpDataProofs

\* No name is queued twice.
Once(qs) ==
    \A j, l \in DOMAIN qs : \A i \in DOMAIN qs[j].names, m \in DOMAIN qs[l].names :
        qs[j].names[i] = qs[l].names[m] => j = l /\ i = m

BucketsRight ==
    \A r \in Ranks : IF setup.bucketed THEN Partition(buckets[r]) ELSE buckets[r] = <<>>

QueueRight ==
    \A r \in Ranks : /\ Once(queue[r])
                     /\ pc[r] # "sync" => queue[r] = <<>>
                     /\ mainTag[r] # NoTag => queue[r] # <<>>

Entry == [names : Seq(Params), fallback : BOOLEAN]
Entries == Seq(Entry)
Names == Seq(Params)
UseSeq == Seq(SUBSET Params)
Items == Seq(Named)
Reduction == [parts : Items, tag : Nat \union {Ended}]
Reductions == Seq(Reduction)
CallSeq == Seq(Call)
Grads == [Params -> Gradient]
Slots == [1 .. NP -> Items]
Pcs == {"idle", "backward", "sync"}

Typed ==
    /\ setup \in Setups
    /\ buckets \in [Ranks -> Seq(Seq(Params))]
    /\ uses \in [Ranks -> UseSeq]
    /\ pc \in [Ranks -> Pcs]
    /\ todo \in [Ranks -> Names]
    /\ queue \in [Ranks -> Entries]
    /\ mainTag \in [Ranks -> Nat]
    /\ ok \in [Ranks -> BOOLEAN]
    /\ grad \in [Ranks -> Grads]
    /\ channel \in [Ranks -> Items]
    /\ pending \in [Ranks -> Slots]
    /\ reductions \in [Ranks -> Reductions]
    /\ calls \in [Ranks -> CallSeq]
    /\ clean \in BOOLEAN

TInv == Typed /\ BucketsRight /\ QueueRight

LEMMA TypedOK == TInv => TypeOK
BY DEF TInv, TypeOK, QueueRight, Typed, Entry, Entries, Names, UseSeq, Items, Reduction, Reductions,
       CallSeq, Grads, Slots, NP, Pcs

LEMMA Tails ==
  /\ \A s \in Names : s # <<>> => Tail(s) \in Names /\ Head(s) \in Params
  /\ \A s \in Entries : s # <<>> => Tail(s) \in Entries /\ Head(s) \in Entry
  /\ \A s \in Items : s # <<>> => Tail(s) \in Items /\ Head(s) \in Named
  /\ \A s \in Items, x \in Named : Append(s, x) \in Items
  /\ \A s \in CallSeq, x \in Call : Append(s, x) \in CallSeq
  /\ \A s \in Reductions, x \in Reduction : Append(s, x) \in Reductions
  /\ \A s \in UseSeq, x \in SUBSET Params : Append(s, x) \in UseSeq
  /\ <<>> \in Names /\ <<>> \in Entries /\ <<>> \in Items
<1>1. \A s \in Names : s # <<>> => Tail(s) \in Names /\ Head(s) \in Params
  BY DEF Names
<1>2. \A s \in Entries : s # <<>> => Tail(s) \in Entries /\ Head(s) \in Entry
  BY DEF Entries
<1>3. \A s \in Items : s # <<>> => Tail(s) \in Items /\ Head(s) \in Named
  BY DEF Items
<1>4. \A s \in Items, x \in Named : Append(s, x) \in Items
  BY DEF Items
<1>5. \A s \in CallSeq, x \in Call : Append(s, x) \in CallSeq
  BY DEF CallSeq
<1>6. \A s \in Reductions, x \in Reduction : Append(s, x) \in Reductions
  BY DEF Reductions
<1>7. \A s \in UseSeq, x \in SUBSET Params : Append(s, x) \in UseSeq
  BY DEF UseSeq
<1>8. <<>> \in Names /\ <<>> \in Entries /\ <<>> \in Items
  BY DEF Names, Entries, Items
<1> QED BY <1>1, <1>2, <1>3, <1>4, <1>5, <1>6, <1>7, <1>8

LEMMA EndBackwardTyped ==
    ASSUME Typed, NEW r \in Ranks, EndBackward(r)
    PROVE  Typed'
BY DEF Typed, EndBackward, Pcs
LEMMA EndSyncTyped ==
    ASSUME Typed, NEW r \in Ranks, EndSync(r)
    PROVE  Typed'
BY DEF Typed, EndSync, Pcs
LEMMA WorkerDropTyped ==
    ASSUME Typed, NEW r \in Ranks, WorkerDrop(r)
    PROVE  Typed'
BY Tails DEF Typed, WorkerDrop, mainVars
LEMMA RegisterTyped ==
    ASSUME Typed, NEW r \in Ranks, Register(r)
    PROVE  Typed'
<1>1. Head(todo[r]) \in Params /\ Tail(todo[r]) \in Names
  BY Tails DEF Typed, Register
<1>2. [name |-> Head(todo[r]), grad |-> grad[r][Head(todo[r])]] \in Named
  BY <1>1 DEF Typed, Named, Grads
<1>3. Append(channel[r], [name |-> Head(todo[r]), grad |-> grad[r][Head(todo[r])]]) \in Items
  BY <1>2, Tails DEF Typed
<1> QED BY <1>1, <1>3 DEF Typed, Register
LEMMA MainSkipsTyped ==
    ASSUME Typed, NEW r \in Ranks, MainSkips(r)
    PROVE  Typed'
BY Tails DEF Typed, MainSkips
LEMMA ReductionStartTyped ==
    ASSUME Typed, NEW r \in Ranks, NEW n \in DOMAIN reductions[r], ReductionStart(r, n)
    PROVE  Typed'
<1>1. reductions[r] \in Seq(Reduction) /\ Len(calls[r]) \in Nat
  BY DEF Typed, Reductions, CallSeq
<1>2. reductions[r][n] \in Reduction
  BY <1>1
<1> DEFINE call == [by |-> n, step |-> 0, parts |-> reductions[r][n].parts]
<1>3. call \in Call
  BY <1>1, <1>2 DEF Call, Reduction, Items
<1>4. [reductions[r] EXCEPT ![n].tag = Len(calls[r]) + 1] \in Reductions
  <2>1. [reductions[r][n] EXCEPT !.tag = Len(calls[r]) + 1] \in Reduction
    BY <1>1, <1>2 DEF Reduction
  <2> QED BY <1>1, <2>1 DEF Reductions
<1>5. Append(calls[r], call) \in CallSeq
  BY <1>3, Tails DEF Typed
<1>6. /\ calls' = [calls EXCEPT ![r] = Append(calls[r], call)]
      /\ reductions' = [reductions EXCEPT
                           ![r] = [reductions[r] EXCEPT ![n].tag = Len(calls[r]) + 1]]
      /\ UNCHANGED <<setup, buckets, mainTag, channel, pending>> /\ UNCHANGED mainVars
  BY DEF ReductionStart, Post, Typed
<1> HIDE DEF call
<1> QED BY <1>4, <1>5, <1>6 DEF Typed, mainVars

LEMMA SetupFacts ==
    ASSUME Typed
    PROVE  /\ setup \in Setup /\ setup.size \in [Params -> Nat \ {0}]
           /\ \A r \in Ranks : setup.arrival[r] \in Orders
           /\ setup.steps \in 0 .. MaxSteps /\ \A u \in setup.useSets : u \in SUBSET Params
           /\ setup.bucketed \in BOOLEAN /\ setup.overlap \in BOOLEAN /\ setup.sync \in BOOLEAN
           /\ setup.permits \in Nat
<1>1. setup \in Setup
  BY DdpAssumption DEF Typed
<1> QED BY <1>1 DEF Setup

LEMMA OrderUnrepeated == \A o \in Orders : o \in Names /\ Unrepeated(o)
BY OrderFacts DEF Unrepeated, Names

\* What a rank that reduces the first of its queue looks at.
LEMMA ReducibleFacts ==
    ASSUME TInv, NEW r \in Ranks, queue[r] # <<>>
    PROVE  LET head == Head(queue[r]).names IN
           /\ head \in Names /\ Unrepeated(head)
           /\ Reducible(r) \in Names /\ Unrepeated(Reducible(r))
           /\ \A i \in DOMAIN Reducible(r) : /\ HasGrad(r, Reducible(r)[i])
                                             /\ \E j \in DOMAIN head : head[j] = Reducible(r)[i]
           /\ \A j \in DOMAIN head : HasGrad(r, head[j]) =>
                 \E i \in DOMAIN Reducible(r) : Reducible(r)[i] = head[j]
<1> DEFINE head == Head(queue[r]).names
           S == {p \in Params : HasGrad(r, p)}
<1>1. queue[r] \in Seq(Entry) /\ Once(queue[r])
  BY DEF TInv, Typed, Entries, QueueRight
<1>2. 1 \in DOMAIN queue[r] /\ Head(queue[r]) = queue[r][1] /\ queue[r][1] \in Entry
  BY <1>1
<1>3. head \in Seq(Params)
  BY <1>2 DEF Entry
<1>4. Unrepeated(head)
  BY <1>1, <1>2 DEF Once, Unrepeated
<1>5. Reducible(r) = Among(head, S)
  BY DEF Reducible
<1> HIDE DEF head, S
<1>6. /\ Among(head, S) \in Seq(Params)
      /\ \A i \in DOMAIN Among(head, S) :
            Among(head, S)[i] \in S /\ \E j \in DOMAIN head : head[j] = Among(head, S)[i]
      /\ \A j \in DOMAIN head : head[j] \in S =>
            \E i \in DOMAIN Among(head, S) : Among(head, S)[i] = head[j]
      /\ Unrepeated(Among(head, S))
  BY <1>3, <1>4, AmongFacts
<1>7. \A j \in DOMAIN head : head[j] \in Params
  BY <1>3
<1>8. \A p \in Params : p \in S <=> HasGrad(r, p)
  BY DEF S
<1>9. \A p \in S : HasGrad(r, p)
  BY DEF S
<1> HIDE DEF head
<1>10. \A i \in DOMAIN Reducible(r) : /\ HasGrad(r, Reducible(r)[i])
                                     /\ \E j \in DOMAIN head : head[j] = Reducible(r)[i]
  BY <1>5, <1>6, <1>9
<1>11. \A j \in DOMAIN head : HasGrad(r, head[j]) =>
                 \E i \in DOMAIN Reducible(r) : Reducible(r)[i] = head[j]
  BY <1>5, <1>6, <1>7, <1>8
<1> QED BY <1>3, <1>4, <1>5, <1>6, <1>10, <1>11 DEF Names, head

LEMMA OneByOneTyped == \A names \in Names : OneByOne(names) \in Entries
<1> SUFFICES ASSUME NEW names \in Names PROVE OneByOne(names) \in Entries
  OBVIOUS
<1>1. \A i \in DOMAIN names : <<names[i]>> \in Seq(Params)
  BY DEF Names
<1>2. \A i \in DOMAIN names : [names |-> <<names[i]>>, fallback |-> FALSE] \in Entry
  BY <1>1 DEF Entry
<1>3. DOMAIN names = 1 .. Len(names) /\ Len(names) \in Nat
  BY DEF Names
<1>4. [i \in DOMAIN names |-> [names |-> <<names[i]>>, fallback |-> FALSE]] \in Seq(Entry)
  BY <1>2, <1>3
<1> QED BY <1>4 DEF OneByOne, Entries

LEMMA BackwardTyped ==
    ASSUME TInv, NEW r \in Ranks, Backward(r)
    PROVE  Typed'
<1>0. Typed
  BY DEF TInv
<1>1. PICK use \in setup.useSets :
          /\ uses' = [uses EXCEPT ![r] = Append(@, use)]
          /\ grad' = [grad EXCEPT ![r] = [p \in Params |->
                        IF p \in use THEN {<<r, p, Step(r) + 1>>} ELSE None]]
          /\ todo' = [todo EXCEPT ![r] =
                        IF setup.overlap THEN Among(setup.arrival[r], use) ELSE <<>>]
  BY DEF Backward
<1>2. use \in SUBSET Params /\ setup.arrival[r] \in Names /\ Unrepeated(setup.arrival[r])
  BY <1>0, SetupFacts, OrderUnrepeated
<1>3. Append(uses[r], use) \in UseSeq
  BY <1>0, <1>2, Tails DEF Typed
<1>4. Step(r) + 1 \in 1 .. MaxSteps
  <2>1. Step(r) < setup.steps
    BY DEF Backward
  <2>2. Step(r) \in Nat
    BY <1>0 DEF Typed, UseSeq, Step
  <2> QED BY <1>0, <2>1, <2>2, SetupFacts, DdpAssumption
<1>5. [p \in Params |-> IF p \in use THEN {<<r, p, Step(r) + 1>>} ELSE None] \in Grads
  BY <1>4 DEF Grads, Gradient, None
<1>6. Among(setup.arrival[r], use) \in Names
  BY <1>2, AmongFacts DEF Names
<1>7. (IF setup.overlap THEN Among(setup.arrival[r], use) ELSE <<>>) \in Names
  BY <1>6, Tails
<1> QED BY <1>0, <1>1, <1>3, <1>5, <1>7 DEF Typed, Backward, Pcs

LEMMA BeginSyncTyped ==
    ASSUME TInv, NEW r \in Ranks, BeginSync(r)
    PROVE  Typed'
<1>0. Typed
  BY DEF TInv
<1>1. ByBucket(r) \in Entries
  <2>1. buckets[r] \in Seq(Seq(Params))
    BY <1>0 DEF Typed
  <2>2. \A b \in DOMAIN buckets[r] : [names |-> buckets[r][b], fallback |-> TRUE] \in Entry
    BY <2>1 DEF Entry
  <2>3. DOMAIN buckets[r] = 1 .. Len(buckets[r]) /\ Len(buckets[r]) \in Nat
    BY <2>1
  <2>4. [b \in DOMAIN buckets[r] |-> [names |-> buckets[r][b], fallback |-> TRUE]] \in Seq(Entry)
    BY <2>2, <2>3
  <2> QED BY <2>4 DEF ByBucket, Entries
<1>2. \A o \in Orders : OneByOne(o) \in Entries
  BY OneByOneTyped, OrderUnrepeated
<1>3. PICK q \in Entries : queue' = [queue EXCEPT ![r] = q]
  BY <1>1, <1>2 DEF BeginSync
<1> QED BY <1>0, <1>3 DEF Typed, BeginSync, Pcs

LEMMA PartsTyped ==
    ASSUME Typed, NEW r \in Ranks, NEW names \in Names
    PROVE  /\ PartsOf(r, names) \in Items /\ Len(PartsOf(r, names)) = Len(names)
           /\ NamesOf(PartsOf(r, names)) = names
           /\ DOMAIN PartsOf(r, names) = DOMAIN names
           /\ \A i \in DOMAIN names : /\ PartsOf(r, names)[i].name = names[i]
                                      /\ PartsOf(r, names)[i].grad = grad[r][names[i]]
<1>1. names \in Seq(Params) /\ Len(names) \in Nat /\ DOMAIN names = 1 .. Len(names)
  BY DEF Names
<1>2. \A i \in DOMAIN names : [name |-> names[i], grad |-> grad[r][names[i]]] \in Named
  BY <1>1 DEF Typed, Grads, Named
<1>3. /\ DOMAIN PartsOf(r, names) = DOMAIN names
      /\ \A i \in DOMAIN names : /\ PartsOf(r, names)[i].name = names[i]
                                 /\ PartsOf(r, names)[i].grad = grad[r][names[i]]
  BY DEF PartsOf
<1>4. PartsOf(r, names) \in Seq(Named) /\ Len(PartsOf(r, names)) = Len(names)
  BY <1>1, <1>2 DEF PartsOf
<1>5. NamesOf(PartsOf(r, names)) = names
  BY <1>1, <1>3 DEF NamesOf
<1> QED BY <1>3, <1>4, <1>5 DEF Items

LEMMA MainReduceTyped ==
    ASSUME TInv, NEW r \in Ranks, MainReduce(r)
    PROVE  Typed'
<1>0. Typed
  BY DEF TInv
<1> DEFINE call == [by |-> 0, step |-> Step(r), parts |-> PartsOf(r, Reducible(r))]
<1>1. PartsOf(r, Reducible(r)) \in Items
  BY <1>0, ReducibleFacts, PartsTyped DEF MainReduce
<1>2. Step(r) \in Nat /\ Len(calls[r]) \in Nat
  BY <1>0 DEF Typed, UseSeq, Step, CallSeq
<1>3. call \in Call
  BY <1>1, <1>2 DEF Call, Items
<1>4. /\ calls' = [calls EXCEPT ![r] = Append(calls[r], call)]
      /\ mainTag' = [mainTag EXCEPT ![r] = Len(calls[r]) + 1]
      /\ UNCHANGED <<setup, buckets, channel, pending, reductions>> /\ UNCHANGED mainVars
  BY <1>0 DEF MainReduce, Post, Typed
<1> HIDE DEF call
<1>5. Append(calls[r], call) \in CallSeq
  BY <1>0, <1>3, Tails DEF Typed
<1> QED BY <1>0, <1>2, <1>4, <1>5 DEF Typed, mainVars

LEMMA ReductionEndTyped ==
    ASSUME Typed, NEW r \in Ranks, NEW n \in DOMAIN reductions[r], ReductionEnd(r, n)
    PROVE  Typed'
<1>1. reductions[r] \in Seq(Reduction)
  BY DEF Typed, Reductions
<1>2. reductions[r][n] \in Reduction
  BY <1>1
<1>3. [reductions[r] EXCEPT ![n].tag = Ended] \in Reductions
  <2>1. [reductions[r][n] EXCEPT !.tag = Ended] \in Reduction
    BY <1>2 DEF Reduction
  <2> QED BY <1>1, <2>1 DEF Reductions
<1>4. /\ reductions' = [reductions EXCEPT ![r] = [reductions[r] EXCEPT ![n].tag = Ended]]
      /\ UNCHANGED <<setup, buckets, mainTag, channel, pending, calls>> /\ UNCHANGED mainVars
  BY DEF ReductionEnd, Typed
<1> QED BY <1>3, <1>4 DEF Typed, mainVars

\* The buckets of a rank, as far as every rank has any.
LEMMA BucketFacts ==
    ASSUME TInv, NEW r \in Ranks
    PROVE  /\ setup.bucketed => Partition(buckets[r])
           /\ ~setup.bucketed => buckets[r] = <<>>
BY DEF TInv, BucketsRight

LEMMA BucketOfTyped ==
    ASSUME TInv, NEW r \in Ranks, NEW p
    PROVE  /\ BucketOf(r, p) \in 1 .. NP
           /\ setup.bucketed /\ p \in Params =>
                 BucketOf(r, p) \in DOMAIN buckets[r] /\ p \in ToSet(buckets[r][BucketOf(r, p)])
<1>1. NP \in Nat \ {0}
  BY ParamsCount
<1>2. CASE ~setup.bucketed
  <2>1. DOMAIN buckets[r] = {}
    BY <1>2, BucketFacts
  <2>2. BucketOf(r, p) = 1
    BY <2>1 DEF BucketOf
  <2> QED BY <1>1, <1>2, <2>2
<1>3. CASE setup.bucketed
  <2>1. Partition(buckets[r])
    BY <1>3, BucketFacts
  <2>2. /\ buckets[r] \in Seq(Seq(Params)) /\ Len(buckets[r]) \in 1 .. NP
        /\ \A x \in Params : \E b \in DOMAIN buckets[r] : \E i \in DOMAIN buckets[r][b] :
              buckets[r][b][i] = x
    BY <2>1 DEF Partition
  <2>3. DOMAIN buckets[r] \subseteq 1 .. NP
    BY <1>1, <2>2
  <2>4. p \in Params => \E b \in DOMAIN buckets[r] : p \in ToSet(buckets[r][b])
    BY <2>2 DEF ToSet
  <2>5. CASE \E b \in DOMAIN buckets[r] : p \in ToSet(buckets[r][b])
    <3>1. BucketOf(r, p) \in DOMAIN buckets[r] /\ p \in ToSet(buckets[r][BucketOf(r, p)])
      BY <2>5 DEF BucketOf
    <3> QED BY <2>3, <3>1
  <2>6. CASE ~\E b \in DOMAIN buckets[r] : p \in ToSet(buckets[r][b])
    <3>1. BucketOf(r, p) = 1
      BY <2>6 DEF BucketOf
    <3> QED BY <1>1, <2>4, <2>6, <3>1
  <2> QED BY <2>5, <2>6
<1> QED BY <1>2, <1>3

LEMMA WorkerReceiveTyped ==
    ASSUME TInv, NEW r \in Ranks, WorkerReceive(r)
    PROVE  Typed'
<1>0. Typed
  BY DEF TInv
<1> DEFINE g == Head(channel[r])
           b == BucketOf(r, g.name)
           got == Append(pending[r][b], g)
<1>1. g \in Named /\ Tail(channel[r]) \in Items
  BY <1>0, Tails DEF Typed, WorkerReceive
<1>2. b \in 1 .. NP
  BY BucketOfTyped
<1> HIDE DEF g, b
<1>3. got \in Items
  <2>1. pending[r] \in [1 .. NP -> Items]
    BY <1>0 DEF Typed, Slots
  <2>2. pending[r][b] \in Items
    BY <1>2, <2>1
  <2> QED BY <1>1, <2>2, Tails
<1> HIDE DEF got
<1>4. [parts |-> got, tag |-> NoTag] \in Reduction
  BY <1>3 DEF Reduction, NoTag
<1>5. Append(reductions[r], [parts |-> got, tag |-> NoTag]) \in Reductions
  BY <1>0, <1>4, Tails DEF Typed
<1>6. /\ channel' = [channel EXCEPT ![r] = Tail(@)]
      /\ UNCHANGED <<setup, buckets, mainTag, calls>> /\ UNCHANGED mainVars
  BY DEF WorkerReceive
<1>7. \/ /\ reductions' = [reductions EXCEPT ![r] = Append(@, [parts |-> got, tag |-> NoTag])]
         /\ pending' = [pending EXCEPT ![r][b] = LeftPending(got)]
      \/ pending' = [pending EXCEPT ![r][b] = got] /\ UNCHANGED reductions
  BY DEF WorkerReceive, g, b, got
<1>8. reductions' \in [Ranks -> Reductions]
  BY <1>0, <1>5, <1>7 DEF Typed
<1>9. pending' \in [Ranks -> Slots]
  <2>1. PICK v \in Items : pending' = [pending EXCEPT ![r][b] = v]
    BY <1>3, <1>7, Tails DEF LeftPending
  <2>2. pending[r] \in [1 .. NP -> Items]
    BY <1>0 DEF Typed, Slots
  <2>3. [pending[r] EXCEPT ![b] = v] \in Slots
    BY <1>2, <2>2 DEF Slots
  <2>4. pending' = [pending EXCEPT ![r] = [pending[r] EXCEPT ![b] = v]]
    BY <2>1
  <2> QED BY <1>0, <2>3, <2>4 DEF Typed
<1> QED BY <1>0, <1>1, <1>6, <1>8, <1>9 DEF Typed, mainVars

LEMMA MainFailsTyped ==
    ASSUME TInv, NEW r \in Ranks, MainFails(r)
    PROVE  Typed'
<1>0. Typed
  BY DEF TInv
<1>1. queue[r] # <<>>
  BY DEF MainFails, TInv, QueueRight
<1>2. OneByOne(Reducible(r)) \in Entries /\ Tail(queue[r]) \in Entries /\ Head(queue[r]) \in Entry
  BY <1>0, <1>1, ReducibleFacts, OneByOneTyped, Tails DEF Typed
<1>3. OneByOne(Reducible(r)) \o Tail(queue[r]) \in Entries
  BY <1>2 DEF Entries
<1>4. Head(queue[r]).fallback \in BOOLEAN
  BY <1>2 DEF Entry
<1>5. PICK q \in Entries : queue' = [queue EXCEPT ![r] = q]
  <2>1. queue' = [queue EXCEPT ![r] = IF Head(queue[r]).fallback
                     THEN OneByOne(Reducible(r)) \o Tail(queue[r]) ELSE <<>>]
    BY DEF MainFails
  <2>2. CASE Head(queue[r]).fallback
    BY <1>3, <2>1, <2>2
  <2>3. CASE ~Head(queue[r]).fallback
    BY <2>1, <2>3, Tails
  <2> QED BY <2>2, <2>3
<1>6. ok' \in [Ranks -> BOOLEAN] /\ mainTag' \in [Ranks -> Nat] /\ clean' \in BOOLEAN
  BY <1>0, <1>4 DEF Typed, MainFails, NoTag
<1>7. UNCHANGED <<setup, buckets, uses, pc, todo, grad, channel, pending, reductions, calls>>
  BY DEF MainFails
<1> QED BY <1>0, <1>5, <1>6, <1>7 DEF Typed

\* Every element of a flat tensor is of some part.
LEMMA PartAtSome ==
    ASSUME NEW names \in Names, setup.size \in [Params -> Nat \ {0}],
           NEW e \in 1 .. Offsets(names)[Len(names)]
    PROVE  PartAt(Offsets(names), e) \in 1 .. Len(names)
<1> DEFINE N == Len(names)
           off == Offsets(names)
           T == {i \in 0 .. N : e <= off[i]}
<1>1. names \in Seq(Params) /\ N \in Nat
  BY DEF Names
<1>2. off \in [0 .. N -> Nat] /\ off[0] = 0 /\ DOMAIN off = 0 .. N
  BY <1>1, OffsetsFacts
<1>3. e \in 1 .. off[N]
  OBVIOUS
<1> HIDE DEF off, N
<1>4. T \subseteq Nat /\ T # {}
  <2>1. N \in 0 .. N /\ 0 .. N \subseteq Nat
    BY <1>1
  <2>2. e <= off[N]
    BY <1>2, <1>3, <2>1
  <2>3. N \in T
    BY <2>1, <2>2
  <2> QED BY <2>1, <2>3
<1>5. PICK i \in T : \A j \in T : ~(j < i)
  <2> HIDE DEF T
  <2> QED BY <1>4, LeastOf
<1>6. i \in 1 .. N /\ e <= off[i] /\ off[i - 1] < e
  <2>1. i # 0 /\ i \in 0 .. N /\ e <= off[i]
    BY <1>2, <1>3
  <2>2. i - 1 \in 0 .. N /\ i - 1 < i
    BY <1>1, <2>1
  <2>3. ~(e <= off[i - 1])
    BY <1>5, <2>2
  <2> QED BY <1>1, <1>2, <1>3, <2>1, <2>2, <2>3
<1>7. i \in DOMAIN off \ {0}
  BY <1>1, <1>2, <1>6
<1>8. PartAt(off, e) \in DOMAIN off \ {0}
  BY <1>6, <1>7 DEF PartAt
<1> QED BY <1>1, <1>2, <1>8 DEF N, off

\* What is cut out of a flat result is a gradient.
LEMMA AveragedTyped ==
    ASSUME Typed, NEW r \in Ranks, NEW k \in DOMAIN calls[r], Succeeds(k),
           NEW i \in DOMAIN calls[r][k].parts
    PROVE  Averaged(r, k, i) \in Gradient
<1> DEFINE P(q) == calls[q][k].parts
           nm(q) == NamesOf(P(q))
<1>0. setup.size \in [Params -> Nat \ {0}]
  BY SetupFacts
<1>1. \A q \in Ranks : /\ P(q) \in Seq(Named) /\ DOMAIN P(q) = 1 .. Len(P(q)) /\ Len(P(q)) \in Nat
                       /\ nm(q) \in Seq(Params) /\ Len(nm(q)) = Len(P(q))
  <2> SUFFICES ASSUME NEW q \in Ranks
               PROVE  /\ P(q) \in Seq(Named) /\ DOMAIN P(q) = 1 .. Len(P(q)) /\ Len(P(q)) \in Nat
                      /\ nm(q) \in Seq(Params) /\ Len(nm(q)) = Len(P(q))
    OBVIOUS
  <2>1. calls[q] \in Seq(Call) /\ calls[r] \in Seq(Call)
    BY DEF Typed, CallSeq
  <2>2. k \in DOMAIN calls[q]
    BY <2>1 DEF Succeeds, Met
  <2>3. calls[q][k] \in Call
    BY <2>1, <2>2
  <2>4. P(q) \in Seq(Named)
    BY <2>3 DEF Call
  <2> HIDE DEF P
  <2>5. DOMAIN P(q) = 1 .. Len(P(q)) /\ Len(P(q)) \in Nat
    BY <2>4
  <2>6. \A j \in DOMAIN P(q) : P(q)[j].name \in Params
    <3> SUFFICES ASSUME NEW j \in DOMAIN P(q) PROVE P(q)[j].name \in Params
      OBVIOUS
    <3>1. P(q)[j] \in Named
      BY <2>4
    <3> QED BY <3>1 DEF Named
  <2>7. nm(q) \in Seq(Params) /\ Len(nm(q)) = Len(P(q))
    BY <2>5, <2>6 DEF NamesOf
  <2> QED BY <2>4, <2>5, <2>7
<1>2. \A q \in Ranks : LengthOf(P(q)) = Offsets(nm(q))[Len(nm(q))]
  BY <1>1 DEF LengthOf
<1>3. \A q \in Ranks : Offsets(nm(q))[Len(nm(q))] = Offsets(nm(r))[Len(nm(r))]
  <2>1. \A q \in Ranks : LengthOf(P(q)) = LengthOf(P(r))
    BY DEF Succeeds, SameLength
  <2> QED BY <1>2, <2>1
<1>4. ASSUME NEW q \in Ranks,
             NEW e \in Offsets(nm(r))[i - 1] + 1 .. Offsets(nm(r))[i]
      PROVE  Flattened(P(q))[e] \in Gradient
  <2>1. i \in 1 .. Len(nm(r))
    BY <1>1
  <2>2. e \in 1 .. Offsets(nm(r))[Len(nm(r))]
    <3> HIDE DEF nm
    <3> QED BY <1>0, <1>1, <2>1, PartAtFacts
  <2>3. e \in 1 .. Offsets(nm(q))[Len(nm(q))]
    BY <1>3, <2>2
  <2>4. PartAt(Offsets(nm(q)), e) \in 1 .. Len(nm(q))
    <3> HIDE DEF nm
    <3> QED BY <1>0, <1>1, <2>3, PartAtSome DEF Names
  <2>5. e \in 1 .. LengthOf(P(q))
    BY <1>2, <2>3
  <2>6. Flattened(P(q))[e] = P(q)[PartAt(Offsets(nm(q)), e)].grad
    <3> HIDE DEF P
    <3> QED BY <2>5 DEF Flattened
  <2>7. PartAt(Offsets(nm(q)), e) \in DOMAIN P(q)
    BY <1>1, <2>4
  <2> HIDE DEF P, nm
  <2>8. P(q)[PartAt(Offsets(nm(q)), e)] \in Named
    BY <1>1, <2>7
  <2> QED BY <2>6, <2>8 DEF Named
<1>5. Averaged(r, k, i) =
          UNION {Flattened(P(q))[e] :
                    q \in Ranks, e \in Offsets(nm(r))[i - 1] + 1 .. Offsets(nm(r))[i]}
  BY DEF Averaged
<1> HIDE DEF P, nm
<1> QED BY <1>4, <1>5 DEF Gradient
-----------------------------------------------------------------------------
(* Calls.                                                                   *)

\* What a rank's calls, reductions and main task look like; calls and
\* gradients are left open.
ReductionsOf(P) == Seq([parts : P, tag : Nat \union {Ended}])

CallsShape ==
    /\ calls = [r \in Ranks |-> calls[r]]
    /\ reductions = [r \in Ranks |-> reductions[r]]
    /\ mainTag = [r \in Ranks |-> mainTag[r]]
    /\ \A r \in Ranks : /\ \E S : calls[r] \in Seq(S)
                        /\ \E P : reductions[r] \in ReductionsOf(P)
                        /\ mainTag[r] \in Nat

\* Who made the calls that the main task and the reductions wait for.
Own(r, cs, rs, t) ==
    /\ t # NoTag => t \in DOMAIN cs /\ cs[t].by = 0
    /\ \A n \in DOMAIN rs : rs[n].tag > NoTag =>
          rs[n].tag \in DOMAIN cs /\ cs[rs[n].tag].by = n

\* The main task and the reductions of a rank wait side by side, each for the
\* call it made itself.
OwnCalls ==
    \A r \in Ranks :
        /\ mainTag[r] # NoTag => mainTag[r] \in DOMAIN calls[r] /\ calls[r][mainTag[r]].by = 0
        /\ \A n \in DOMAIN reductions[r] : reductions[r][n].tag > NoTag =>
              /\ reductions[r][n].tag \in DOMAIN calls[r]
              /\ calls[r][reductions[r][n].tag].by = n

CInv == CallsShape /\ OwnCalls

LEMMA OwnEach == OwnCalls <=> \A r \in Ranks : Own(r, calls[r], reductions[r], mainTag[r])
BY DEF OwnCalls, Own

LEMMA AppendFacts ==
    ASSUME NEW S, NEW s \in Seq(S), NEW x
    PROVE  /\ Append(s, x) \in Seq(S \union {x})
           /\ DOMAIN s = 1 .. Len(s) /\ Len(s) \in Nat
           /\ DOMAIN Append(s, x) = 1 .. Len(s) + 1
           /\ \A i \in 1 .. Len(s) : Append(s, x)[i] = s[i]
           /\ Append(s, x)[Len(s) + 1] = x
<1>1. s \in Seq(S \union {x}) /\ x \in S \union {x}
  OBVIOUS
<1> QED BY <1>1

\* One more call leaves what others wait for as it was.
LEMMA PostKeeps ==
    ASSUME NEW r, NEW S, NEW cs \in Seq(S), NEW call,
           NEW P, NEW rs \in ReductionsOf(P), NEW t \in Nat,
           Own(r, cs, rs, t)
    PROVE  /\ Own(r, Append(cs, call), rs, t)
           /\ Len(cs) + 1 \in DOMAIN Append(cs, call) /\ Len(cs) + 1 > NoTag
           /\ Append(cs, call)[Len(cs) + 1] = call
<1>1. /\ DOMAIN cs = 1 .. Len(cs) /\ Len(cs) \in Nat
      /\ DOMAIN Append(cs, call) = 1 .. Len(cs) + 1
      /\ \A i \in 1 .. Len(cs) : Append(cs, call)[i] = cs[i]
      /\ Append(cs, call)[Len(cs) + 1] = call
  BY AppendFacts
<1>2. \A i \in DOMAIN cs : i \in DOMAIN Append(cs, call) /\ Append(cs, call)[i] = cs[i]
  BY <1>1
<1>3. Own(r, Append(cs, call), rs, t)
  BY <1>2 DEF Own
<1> QED BY <1>1, <1>3 DEF NoTag

\* A step of one rank.
LEMMA OneRankKeeps ==
    ASSUME CInv, NEW r \in Ranks, NEW cs, NEW rs, NEW t,
           calls' = [calls EXCEPT ![r] = cs], reductions' = [reductions EXCEPT ![r] = rs],
           mainTag' = [mainTag EXCEPT ![r] = t],
           \E S : cs \in Seq(S), \E P : rs \in ReductionsOf(P), t \in Nat,
           Own(r, cs, rs, t)
    PROVE  CInv'
<1>1. /\ calls'[r] = cs /\ reductions'[r] = rs /\ mainTag'[r] = t
      /\ \A q \in Ranks : q # r => /\ calls'[q] = calls[q] /\ reductions'[q] = reductions[q]
                                   /\ mainTag'[q] = mainTag[q]
      /\ calls' = [q \in Ranks |-> calls'[q]] /\ reductions' = [q \in Ranks |-> reductions'[q]]
      /\ mainTag' = [q \in Ranks |-> mainTag'[q]]
  BY DEF CInv, CallsShape
<1>2. CallsShape'
  BY <1>1 DEF CInv, CallsShape
<1>3. \A q \in Ranks : Own(q, calls[q], reductions[q], mainTag[q])
  BY OwnEach DEF CInv
<1>4. \A q \in Ranks : Own(q, calls'[q], reductions'[q], mainTag'[q])
  BY <1>1, <1>3
<1>5. OwnCalls'
  BY <1>4 DEF OwnCalls, Own
<1> QED BY <1>2, <1>5 DEF CInv

\* What CInv says of one rank.
LEMMA RankFacts ==
    ASSUME CInv, NEW r \in Ranks
    PROVE  /\ \E S : calls[r] \in Seq(S)
           /\ \E P : reductions[r] \in ReductionsOf(P)
           /\ mainTag[r] \in Nat
           /\ Own(r, calls[r], reductions[r], mainTag[r])
           /\ calls = [calls EXCEPT ![r] = calls[r]]
           /\ reductions = [reductions EXCEPT ![r] = reductions[r]]
           /\ mainTag = [mainTag EXCEPT ![r] = mainTag[r]]
<1>1. /\ \E S : calls[r] \in Seq(S)
      /\ \E P : reductions[r] \in ReductionsOf(P)
      /\ mainTag[r] \in Nat
  BY DEF CInv, CallsShape
<1>2. Own(r, calls[r], reductions[r], mainTag[r])
  BY OwnEach DEF CInv
<1>3. calls = [calls EXCEPT ![r] = calls[r]]
  BY DEF CInv, CallsShape
<1>4. reductions = [reductions EXCEPT ![r] = reductions[r]]
  BY DEF CInv, CallsShape
<1>5. mainTag = [mainTag EXCEPT ![r] = mainTag[r]]
  BY DEF CInv, CallsShape
<1> QED BY <1>1, <1>2, <1>3, <1>4, <1>5

LEMMA MainReduceKeeps ==
    ASSUME CInv, NEW r \in Ranks, MainReduce(r)
    PROVE  CInv'
<1>1. PICK call : call.by = 0 /\ calls' = [calls EXCEPT ![r] = Append(calls[r], call)]
  BY DEF MainReduce, Post, CInv, CallsShape
<1>2. /\ mainTag' = [mainTag EXCEPT ![r] = Len(calls[r]) + 1] /\ reductions' = reductions
  BY DEF MainReduce
<1>3. PICK S : calls[r] \in Seq(S)
  BY RankFacts
<1>4. PICK P : reductions[r] \in ReductionsOf(P)
  BY RankFacts
<1>5. /\ Own(r, Append(calls[r], call), reductions[r], mainTag[r])
      /\ Len(calls[r]) + 1 \in DOMAIN Append(calls[r], call)
      /\ Append(calls[r], call)[Len(calls[r]) + 1] = call
  BY <1>3, <1>4, RankFacts, PostKeeps
<1>6. Own(r, Append(calls[r], call), reductions[r], Len(calls[r]) + 1)
  BY <1>1, <1>5 DEF Own
<1>7. \E T : Append(calls[r], call) \in Seq(T)
  BY <1>3, AppendFacts
<1>8. Len(calls[r]) + 1 \in Nat
  BY <1>3
<1>9. reductions' = [reductions EXCEPT ![r] = reductions[r]]
  BY <1>2, RankFacts
<1> QED BY <1>1, <1>2, <1>4, <1>6, <1>7, <1>8, <1>9, OneRankKeeps

\* The call of the main task ends, with or without an error.
LEMMA MainEndsKeeps ==
    ASSUME CInv, NEW r \in Ranks, MainReduced(r) \/ MainFails(r)
    PROVE  CInv'
<1>1. /\ mainTag' = [mainTag EXCEPT ![r] = NoTag] /\ reductions' = reductions /\ calls' = calls
  BY DEF MainReduced, MainFails
<1>2. Own(r, calls[r], reductions[r], NoTag)
  BY RankFacts DEF Own
<1>3. /\ calls' = [calls EXCEPT ![r] = calls[r]]
      /\ reductions' = [reductions EXCEPT ![r] = reductions[r]]
  BY <1>1, RankFacts
<1>4. NoTag \in Nat
  BY DEF NoTag
<1> QED BY <1>1, <1>2, <1>3, <1>4, RankFacts, OneRankKeeps

\* A bucket handed to a new task, which has made no call yet.
LEMMA WorkerReceiveKeeps ==
    ASSUME CInv, NEW r \in Ranks, WorkerReceive(r)
    PROVE  CInv'
<1>1. mainTag' = mainTag /\ calls' = calls
  BY DEF WorkerReceive
<1>2. /\ calls' = [calls EXCEPT ![r] = calls[r]]
      /\ mainTag' = [mainTag EXCEPT ![r] = mainTag[r]]
  BY <1>1, RankFacts
<1>3. CASE reductions' = reductions
  <2>1. reductions' = [reductions EXCEPT ![r] = reductions[r]]
    BY <1>3, RankFacts
  <2> QED BY <1>2, <2>1, RankFacts, OneRankKeeps
<1>4. CASE \E got : reductions' = [reductions EXCEPT
                                      ![r] = Append(@, [parts |-> got, tag |-> NoTag])]
  <2>1. PICK got : reductions' = [reductions EXCEPT
                                     ![r] = Append(@, [parts |-> got, tag |-> NoTag])]
    BY <1>4
  <2> DEFINE new == [parts |-> got, tag |-> NoTag]
             rs == Append(reductions[r], new)
  <2>2. reductions' = [reductions EXCEPT ![r] = rs]
    BY <2>1 DEF CInv, CallsShape
  <2>3. PICK P : reductions[r] \in ReductionsOf(P)
    BY RankFacts
  <2>4. new \in [parts : P \union {got}, tag : Nat \union {Ended}] /\ new.tag = NoTag
    BY DEF NoTag
  <2>5. reductions[r] \in Seq([parts : P \union {got}, tag : Nat \union {Ended}])
    <3> DEFINE Q == [parts : P, tag : Nat \union {Ended}]
               R == [parts : P \union {got}, tag : Nat \union {Ended}]
    <3>1. Q \subseteq R
      OBVIOUS
    <3>2. reductions[r] \in Seq(Q)
      BY <2>3 DEF ReductionsOf
    <3> HIDE DEF Q, R
    <3>3. reductions[r] \in Seq(R)
      BY <3>1, <3>2
    <3> QED BY <3>3 DEF R
  <2> HIDE DEF new
  <2>6. rs \in ReductionsOf(P \union {got})
    BY <2>4, <2>5 DEF ReductionsOf
  <2>7. \A n \in DOMAIN rs : \/ n \in DOMAIN reductions[r] /\ rs[n] = reductions[r][n]
                             \/ rs[n] = new
    BY <2>5, AppendFacts
  <2> HIDE DEF rs
  <2>8. ~(NoTag > NoTag)
    BY DEF NoTag
  <2>9. Own(r, calls[r], rs, mainTag[r])
    BY <2>4, <2>7, <2>8, RankFacts DEF Own
  <2> QED BY <1>2, <2>2, <2>6, <2>9, RankFacts, OneRankKeeps
<1> QED BY <1>3, <1>4 DEF WorkerReceive

\* A reduction gets a tag, or ends.
LEMMA TagSet ==
    ASSUME NEW P, NEW rs \in ReductionsOf(P), NEW n \in DOMAIN rs, NEW t \in Nat \union {Ended}
    PROVE  /\ [rs EXCEPT ![n].tag = t] \in ReductionsOf(P)
           /\ [rs EXCEPT ![n].tag = t][n].tag = t
           /\ DOMAIN [rs EXCEPT ![n].tag = t] = DOMAIN rs
           /\ \A m \in DOMAIN rs : m # n => [rs EXCEPT ![n].tag = t][m] = rs[m]
<1> DEFINE R == [parts : P, tag : Nat \union {Ended}]
           e == [rs[n] EXCEPT !.tag = t]
<1>1. rs \in Seq(R) /\ rs[n] \in R
  <2>1. rs \in Seq(R)
    BY DEF ReductionsOf
  <2> HIDE DEF R
  <2> QED BY <2>1
<1>2. e \in R /\ e.tag = t
  BY <1>1
<1>3. [rs EXCEPT ![n].tag = t] = [rs EXCEPT ![n] = e]
  OBVIOUS
<1> HIDE DEF R, e
<1>4. [rs EXCEPT ![n] = e] \in Seq(R)
  BY <1>1, <1>2
<1>5. /\ [rs EXCEPT ![n] = e][n] = e /\ DOMAIN [rs EXCEPT ![n] = e] = DOMAIN rs
      /\ \A m \in DOMAIN rs : m # n => [rs EXCEPT ![n] = e][m] = rs[m]
  BY <1>1
<1> QED BY <1>2, <1>3, <1>4, <1>5 DEF ReductionsOf, R

LEMMA ReductionKeeps ==
    ASSUME CInv, NEW r \in Ranks, ReductionStep(r)
    PROVE  CInv'
<1>1. PICK n \in DOMAIN reductions[r] : ReductionStart(r, n) \/ ReductionEnd(r, n)
  BY DEF ReductionStep
<1>2. PICK S : calls[r] \in Seq(S)
  BY RankFacts
<1>3. PICK P : reductions[r] \in ReductionsOf(P)
  BY RankFacts
<1>4. mainTag' = [mainTag EXCEPT ![r] = mainTag[r]]
  BY <1>1, RankFacts DEF ReductionStart, ReductionEnd
<1>5. CASE ReductionStart(r, n)
  <2> DEFINE t == Len(calls[r]) + 1
             rs == [reductions[r] EXCEPT ![n].tag = t]
  <2>1. PICK call : call.by = n /\ calls' = [calls EXCEPT ![r] = Append(calls[r], call)]
    BY <1>5 DEF ReductionStart, Post, CInv, CallsShape
  <2>2. reductions' = [reductions EXCEPT ![r] = rs]
    BY <1>5 DEF ReductionStart, CInv, CallsShape
  <2>3. t \in Nat
    BY <1>2
  <2> HIDE DEF t
  <2>4. /\ rs \in ReductionsOf(P) /\ rs[n].tag = t /\ DOMAIN rs = DOMAIN reductions[r]
        /\ \A m \in DOMAIN rs : m # n => rs[m] = reductions[r][m]
    BY <1>1, <1>3, <2>3, TagSet
  <2>5. /\ Own(r, Append(calls[r], call), reductions[r], mainTag[r])
        /\ t \in DOMAIN Append(calls[r], call)
        /\ Append(calls[r], call)[t] = call
    BY <1>2, <1>3, RankFacts, PostKeeps DEF t
  <2> HIDE DEF rs
  <2>6. Own(r, Append(calls[r], call), rs, mainTag[r])
    BY <2>1, <2>4, <2>5 DEF Own
  <2>7. \E T : Append(calls[r], call) \in Seq(T)
    BY <1>2, AppendFacts
  <2> QED BY <1>4, <2>1, <2>2, <2>4, <2>6, <2>7, RankFacts, OneRankKeeps
<1>6. CASE ReductionEnd(r, n)
  <2> DEFINE rs == [reductions[r] EXCEPT ![n].tag = Ended]
  <2>1. calls' = [calls EXCEPT ![r] = calls[r]]
    BY <1>6, RankFacts DEF ReductionEnd
  <2>2. reductions' = [reductions EXCEPT ![r] = rs]
    BY <1>6 DEF ReductionEnd, CInv, CallsShape
  <2>3. /\ rs \in ReductionsOf(P) /\ rs[n].tag = Ended /\ DOMAIN rs = DOMAIN reductions[r]
        /\ \A m \in DOMAIN rs : m # n => rs[m] = reductions[r][m]
    BY <1>1, <1>3, TagSet
  <2>4. ~(Ended > NoTag)
    BY DEF Ended, NoTag
  <2> HIDE DEF rs
  <2>5. Own(r, calls[r], rs, mainTag[r])
    BY <2>3, <2>4, RankFacts DEF Own
  <2> QED BY <1>4, <2>1, <2>2, <2>3, <2>5, RankFacts, OneRankKeeps
<1> QED BY <1>1, <1>5, <1>6

LEMMA NextCalls == CInv /\ [Next]_vars => CInv'
<1> SUFFICES ASSUME CInv, [Next]_vars PROVE CInv'
  OBVIOUS
<1>1. ASSUME UNCHANGED <<mainTag, reductions, calls>> PROVE CInv'
  BY <1>1 DEF CInv, CallsShape, OwnCalls
<1>2. ASSUME NEW r \in Ranks,
             Backward(r) \/ Register(r) \/ EndBackward(r) \/ BeginSync(r) \/ EndSync(r)
             \/ WorkerDrop(r) \/ MainSkips(r)
      PROVE  CInv'
  BY <1>1, <1>2 DEF Backward, Register, EndBackward, BeginSync, EndSync, WorkerDrop,
                        MainSkips
<1>3. CASE UNCHANGED vars
  BY <1>1, <1>3 DEF vars
<1> QED BY <1>2, <1>3, MainReduceKeeps, MainEndsKeeps, WorkerReceiveKeeps, ReductionKeeps
        DEF Next, InBackward, InSync, WorkerStep

LEMMA InitCalls == Init => CInv
<1> SUFFICES ASSUME Init PROVE CInv
  OBVIOUS
<1>1. \A r \in Ranks : calls[r] = <<>> /\ reductions[r] = <<>> /\ mainTag[r] = NoTag
  BY DEF Init
<1>2. <<>> \in Seq({}) /\ <<>> \in ReductionsOf({}) /\ NoTag \in Nat
  BY DEF ReductionsOf, NoTag
<1>3. CallsShape
  BY <1>1, <1>2 DEF Init, CallsShape
<1>4. OwnCalls
  BY <1>1 DEF OwnCalls
<1> QED BY <1>3, <1>4 DEF CInv

LEMMA MainReducedTyped ==
    ASSUME TInv, OwnCalls, NEW r \in Ranks, MainReduced(r)
    PROVE  Typed'
<1>0. Typed
  BY DEF TInv
<1> DEFINE k == mainTag[r]
           parts == calls[r][k].parts
           new == [p \in Params |->
                     IF \E i \in DOMAIN parts : parts[i].name = p
                     THEN Averaged(r, k, CHOOSE i \in DOMAIN parts : parts[i].name = p)
                     ELSE grad[r][p]]
<1>1. k \in DOMAIN calls[r] /\ Succeeds(k) /\ queue[r] # <<>>
  BY DEF MainReduced, OwnCalls, TInv, QueueRight
<1>2. \A i \in DOMAIN parts : Averaged(r, k, i) \in Gradient
  BY <1>0, <1>1, AveragedTyped
<1>3. /\ grad' = [grad EXCEPT ![r] = new] /\ queue' = [queue EXCEPT ![r] = Tail(@)]
      /\ mainTag' = [mainTag EXCEPT ![r] = NoTag]
      /\ UNCHANGED <<setup, buckets, uses, pc, todo, ok, channel, pending, reductions,
                     calls, clean>>
  BY <1>0 DEF MainReduced, Typed
<1>4. new \in Grads
  <2>1. \A p \in Params : grad[r][p] \in Gradient
    BY <1>0 DEF Typed, Grads
  <2> HIDE DEF parts, k
  <2> QED BY <1>2, <2>1 DEF Grads
<1> HIDE DEF new
<1> QED BY <1>0, <1>1, <1>3, <1>4, Tails DEF Typed, NoTag

LEMMA OnceTail ==
    ASSUME NEW qs \in Entries, qs # <<>>, Once(qs)
    PROVE  Once(Tail(qs))
<1>1. qs \in Seq(Entry)
  BY DEF Entries
<1>2. \A j \in DOMAIN Tail(qs) : j + 1 \in DOMAIN qs /\ Tail(qs)[j] = qs[j + 1] /\ j \in Nat
  BY <1>1
<1> SUFFICES ASSUME NEW j \in DOMAIN Tail(qs), NEW l \in DOMAIN Tail(qs),
                    NEW i \in DOMAIN Tail(qs)[j].names, NEW m \in DOMAIN Tail(qs)[l].names,
                    Tail(qs)[j].names[i] = Tail(qs)[l].names[m]
             PROVE  j = l /\ i = m
  BY DEF Once
<1>3. j + 1 = l + 1 /\ i = m
  BY <1>2 DEF Once
<1> QED BY <1>2, <1>3

LEMMA OnceByBucket ==
    ASSUME NEW r \in Ranks, Partition(buckets[r])
    PROVE  Once(ByBucket(r))
<1>1. \A b, c \in DOMAIN buckets[r] : \A i \in DOMAIN buckets[r][b], j \in DOMAIN buckets[r][c] :
          buckets[r][b][i] = buckets[r][c][j] => b = c /\ i = j
  BY DEF Partition
<1>2. /\ DOMAIN ByBucket(r) = DOMAIN buckets[r]
      /\ \A b \in DOMAIN buckets[r] : ByBucket(r)[b].names = buckets[r][b]
  BY DEF ByBucket
<1> QED BY <1>1, <1>2 DEF Once

LEMMA OneByOneFacts ==
    ASSUME NEW names \in Names
    PROVE  /\ DOMAIN OneByOne(names) = DOMAIN names /\ Len(OneByOne(names)) = Len(names)
           /\ Len(names) \in Nat /\ DOMAIN names = 1 .. Len(names)
           /\ \A i \in DOMAIN names : /\ OneByOne(names)[i] = [names |-> <<names[i]>>,
                                                               fallback |-> FALSE]
                                      /\ DOMAIN OneByOne(names)[i].names = {1}
                                      /\ OneByOne(names)[i].names[1] = names[i]
<1>1. Len(names) \in Nat /\ DOMAIN names = 1 .. Len(names)
  BY DEF Names
<1>2. /\ DOMAIN OneByOne(names) = DOMAIN names
      /\ \A i \in DOMAIN names : OneByOne(names)[i] = [names |-> <<names[i]>>, fallback |-> FALSE]
  BY DEF OneByOne
<1>3. Len(OneByOne(names)) = Len(names)
  BY <1>1 DEF OneByOne
<1>4. \A i \in DOMAIN names : /\ DOMAIN OneByOne(names)[i].names = {1}
                              /\ OneByOne(names)[i].names[1] = names[i]
  BY <1>2
<1> QED BY <1>1, <1>2, <1>3, <1>4

LEMMA OnceOneByOne ==
    ASSUME NEW names \in Names, Unrepeated(names)
    PROVE  Once(OneByOne(names))
<1> DEFINE one == OneByOne(names)
<1>1. DOMAIN one = DOMAIN names
  BY OneByOneFacts
<1>2. \A i \in DOMAIN names : DOMAIN one[i].names = {1} /\ one[i].names[1] = names[i]
  BY OneByOneFacts
<1> HIDE DEF one
<1> SUFFICES ASSUME NEW j \in DOMAIN one, NEW l \in DOMAIN one,
                    NEW i \in DOMAIN one[j].names, NEW m \in DOMAIN one[l].names,
                    one[j].names[i] = one[l].names[m]
             PROVE  j = l /\ i = m
  BY DEF Once, one
<1>3. i = 1 /\ m = 1 /\ names[j] = names[l]
  BY <1>1, <1>2
<1> QED BY <1>1, <1>3 DEF Unrepeated

\* The parameters of the first, one by one, before the rest.
LEMMA OnceFallback ==
    ASSUME NEW qs \in Entries, qs # <<>>, Once(qs), NEW names \in Names, Unrepeated(names),
           \A i \in DOMAIN names : \E j \in DOMAIN Head(qs).names : Head(qs).names[j] = names[i]
    PROVE  Once(OneByOne(names) \o Tail(qs))
<1> DEFINE N == Len(names)
           one == OneByOne(names)
           all == one \o Tail(qs)
<1>1. qs \in Seq(Entry) /\ 1 \in DOMAIN qs /\ Head(qs) = qs[1]
  BY DEF Entries
<1>2. one \in Seq(Entry) /\ Len(one) = N /\ N \in Nat /\ DOMAIN names = 1 .. N
  BY OneByOneFacts, OneByOneTyped DEF Entries
<1>3. \A i \in 1 .. N : /\ DOMAIN one[i].names = {1} /\ one[i].names[1] = names[i]
  BY OneByOneFacts
<1> HIDE DEF one, N
<1>4. \A j \in DOMAIN all : \/ j \in 1 .. N /\ all[j] = one[j]
                            \/ /\ j > N /\ j - N + 1 \in DOMAIN qs /\ j - N + 1 # 1
                               /\ all[j] = qs[j - N + 1] /\ j \in Nat
  <2>1. Tail(qs) \in Seq(Entry) /\ Len(Tail(qs)) = Len(qs) - 1 /\ Len(qs) \in Nat
    BY <1>1
  <2>2. \A x \in 1 .. Len(qs) - 1 : Tail(qs)[x] = qs[x + 1]
    BY <1>1
  <2>3. DOMAIN qs = 1 .. Len(qs) /\ DOMAIN all = 1 .. N + (Len(qs) - 1)
    BY <1>1, <1>2, <2>1
  <2>4. \A j \in DOMAIN all : all[j] = IF j <= N THEN one[j] ELSE Tail(qs)[j - N]
    BY <1>2, <2>1
  <2> HIDE DEF all
  <2> SUFFICES ASSUME NEW j \in DOMAIN all
               PROVE  \/ j \in 1 .. N /\ all[j] = one[j]
                      \/ /\ j > N /\ j - N + 1 \in DOMAIN qs /\ j - N + 1 # 1
                         /\ all[j] = qs[j - N + 1] /\ j \in Nat
    OBVIOUS
  <2>5. CASE j <= N
    BY <1>2, <2>1, <2>3, <2>4, <2>5
  <2>6. CASE j > N
    <3>1. j - N \in 1 .. Len(qs) - 1 /\ all[j] = Tail(qs)[j - N]
      BY <1>2, <2>1, <2>3, <2>4, <2>6
    <3> QED BY <1>2, <2>1, <2>2, <2>3, <2>6, <3>1
  <2> QED BY <1>2, <2>1, <2>3, <2>5, <2>6
<1> SUFFICES ASSUME NEW j \in DOMAIN all, NEW l \in DOMAIN all,
                    NEW i \in DOMAIN all[j].names, NEW m \in DOMAIN all[l].names,
                    all[j].names[i] = all[l].names[m]
             PROVE  j = l /\ i = m
  BY DEF Once, one
<1> HIDE DEF all
<1>5. \A x \in 1 .. N, y \in DOMAIN qs : \A z \in DOMAIN qs[y].names :
          names[x] = qs[y].names[z] => y = 1
  <2> SUFFICES ASSUME NEW x \in 1 .. N, NEW y \in DOMAIN qs, NEW z \in DOMAIN qs[y].names,
                      names[x] = qs[y].names[z]
               PROVE  y = 1
    OBVIOUS
  <2>1. PICK w \in DOMAIN qs[1].names : qs[1].names[w] = names[x]
    BY <1>1, <1>2
  <2> QED BY <1>1, <2>1 DEF Once
<1>6. CASE j \in 1 .. N /\ all[j] = one[j] /\ l \in 1 .. N /\ all[l] = one[l]
  <2>1. i = 1 /\ m = 1 /\ names[j] = names[l]
    BY <1>3, <1>6
  <2> QED BY <1>2, <1>6, <2>1 DEF Unrepeated
<1>7. CASE j \in 1 .. N /\ all[j] = one[j] /\ ~(l \in 1 .. N /\ all[l] = one[l])
  <2>1. i = 1 /\ all[j].names[i] = names[j]
    BY <1>3, <1>7
  <2> QED BY <1>4, <1>5, <1>7, <2>1
<1>8. CASE l \in 1 .. N /\ all[l] = one[l] /\ ~(j \in 1 .. N /\ all[j] = one[j])
  <2>1. m = 1 /\ all[l].names[m] = names[l]
    BY <1>3, <1>8
  <2> QED BY <1>4, <1>5, <1>8, <2>1
<1>9. CASE ~(j \in 1 .. N /\ all[j] = one[j]) /\ ~(l \in 1 .. N /\ all[l] = one[l])
  <2>1. /\ j - N + 1 \in DOMAIN qs /\ all[j] = qs[j - N + 1] /\ j \in Nat
        /\ l - N + 1 \in DOMAIN qs /\ all[l] = qs[l - N + 1] /\ l \in Nat
    BY <1>4, <1>9
  <2>2. j - N + 1 = l - N + 1 /\ i = m
    BY <2>1 DEF Once
  <2> QED BY <1>2, <2>1, <2>2
<1> QED BY <1>6, <1>7, <1>8, <1>9

\* A step of a rank that leaves its queue in order.
QueueKept(r) ==
    /\ queue' = [queue EXCEPT ![r] = queue'[r]] /\ Once(queue'[r])
    /\ pc' = [pc EXCEPT ![r] = pc'[r]] /\ mainTag' = [mainTag EXCEPT ![r] = mainTag'[r]]
    /\ pc'[r] # "sync" => queue'[r] = <<>>
    /\ mainTag'[r] # NoTag => queue'[r] # <<>>

LEMMA QueueKeeps ==
    ASSUME TInv, NEW r \in Ranks, QueueKept(r)
    PROVE  QueueRight'
<1>1. \A q \in Ranks : q # r => /\ queue'[q] = queue[q] /\ pc'[q] = pc[q]
                                /\ mainTag'[q] = mainTag[q]
  BY DEF QueueKept, TInv, Typed
<1>2. \A q \in Ranks : /\ Once(queue[q])
                       /\ pc[q] # "sync" => queue[q] = <<>>
                       /\ mainTag[q] # NoTag => queue[q] # <<>>
  BY DEF TInv, QueueRight
<1>3. \A q \in Ranks : /\ Once(queue'[q])
                       /\ pc'[q] # "sync" => queue'[q] = <<>>
                       /\ mainTag'[q] # NoTag => queue'[q] # <<>>
  BY <1>1, <1>2 DEF QueueKept
<1> QED BY <1>3 DEF QueueRight, Once

\* A step that leaves queues, counters and buckets alone.
LEMMA QueueSame ==
    ASSUME TInv, UNCHANGED <<queue, pc, mainTag>>
    PROVE  QueueRight'
BY DEF TInv, QueueRight, Once

LEMMA QueueInOrder ==
    ASSUME TInv, NEW r \in Ranks,
           Backward(r) \/ InBackward(r) \/ InSync(r) \/ WorkerStep(r) \/ ReductionStep(r)
    PROVE  QueueRight'
<1>0. /\ Typed /\ queue[r] \in Entries /\ Once(queue[r])
      /\ pc[r] # "sync" => queue[r] = <<>>
      /\ mainTag[r] # NoTag => queue[r] # <<>>
      /\ queue = [q \in Ranks |-> queue[q]] /\ pc = [q \in Ranks |-> pc[q]]
      /\ mainTag = [q \in Ranks |-> mainTag[q]]
  BY DEF TInv, QueueRight, Typed
<1>1. Once(<<>>)
  BY DEF Once
<1>2. CASE Backward(r) \/ EndBackward(r)
  <2>1. /\ pc[r] # "sync" /\ pc'[r] # "sync" /\ pc' = [pc EXCEPT ![r] = pc'[r]]
        /\ queue' = queue /\ mainTag' = mainTag
    BY <1>0, <1>2 DEF Backward, EndBackward
  <2> QED BY <1>0, <2>1, QueueKeeps DEF QueueKept
<1>3. CASE Register(r) \/ WorkerStep(r)
  <2>1. UNCHANGED <<queue, pc, mainTag>>
    BY <1>3 DEF Register, WorkerStep, WorkerReceive, WorkerDrop, mainVars
  <2> QED BY <2>1, QueueSame
<1>4. CASE ReductionStep(r)
  <2>1. UNCHANGED <<queue, pc, mainTag>>
    BY <1>4 DEF ReductionStep, ReductionStart, ReductionEnd, mainVars
  <2> QED BY <2>1, QueueSame
<1>5. CASE BeginSync(r)
  <2>1. \/ setup.bucketed /\ Partition(buckets[r])
        \/ buckets[r] = <<>>
    BY DEF TInv, BucketsRight
  <2>2. buckets[r] # <<>> => Once(ByBucket(r))
    BY <2>1, OnceByBucket
  <2>3. \A o \in Orders : Once(OneByOne(o))
    BY OrderUnrepeated, OnceOneByOne
  <2>4. PICK q : queue' = [queue EXCEPT ![r] = q] /\ Once(q)
    BY <1>5, <2>2, <2>3 DEF BeginSync
  <2>5. queue[r] = <<>> /\ mainTag[r] = NoTag
    BY <1>0, <1>5 DEF BeginSync
  <2>6. /\ pc' = [pc EXCEPT ![r] = "sync"] /\ mainTag' = mainTag
    BY <1>5 DEF BeginSync
  <2> QED BY <1>0, <2>4, <2>5, <2>6, QueueKeeps DEF QueueKept
<1>6. CASE MainSkips(r)
  <2>1. Once(Tail(queue[r]))
    BY <1>0, <1>6, OnceTail DEF MainSkips
  <2>2. /\ queue' = [queue EXCEPT ![r] = Tail(queue[r])] /\ pc[r] = "sync" /\ mainTag[r] = NoTag
        /\ pc' = pc /\ mainTag' = mainTag
    BY <1>6 DEF MainSkips
  <2> QED BY <1>0, <2>1, <2>2, QueueKeeps DEF QueueKept
<1>7. CASE MainReduce(r)
  <2>1. /\ queue' = queue /\ pc' = pc /\ queue[r] # <<>> /\ pc[r] = "sync"
        /\ mainTag' = [mainTag EXCEPT ![r] = Len(calls[r]) + 1]
    BY <1>7 DEF MainReduce, mainVars
  <2> QED BY <1>0, <2>1, QueueKeeps DEF QueueKept
<1>8. CASE MainReduced(r)
  <2>1. Once(Tail(queue[r]))
    BY <1>0, <1>8, OnceTail DEF MainReduced
  <2>2. /\ queue' = [queue EXCEPT ![r] = Tail(queue[r])] /\ pc' = pc /\ pc[r] = "sync"
        /\ mainTag' = [mainTag EXCEPT ![r] = NoTag]
    BY <1>0, <1>8 DEF MainReduced
  <2> QED BY <1>0, <2>1, <2>2, QueueKeeps DEF QueueKept
<1>9. CASE MainFails(r)
  <2>1. queue[r] # <<>> /\ pc[r] = "sync"
    BY <1>0, <1>9 DEF MainFails
  <2>2. Once(OneByOne(Reducible(r)) \o Tail(queue[r]))
    BY <1>0, <2>1, ReducibleFacts, OnceFallback
  <2>3. PICK q : queue' = [queue EXCEPT ![r] = q] /\ Once(q)
    <3>1. queue' = [queue EXCEPT ![r] = IF Head(queue[r]).fallback
                       THEN OneByOne(Reducible(r)) \o Tail(queue[r]) ELSE <<>>]
      BY <1>9 DEF MainFails
    <3> QED BY <1>1, <2>2, <3>1
  <2>4. pc' = pc /\ mainTag' = [mainTag EXCEPT ![r] = NoTag]
    BY <1>9 DEF MainFails
  <2> QED BY <1>0, <2>1, <2>3, <2>4, QueueKeeps DEF QueueKept
<1>10. CASE EndSync(r)
  <2>1. /\ queue' = queue /\ queue[r] = <<>> /\ mainTag' = mainTag
        /\ pc' = [pc EXCEPT ![r] = "idle"]
    BY <1>10 DEF EndSync
  <2> QED BY <1>0, <2>1, QueueKeeps DEF QueueKept
<1> QED BY <1>2, <1>3, <1>4, <1>5, <1>6, <1>7, <1>8, <1>9, <1>10 DEF InBackward, InSync

LEMMA StepTyped ==
    ASSUME TInv, OwnCalls, NEW r \in Ranks,
           Backward(r) \/ InBackward(r) \/ InSync(r) \/ WorkerStep(r) \/ ReductionStep(r)
    PROVE  TInv'
<1>0. Typed
  BY DEF TInv
<1>1. Typed'
  BY <1>0, BackwardTyped, RegisterTyped, EndBackwardTyped, BeginSyncTyped, MainSkipsTyped,
     MainReduceTyped, MainReducedTyped, MainFailsTyped, EndSyncTyped, WorkerReceiveTyped,
     WorkerDropTyped, ReductionStartTyped, ReductionEndTyped
     DEF InBackward, InSync, WorkerStep, ReductionStep
<1>2. setup' = setup /\ buckets' = buckets
  BY DEF Backward, InBackward, Register, EndBackward, BeginSync, InSync, MainSkips, MainReduce,
         MainReduced, MainFails, EndSync, WorkerStep, WorkerReceive, WorkerDrop, ReductionStep,
         ReductionStart, ReductionEnd
<1>3. BucketsRight'
  BY <1>2 DEF TInv, BucketsRight, Partition
<1> QED BY <1>1, <1>3, QueueInOrder DEF TInv

LEMMA SameTyped ==
    ASSUME TInv, UNCHANGED vars
    PROVE  TInv'
<1>1. Typed'
  BY DEF TInv, Typed, vars
<1>2. BucketsRight'
  BY DEF TInv, BucketsRight, Partition, vars
<1>3. QueueRight'
  BY QueueSame DEF vars
<1> QED BY <1>1, <1>2, <1>3 DEF TInv

LEMMA InitTyped == Init => TInv
<1> SUFFICES ASSUME Init PROVE TInv
  OBVIOUS
<1>1. setup \in Setup
  BY DdpAssumption DEF Init
<1>2. \A r \in Ranks : IF setup.bucketed THEN Partition(Buckets(setup, r))
                       ELSE Buckets(setup, r) = <<>>
  BY <1>1, SortedOrder, FilledIsPartition DEF Buckets
<1>3. BucketsRight
  BY <1>2 DEF Init, BucketsRight
<1>4. \A r \in Ranks : Buckets(setup, r) \in Seq(Seq(Params))
  <2> SUFFICES ASSUME NEW r \in Ranks PROVE Buckets(setup, r) \in Seq(Seq(Params))
    OBVIOUS
  <2>1. CASE setup.bucketed
    <3>1. Partition(Buckets(setup, r))
      BY <1>2, <2>1
    <3> QED BY <3>1 DEF Partition
  <2>2. CASE ~setup.bucketed
    <3>1. Buckets(setup, r) = <<>>
      BY <1>2, <2>2
    <3> QED BY <3>1
  <2> QED BY <2>1, <2>2
<1>5. [p \in Params |-> None] \in Grads
  BY DEF Grads, Gradient, None
<1>6. [b \in 1 .. NP |-> <<>>] \in Slots /\ NoTag \in Nat
  BY Tails DEF Slots, NoTag
<1>7. <<>> \in UseSeq /\ <<>> \in Reductions /\ <<>> \in CallSeq
  BY DEF UseSeq, Reductions, CallSeq
<1>8. Typed
  BY <1>4, <1>5, <1>6, <1>7, Tails DEF Init, Typed, Pcs, NP
<1>9. QueueRight
  BY DEF Init, QueueRight, Once
<1> QED BY <1>3, <1>8, <1>9 DEF TInv

\* Every variable keeps its type, buckets and queues name no parameter twice,
\* and nothing is queued or waited for outside of sync_gradients.
THEOREM Types == Spec => []TypeOK
<1>1. TInv /\ CInv /\ [Next]_vars => TInv'
  <2> SUFFICES ASSUME TInv, CInv, [Next]_vars PROVE TInv'
    OBVIOUS
  <2>1. CASE Next
    BY <2>1, StepTyped DEF Next, CInv
  <2>2. CASE UNCHANGED vars
    BY <2>2, SameTyped
  <2> QED BY <2>1, <2>2
<1> QED BY <1>1, InitTyped, InitCalls, NextCalls, TypedOK, PTL DEF Spec

-----------------------------------------------------------------------------
(* Averages.                                                                *)

InQueue(qs, p) == \E j \in DOMAIN qs : \E i \in DOMAIN qs[j].names : qs[j].names[i] = p

\* The gradient that the last backward pass gave.
Fresh(r, p) == IF p \in uses[r][Step(r)] THEN {<<r, p, Step(r)>>} ELSE None

GradRight(r) ==
    /\ pc[r] # "idle" => Step(r) > 0
    /\ pc[r] = "backward" => \A p \in Params : grad[r][p] = Fresh(r, p)
    /\ \A p \in Params : InQueue(queue[r], p) => grad[r][p] = Fresh(r, p)

\* The main task reduces the gradients of its own backward pass.
CallRight(r) ==
    \A k \in DOMAIN calls[r] : calls[r][k].by = 0 =>
        \A i \in DOMAIN calls[r][k].parts :
            calls[r][k].parts[i].grad = {<<r, calls[r][k].parts[i].name, calls[r][k].step>>}

TagRight(r) ==
    mainTag[r] # NoTag =>
        /\ mainTag[r] \in DOMAIN calls[r]
        /\ calls[r][mainTag[r]] = [by |-> 0, step |-> Step(r),
                                   parts |-> PartsOf(r, Reducible(r))]

Average(r, p) == {<<q, p, Step(r)>> : q \in Ranks}

AvgRight(r) ==
    Paired /\ ok[r] /\ setup.sync /\ pc[r] # "backward" =>
        \A p \in Params : ~InQueue(queue[r], p) /\ HasGrad(r, p) => grad[r][p] = Average(r, p)

\* What is queued is queued without an error so far.
OkRight(r) == queue[r] # <<>> => ok[r]

RankRight(r) == GradRight(r) /\ CallRight(r) /\ TagRight(r) /\ AvgRight(r) /\ OkRight(r)

AInv == TInv /\ OwnCalls /\ \A r \in Ranks : RankRight(r)

\* Paired calls were paired before there were more of them.
MoreCalls(r) ==
    \A k \in DOMAIN calls[r] : k \in DOMAIN calls'[r] /\ calls'[r][k] = calls[r][k]

LEMMA PairedBefore ==
    ASSUME \A r \in Ranks : MoreCalls(r), Paired'
    PROVE  Paired
<1> SUFFICES ASSUME NEW q \in Ranks, NEW r \in Ranks,
                    NEW k \in DOMAIN calls[q] \intersect DOMAIN calls[r]
             PROVE  /\ calls[q][k].by = calls[r][k].by /\ calls[q][k].step = calls[r][k].step
                    /\ NamesOf(calls[q][k].parts) = NamesOf(calls[r][k].parts)
  BY DEF Paired
<1>1. /\ k \in DOMAIN calls'[q] \intersect DOMAIN calls'[r]
      /\ calls'[q][k] = calls[q][k] /\ calls'[r][k] = calls[r][k]
  BY DEF MoreCalls
<1>2. /\ calls'[q][k].by = calls'[r][k].by /\ calls'[q][k].step = calls'[r][k].step
      /\ NamesOf(calls'[q][k].parts) = NamesOf(calls'[r][k].parts)
  BY <1>1 DEF Paired, NamesOf
<1> QED BY <1>1, <1>2

\* What a rank's averages are about.
Same(r) == /\ setup' = setup /\ uses'[r] = uses[r] /\ pc'[r] = pc[r] /\ queue'[r] = queue[r]
           /\ mainTag'[r] = mainTag[r] /\ ok'[r] = ok[r] /\ grad'[r] = grad[r]
           /\ calls'[r] = calls[r]

LEMMA SameRight ==
    ASSUME NEW r \in Ranks, RankRight(r), Same(r), Paired' => Paired
    PROVE  RankRight(r)'
<1>1. GradRight(r)'
  BY DEF RankRight, GradRight, Same, Step, Fresh, InQueue
<1>2. CallRight(r)'
  BY DEF RankRight, CallRight, Same
<1>3. TagRight(r)'
  <2>1. Reducible(r)' = Reducible(r)
    BY DEF Same, Reducible, HasGrad, Among
  <2>2. PartsOf(r, Reducible(r))' = PartsOf(r, Reducible(r))
    BY <2>1 DEF PartsOf, Same
  <2> QED BY <2>2 DEF RankRight, TagRight, Same, Step
<1>4. AvgRight(r)'
  BY DEF RankRight, AvgRight, Same, Step, InQueue, Average, HasGrad
<1>20. OkRight(r)'
  BY DEF RankRight, OkRight, Same
<1> QED BY <1>1, <1>2, <1>3, <1>4, <1>20 DEF RankRight

LEMMA InTail ==
    ASSUME NEW qs \in Entries, qs # <<>>, Once(qs), NEW p
    PROVE  /\ InQueue(Tail(qs), p) => /\ InQueue(qs, p)
                                      /\ ~\E i \in DOMAIN Head(qs).names : Head(qs).names[i] = p
           /\ InQueue(qs, p) => \/ InQueue(Tail(qs), p)
                                \/ \E i \in DOMAIN Head(qs).names : Head(qs).names[i] = p
           /\ (\E i \in DOMAIN Head(qs).names : Head(qs).names[i] = p) => InQueue(qs, p)
<1>1. qs \in Seq(Entry) /\ 1 \in DOMAIN qs /\ Head(qs) = qs[1]
  BY DEF Entries
<1>2. \A j \in DOMAIN Tail(qs) : j + 1 \in DOMAIN qs /\ j + 1 # 1 /\ Tail(qs)[j] = qs[j + 1]
  BY <1>1
<1>3. \A j \in DOMAIN qs : j # 1 => j - 1 \in DOMAIN Tail(qs) /\ Tail(qs)[j - 1] = qs[j]
  BY <1>1
<1>4. ASSUME InQueue(Tail(qs), p)
      PROVE  InQueue(qs, p) /\ ~\E i \in DOMAIN Head(qs).names : Head(qs).names[i] = p
  <2>0. PICK j \in DOMAIN Tail(qs) : \E m \in DOMAIN Tail(qs)[j].names : Tail(qs)[j].names[m] = p
    BY <1>4 DEF InQueue
  <2>1. PICK m \in DOMAIN Tail(qs)[j].names : Tail(qs)[j].names[m] = p
    BY <2>0
  <2>2. j + 1 \in DOMAIN qs /\ j + 1 # 1 /\ m \in DOMAIN qs[j + 1].names
        /\ qs[j + 1].names[m] = p
    BY <1>2, <2>1
  <2>3. ASSUME NEW i \in DOMAIN Head(qs).names, Head(qs).names[i] = p PROVE FALSE
    BY <1>1, <2>2, <2>3 DEF Once
  <2> QED BY <2>2, <2>3 DEF InQueue
<1>5. ASSUME InQueue(qs, p)
      PROVE  InQueue(Tail(qs), p) \/ \E i \in DOMAIN Head(qs).names : Head(qs).names[i] = p
  <2>1. PICK j \in DOMAIN qs : \E i \in DOMAIN qs[j].names : qs[j].names[i] = p
    BY <1>5 DEF InQueue
  <2>2. CASE j = 1
    BY <1>1, <2>1, <2>2
  <2>3. CASE j # 1
    <3>1. j - 1 \in DOMAIN Tail(qs) /\ Tail(qs)[j - 1] = qs[j]
      BY <1>3, <2>3
    <3> QED BY <2>1, <3>1 DEF InQueue
  <2> QED BY <2>2, <2>3
<1>6. (\E i \in DOMAIN Head(qs).names : Head(qs).names[i] = p) => InQueue(qs, p)
  BY <1>1 DEF InQueue
<1> QED BY <1>4, <1>5, <1>6

LEMMA InOneByOne ==
    ASSUME NEW names \in Names, NEW p
    PROVE  InQueue(OneByOne(names), p) <=> \E i \in DOMAIN names : names[i] = p
<1> DEFINE one == OneByOne(names)
<1>1. DOMAIN one = DOMAIN names
  BY OneByOneFacts
<1>2. \A i \in DOMAIN names : DOMAIN one[i].names = {1} /\ one[i].names[1] = names[i]
  BY OneByOneFacts
<1> HIDE DEF one
<1>3. InQueue(one, p) <=> \E i \in DOMAIN names : names[i] = p
  BY <1>1, <1>2 DEF InQueue
<1> QED BY <1>3 DEF one

LEMMA InConcat ==
    ASSUME NEW qs \in Entries, NEW rs \in Entries, NEW p
    PROVE  InQueue(qs \o rs, p) <=> InQueue(qs, p) \/ InQueue(rs, p)
<1> DEFINE N == Len(qs)
<1>1. qs \in Seq(Entry) /\ rs \in Seq(Entry) /\ N \in Nat
  BY DEF Entries
<1>2. \A j \in DOMAIN qs : j \in DOMAIN (qs \o rs) /\ (qs \o rs)[j] = qs[j]
  BY <1>1
<1>3. \A j \in DOMAIN rs : N + j \in DOMAIN (qs \o rs) /\ (qs \o rs)[N + j] = rs[j]
  BY <1>1
<1>4. \A j \in DOMAIN (qs \o rs) : \/ j \in DOMAIN qs /\ (qs \o rs)[j] = qs[j]
                                   \/ j - N \in DOMAIN rs /\ (qs \o rs)[j] = rs[j - N]
  BY <1>1
<1> DEFINE all == qs \o rs
<1>5. ASSUME InQueue(all, p) PROVE InQueue(qs, p) \/ InQueue(rs, p)
  <2>1. PICK j \in DOMAIN all : \E i \in DOMAIN all[j].names : all[j].names[i] = p
    BY <1>5 DEF InQueue
  <2>2. CASE j \in DOMAIN qs /\ all[j] = qs[j]
    BY <2>1, <2>2 DEF InQueue
  <2>3. CASE j - N \in DOMAIN rs /\ all[j] = rs[j - N]
    BY <2>1, <2>3 DEF InQueue
  <2> QED BY <1>4, <2>2, <2>3
<1>6. ASSUME InQueue(qs, p) PROVE InQueue(all, p)
  BY <1>2, <1>6 DEF InQueue
<1>7. ASSUME InQueue(rs, p) PROVE InQueue(all, p)
  <2>1. PICK j \in DOMAIN rs : \E i \in DOMAIN rs[j].names : rs[j].names[i] = p
    BY <1>7 DEF InQueue
  <2>2. N + j \in DOMAIN all /\ all[N + j] = rs[j]
    BY <1>3
  <2> HIDE DEF all
  <2> QED BY <2>1, <2>2 DEF InQueue
<1> QED BY <1>5, <1>6, <1>7

LEMMA AllInQueue ==
    ASSUME NEW r \in Ranks, NEW p \in Params
    PROVE  /\ Partition(buckets[r]) => InQueue(ByBucket(r), p)
           /\ \A o \in Orders : InQueue(OneByOne(o), p)
<1>1. ASSUME Partition(buckets[r]) PROVE InQueue(ByBucket(r), p)
  <2>1. PICK b \in DOMAIN buckets[r] : \E i \in DOMAIN buckets[r][b] : buckets[r][b][i] = p
    BY <1>1 DEF Partition
  <2>2. b \in DOMAIN ByBucket(r) /\ ByBucket(r)[b].names = buckets[r][b]
    BY DEF ByBucket
  <2> QED BY <2>1, <2>2 DEF InQueue
<1>2. ASSUME NEW o \in Orders PROVE InQueue(OneByOne(o), p)
  BY OrderUnrepeated, OrderFacts, InOneByOne
<1> QED BY <1>1, <1>2

\* What is cut out of the flat result of calls about the same parameters is
\* the average of the part's gradient over all ranks.
LEMMA AveragedOf ==
    ASSUME Typed, \A q \in Ranks : CallRight(q),
           NEW r \in Ranks, NEW k \in DOMAIN calls[r], Succeeds(k),
           \A q \in Ranks : /\ calls[q][k].by = 0
                            /\ NamesOf(calls[q][k].parts) = NamesOf(calls[r][k].parts),
           NEW i \in DOMAIN calls[r][k].parts
    PROVE  Averaged(r, k, i) = {<<q, calls[r][k].parts[i].name, calls[q][k].step>> : q \in Ranks}
<1> DEFINE P(q) == calls[q][k].parts
           nm == NamesOf(P(r))
           off == Offsets(nm)
           D == off[i - 1] + 1 .. off[i]
           x(q) == <<q, nm[i], calls[q][k].step>>
<1>0. setup.size \in [Params -> Nat \ {0}]
  BY SetupFacts
<1>1. \A q \in Ranks : k \in DOMAIN calls[q] /\ calls[q][k] \in Call
  <2> SUFFICES ASSUME NEW q \in Ranks PROVE k \in DOMAIN calls[q] /\ calls[q][k] \in Call
    OBVIOUS
  <2>1. calls[q] \in Seq(Call) /\ calls[r] \in Seq(Call)
    BY DEF Typed, CallSeq
  <2>2. k \in DOMAIN calls[q]
    BY <2>1 DEF Succeeds, Met
  <2> QED BY <2>1, <2>2
<1>2. \A q \in Ranks : P(q) \in Seq(Named)
  BY <1>1 DEF Call
<1>3. \A q \in Ranks : calls[q][k].by = 0 /\ NamesOf(P(q)) = nm
  OBVIOUS
<1>4. nm \in Seq(Params) /\ DOMAIN nm = DOMAIN P(r) /\ Len(nm) \in Nat
  <2>1. P(r) \in Seq(Named) /\ DOMAIN nm = DOMAIN P(r)
    BY <1>2 DEF NamesOf
  <2> HIDE DEF P
  <2>2. \A j \in DOMAIN P(r) : P(r)[j].name \in Params
    <3> SUFFICES ASSUME NEW j \in DOMAIN P(r) PROVE P(r)[j].name \in Params
      OBVIOUS
    <3>1. P(r)[j] \in Named
      BY <2>1
    <3> QED BY <3>1 DEF Named
  <2>3. nm = [j \in DOMAIN P(r) |-> P(r)[j].name]
    BY DEF NamesOf
  <2>4. nm \in Seq(Params)
    BY <2>1, <2>2, <2>3
  <2> HIDE DEF nm
  <2> QED BY <2>1, <2>4
<1>5. i \in 1 .. Len(nm) /\ nm[i] = P(r)[i].name
  <2>1. nm[i] = P(r)[i].name /\ i \in DOMAIN P(r)
    BY DEF NamesOf
  <2> HIDE DEF nm, P
  <2> QED BY <1>4, <2>1
<1>6. D # {}
  <2> HIDE DEF nm
  <2>1. off[i] = off[i - 1] + setup.size[nm[i]] /\ off \in [0 .. Len(nm) -> Nat]
    BY <1>0, <1>4, <1>5, OffsetsFacts
  <2>2. setup.size[nm[i]] \in Nat \ {0}
    BY <1>0, <1>4, <1>5
  <2>3. off[i - 1] \in Nat /\ off[i] \in Nat
    BY <1>4, <1>5, <2>1
  <2> HIDE DEF off
  <2>4. off[i] \in D
    BY <2>1, <2>2, <2>3
  <2> QED BY <2>4
<1>7. ASSUME NEW q \in Ranks, NEW e \in D
      PROVE  Flattened(P(q))[e] = {x(q)}
  <2>1. PartAt(off, e) = i /\ e \in 1 .. off[Len(nm)]
    <3> HIDE DEF nm
    <3> QED BY <1>0, <1>4, <1>5, PartAtFacts
  <2>2. NamesOf(P(q)) = nm /\ calls[q][k].by = 0
    BY <1>3
  <2>3. Len(P(q)) = Len(nm) /\ DOMAIN P(q) = DOMAIN nm
    <3>1. P(q) \in Seq(Named) /\ DOMAIN NamesOf(P(q)) = DOMAIN P(q)
      BY <1>2 DEF NamesOf
    <3> HIDE DEF P, nm
    <3> QED BY <1>4, <2>2, <3>1
  <2>4. LengthOf(P(q)) = off[Len(nm)]
    BY <2>2, <2>3 DEF LengthOf
  <2>5. Flattened(P(q))[e] = P(q)[i].grad
    <3>1. Flattened(P(q)) = [f \in 1 .. off[Len(nm)] |-> P(q)[PartAt(off, f)].grad]
      BY <2>2, <2>4 DEF Flattened
    <3> HIDE DEF P, off, nm
    <3> QED BY <2>1, <3>1
  <2>6. i \in DOMAIN P(q)
    BY <1>4, <1>5, <2>3
  <2>7. P(q)[i].grad = {<<q, P(q)[i].name, calls[q][k].step>>}
    BY <1>1, <2>2, <2>6 DEF CallRight
  <2>8. P(q)[i].name = NamesOf(P(q))[i]
    BY <2>6 DEF NamesOf
  <2>9. P(q)[i].name = nm[i]
    BY <2>2, <2>8
  <2> HIDE DEF P, nm
  <2> QED BY <2>5, <2>7, <2>9
<1>8. Averaged(r, k, i) = UNION {Flattened(P(q))[e] : q \in Ranks, e \in D}
  BY DEF Averaged
<1>9. {x(q) : q \in Ranks} = {<<q, calls[r][k].parts[i].name, calls[q][k].step>> : q \in Ranks}
  BY <1>5
<1> HIDE DEF P, D, x
<1>10. UNION {Flattened(P(q))[e] : q \in Ranks, e \in D} = {x(q) : q \in Ranks}
  BY <1>6, <1>7
<1>11. Averaged(r, k, i) = {x(q) : q \in Ranks}
  BY <1>8, <1>10
<1> QED BY <1>9, <1>11

\* Paired calls are of one backward pass, too.
LEMMA AveragedAll ==
    ASSUME Typed, Paired, \A q \in Ranks : CallRight(q),
           NEW r \in Ranks, NEW k \in DOMAIN calls[r], calls[r][k].by = 0, Succeeds(k),
           NEW i \in DOMAIN calls[r][k].parts
    PROVE  Averaged(r, k, i) = {<<q, calls[r][k].parts[i].name, calls[r][k].step>> : q \in Ranks}
<1>1. \A q \in Ranks : calls[q] \in CallSeq
  BY DEF Typed
<1>2. \A q \in Ranks : k \in DOMAIN calls[q]
  BY <1>1 DEF CallSeq, Succeeds, Met
<1>3. \A q \in Ranks : /\ calls[q][k].by = 0 /\ calls[q][k].step = calls[r][k].step
                       /\ NamesOf(calls[q][k].parts) = NamesOf(calls[r][k].parts)
  BY <1>2 DEF Paired
<1> QED BY <1>3, AveragedOf

\* What every part of the invariant says of one rank.
LEMMA RightFacts ==
    ASSUME AInv, NEW r \in Ranks
    PROVE  /\ Typed /\ RankRight(r) /\ GradRight(r) /\ CallRight(r) /\ TagRight(r) /\ AvgRight(r)
           /\ OkRight(r) /\ queue[r] \in Entries /\ Once(queue[r]) /\ calls[r] \in CallSeq
           /\ pc[r] # "sync" => queue[r] = <<>>
           /\ mainTag[r] # NoTag => queue[r] # <<>> /\ pc[r] = "sync"
BY DEF AInv, RankRight, TInv, QueueRight, Typed

\* The step of one rank.
LEMMA OneRankRight ==
    ASSUME AInv, NEW r \in Ranks, RankRight(r)', TInv', OwnCalls',
           \A q \in Ranks \ {r} : Same(q), MoreCalls(r)
    PROVE  AInv'
<1>1. \A q \in Ranks : MoreCalls(q)
  BY DEF MoreCalls, Same
<1>2. \A q \in Ranks \ {r} : RankRight(q)'
  BY <1>1, PairedBefore, SameRight DEF AInv
<1>3. \A q \in Ranks : RankRight(q)'
  BY <1>2
<1> QED BY <1>3 DEF AInv

LEMMA BackwardRight ==
    ASSUME AInv, NEW r \in Ranks, Backward(r)
    PROVE  RankRight(r)'
<1>1. PICK use \in setup.useSets :
         /\ uses' = [uses EXCEPT ![r] = Append(@, use)]
         /\ grad' = [grad EXCEPT ![r] = [p \in Params |->
                       IF p \in use THEN {<<r, p, Step(r) + 1>>} ELSE None]]
  BY DEF Backward
<1>2. /\ pc[r] = "idle" /\ pc'[r] = "backward" /\ queue'[r] = <<>> /\ mainTag'[r] = NoTag
      /\ calls'[r] = calls[r]
  BY RightFacts DEF Backward, Typed
<1>3. uses'[r] = Append(uses[r], use) /\ uses[r] \in Seq(SUBSET Params)
  BY <1>1, RightFacts DEF Typed, UseSeq
<1>4. Step(r)' = Step(r) + 1 /\ Step(r) \in Nat /\ uses'[r][Step(r)'] = use
  BY <1>3 DEF Step
<1>5. \A p \in Params : grad'[r][p] = IF p \in use THEN {<<r, p, Step(r) + 1>>} ELSE None
  BY <1>1, RightFacts DEF Typed
<1>6. \A p \in Params : grad'[r][p] = Fresh(r, p)'
  BY <1>4, <1>5 DEF Fresh
<1>7. GradRight(r)'
  BY <1>2, <1>4, <1>6 DEF GradRight, InQueue
<1>8. CallRight(r)'
  BY <1>2, RightFacts DEF CallRight
<1>9. TagRight(r)' /\ AvgRight(r)'
  BY <1>2 DEF TagRight, AvgRight
<1>20. OkRight(r)'
  BY <1>2, RightFacts DEF OkRight
<1> QED BY <1>7, <1>8, <1>9, <1>20 DEF RankRight

LEMMA EndBackwardRight ==
    ASSUME AInv, NEW r \in Ranks, EndBackward(r)
    PROVE  RankRight(r)'
<1>1. /\ pc[r] = "backward" /\ pc'[r] = "idle" /\ queue'[r] = <<>> /\ mainTag'[r] = NoTag
      /\ ~setup'.sync /\ calls' = calls
  BY RightFacts DEF EndBackward, Typed
<1>2. GradRight(r)'
  BY <1>1 DEF GradRight, InQueue
<1>3. CallRight(r)'
  BY <1>1, RightFacts DEF CallRight
<1>4. TagRight(r)' /\ AvgRight(r)'
  BY <1>1 DEF TagRight, AvgRight
<1>20. OkRight(r)'
  BY <1>1, RightFacts DEF OkRight
<1> QED BY <1>2, <1>3, <1>4, <1>20 DEF RankRight

LEMMA BeginSyncRight ==
    ASSUME AInv, NEW r \in Ranks, BeginSync(r)
    PROVE  RankRight(r)'
<1>1. /\ pc[r] = "backward" /\ pc'[r] = "sync" /\ mainTag'[r] = NoTag /\ ok'[r]
      /\ calls' = calls /\ uses' = uses /\ grad' = grad
  BY RightFacts DEF BeginSync, Typed
<1>2. \A p \in Params : InQueue(queue'[r], p)
  <2>1. \/ Partition(buckets[r])
        \/ buckets[r] = <<>>
    BY DEF AInv, TInv, BucketsRight
  <2>2. PICK q : queue' = [queue EXCEPT ![r] = q] /\ \A p \in Params : InQueue(q, p)
    BY <2>1, AllInQueue DEF BeginSync
  <2> QED BY <2>2, RightFacts DEF Typed
<1>3. GradRight(r)'
  <2>1. Step(r) > 0 /\ \A p \in Params : grad[r][p] = Fresh(r, p)
    BY <1>1, RightFacts DEF GradRight
  <2>2. Step(r)' = Step(r) /\ \A p \in Params : Fresh(r, p)' = Fresh(r, p)
    BY <1>1 DEF Step, Fresh
  <2> QED BY <1>1, <2>1, <2>2 DEF GradRight
<1>4. CallRight(r)'
  BY <1>1, RightFacts DEF CallRight
<1>5. TagRight(r)' /\ AvgRight(r)'
  <2>1. TagRight(r)'
    BY <1>1 DEF TagRight
  <2>2. \A p \in Params : InQueue(queue[r], p)'
    BY <1>2 DEF InQueue
  <2>3. AvgRight(r)'
    BY <2>2 DEF AvgRight
  <2> QED BY <2>1, <2>3
<1>20. OkRight(r)'
  BY <1>1, RightFacts DEF OkRight
<1> QED BY <1>3, <1>4, <1>5, <1>20 DEF RankRight

LEMMA MainSkipsRight ==
    ASSUME AInv, NEW r \in Ranks, MainSkips(r)
    PROVE  RankRight(r)'
<1>1. /\ mainTag'[r] = NoTag /\ queue[r] # <<>> /\ queue'[r] = Tail(queue[r])
      /\ UNCHANGED <<setup, pc, ok, calls, uses, grad>> /\ Reducible(r) = <<>>
  BY RightFacts DEF MainSkips, Typed
<1>2. \A i \in DOMAIN Head(queue[r]).names : ~HasGrad(r, Head(queue[r]).names[i])
  BY <1>1, ReducibleFacts DEF AInv
<1>3. \A p : InQueue(queue'[r], p) => InQueue(queue[r], p)
  BY <1>1, RightFacts, InTail
<1>4. \A p : InQueue(queue[r], p) /\ HasGrad(r, p) => InQueue(queue'[r], p)
  BY <1>1, <1>2, RightFacts, InTail
<1>5. GradRight(r)'
  <2>1. \A p : InQueue(queue[r], p)' => InQueue(queue[r], p)
    BY <1>3 DEF InQueue
  <2> QED BY <1>1, <2>1, RightFacts DEF GradRight, Step, Fresh
<1>6. CallRight(r)'
  BY <1>1, RightFacts DEF CallRight
<1>7. TagRight(r)'
  BY <1>1 DEF TagRight
<1>8. AvgRight(r)'
  <2>1. \A p : ~InQueue(queue[r], p)' /\ HasGrad(r, p) => ~InQueue(queue[r], p)
    BY <1>4 DEF InQueue
  <2>2. Paired' => Paired
    BY <1>1 DEF Paired
  <2>3. \A p : HasGrad(r, p)' <=> HasGrad(r, p)
    BY <1>1 DEF HasGrad
  <2> QED BY <1>1, <2>1, <2>2, <2>3, RightFacts DEF AvgRight, Step, Average
<1>20. OkRight(r)'
  BY <1>1, RightFacts DEF OkRight
<1> QED BY <1>5, <1>6, <1>7, <1>8, <1>20 DEF RankRight

\* One more call of a rank.
LEMMA AppendedCall ==
    ASSUME Typed, NEW r \in Ranks, NEW call,
           calls' = [calls EXCEPT ![r] = Append(@, call)]
    PROVE  /\ calls'[r] = Append(calls[r], call) /\ Len(calls[r]) \in Nat
           /\ DOMAIN calls'[r] = DOMAIN calls[r] \union {Len(calls[r]) + 1}
           /\ Len(calls[r]) + 1 \notin DOMAIN calls[r]
           /\ calls'[r][Len(calls[r]) + 1] = call
           /\ \A k \in DOMAIN calls[r] : calls'[r][k] = calls[r][k]
           /\ MoreCalls(r)
<1>1. calls'[r] = Append(calls[r], call) /\ calls[r] \in Seq(Call)
  BY DEF Typed, CallSeq
<1>2. /\ DOMAIN calls[r] = 1 .. Len(calls[r]) /\ Len(calls[r]) \in Nat
      /\ DOMAIN Append(calls[r], call) = 1 .. Len(calls[r]) + 1
      /\ \A i \in 1 .. Len(calls[r]) : Append(calls[r], call)[i] = calls[r][i]
      /\ Append(calls[r], call)[Len(calls[r]) + 1] = call
  BY <1>1, AppendFacts
<1> QED BY <1>1, <1>2 DEF MoreCalls

LEMMA MainReduceRight ==
    ASSUME AInv, NEW r \in Ranks, MainReduce(r)
    PROVE  RankRight(r)' /\ MoreCalls(r)
<1> DEFINE call == [by |-> 0, step |-> Step(r), parts |-> PartsOf(r, Reducible(r))]
           n == Len(calls[r]) + 1
<1>1. /\ mainTag' = [mainTag EXCEPT ![r] = n] /\ queue[r] # <<>>
      /\ calls' = [calls EXCEPT ![r] = Append(@, call)]
      /\ UNCHANGED <<setup, pc, ok, uses, grad, queue>>
  BY DEF MainReduce, Post, mainVars
<1> HIDE DEF call
<1>2. /\ Len(calls[r]) \in Nat /\ DOMAIN calls'[r] = DOMAIN calls[r] \union {n}
      /\ n \notin DOMAIN calls[r] /\ calls'[r][n] = call
      /\ \A k \in DOMAIN calls[r] : calls'[r][k] = calls[r][k]
      /\ MoreCalls(r)
  BY <1>1, RightFacts, AppendedCall
<1>3. mainTag'[r] = n
  BY <1>1, RightFacts DEF Typed
<1> HIDE DEF n
<1>4. GradRight(r)'
  <2>1. \A p \in Params : /\ InQueue(queue[r], p)' <=> InQueue(queue[r], p)
                          /\ Fresh(r, p)' = Fresh(r, p)
    BY <1>1 DEF InQueue, Fresh, Step
  <2> QED BY <1>1, <2>1, RightFacts DEF GradRight, Step
<1>5. TagRight(r)'
  <2>1. Reducible(r)' = Reducible(r)
    BY <1>1 DEF Reducible, HasGrad, Among
  <2>2. PartsOf(r, Reducible(r))' = PartsOf(r, Reducible(r)) /\ Step(r)' = Step(r)
    BY <1>1, <2>1 DEF PartsOf, Step
  <2> QED BY <1>2, <1>3, <2>2 DEF TagRight, call
<1>6. CallRight(r)'
  <2>1. ASSUME NEW i \in DOMAIN call.parts
        PROVE  call.parts[i].grad = {<<r, call.parts[i].name, call.step>>}
    <3> DEFINE names == Reducible(r)
    <3>1. /\ names \in Names
          /\ \A j \in DOMAIN names :
                /\ HasGrad(r, names[j])
                /\ \E m \in DOMAIN Head(queue[r]).names : Head(queue[r]).names[m] = names[j]
      BY <1>1, ReducibleFacts DEF AInv
    <3> HIDE DEF names
    <3>2. /\ DOMAIN PartsOf(r, names) = DOMAIN names
          /\ \A j \in DOMAIN names : /\ PartsOf(r, names)[j].name = names[j]
                                     /\ PartsOf(r, names)[j].grad = grad[r][names[j]]
      BY <3>1, RightFacts, PartsTyped
    <3>3. call.parts = PartsOf(r, names) /\ call.step = Step(r) /\ i \in DOMAIN names
      BY <3>2 DEF call, names
    <3>4. names[i] \in Params /\ HasGrad(r, names[i]) /\ InQueue(queue[r], names[i])
      <4>1. names[i] \in Params /\ HasGrad(r, names[i])
        BY <3>1, <3>3 DEF Names
      <4>2. \E m \in DOMAIN Head(queue[r]).names : Head(queue[r]).names[m] = names[i]
        BY <3>1, <3>3
      <4>3. InQueue(queue[r], names[i])
        BY <1>1, <4>2, RightFacts, InTail
      <4> QED BY <4>1, <4>3
    <3>5. grad[r][names[i]] = Fresh(r, names[i])
      BY <3>4, RightFacts DEF GradRight
    <3>6. grad[r][names[i]] = {<<r, names[i], Step(r)>>}
      BY <3>4, <3>5 DEF HasGrad, Fresh
    <3> QED BY <3>2, <3>3, <3>6
  <2> SUFFICES ASSUME NEW k \in DOMAIN calls'[r], calls'[r][k].by = 0,
                      NEW i \in DOMAIN calls'[r][k].parts
               PROVE  calls'[r][k].parts[i].grad =
                          {<<r, calls'[r][k].parts[i].name, calls'[r][k].step>>}
    BY DEF CallRight
  <2>2. CASE k = n
    BY <1>2, <2>1, <2>2
  <2>3. CASE k # n
    BY <1>2, <2>3, RightFacts DEF CallRight
  <2> QED BY <2>2, <2>3
<1>7. AvgRight(r)'
  <2>1. Paired' => Paired
    <3>1. \A q \in Ranks \ {r} : MoreCalls(q)
      BY <1>1, RightFacts DEF MoreCalls, Typed
    <3> QED BY <1>2, <3>1, PairedBefore
  <2> QED BY <1>1, <2>1, RightFacts DEF AvgRight, InQueue, HasGrad, Average, Step
<1>20. OkRight(r)'
  BY <1>1, RightFacts DEF OkRight
<1> QED BY <1>2, <1>4, <1>5, <1>6, <1>7, <1>20 DEF RankRight

LEMMA ReductionStartRight ==
    ASSUME AInv, NEW r \in Ranks, NEW m \in DOMAIN reductions[r], ReductionStart(r, m)
    PROVE  RankRight(r)' /\ MoreCalls(r)
<1> DEFINE call == [by |-> m, step |-> 0, parts |-> reductions[r][m].parts]
           n == Len(calls[r]) + 1
<1>1. /\ calls' = [calls EXCEPT ![r] = Append(@, call)]
      /\ UNCHANGED <<setup, pc, ok, uses, grad, queue, mainTag>>
  BY DEF ReductionStart, Post, mainVars
<1>2. call.by # 0
  <2>1. reductions[r] \in Seq(Reduction)
    BY RightFacts DEF Typed, Reductions
  <2> QED BY <2>1
<1> HIDE DEF call
<1>3. /\ Len(calls[r]) \in Nat /\ DOMAIN calls'[r] = DOMAIN calls[r] \union {n}
      /\ n \notin DOMAIN calls[r] /\ calls'[r][n] = call
      /\ \A k \in DOMAIN calls[r] : calls'[r][k] = calls[r][k]
      /\ MoreCalls(r)
  BY <1>1, RightFacts, AppendedCall
<1> HIDE DEF n
<1>4. GradRight(r)'
  <2>1. \A p \in Params : /\ InQueue(queue[r], p)' <=> InQueue(queue[r], p)
                          /\ Fresh(r, p)' = Fresh(r, p)
    BY <1>1 DEF InQueue, Fresh, Step
  <2> QED BY <1>1, <2>1, RightFacts DEF GradRight, Step
<1>5. TagRight(r)'
  <2>1. Reducible(r)' = Reducible(r)
    BY <1>1 DEF Reducible, HasGrad, Among
  <2>2. PartsOf(r, Reducible(r))' = PartsOf(r, Reducible(r)) /\ Step(r)' = Step(r)
    BY <1>1, <2>1 DEF PartsOf, Step
  <2> QED BY <1>1, <1>3, <2>2, RightFacts DEF TagRight
<1>6. CallRight(r)'
  <2> SUFFICES ASSUME NEW k \in DOMAIN calls'[r], calls'[r][k].by = 0,
                      NEW i \in DOMAIN calls'[r][k].parts
               PROVE  calls'[r][k].parts[i].grad =
                          {<<r, calls'[r][k].parts[i].name, calls'[r][k].step>>}
    BY DEF CallRight
  <2>1. k # n
    BY <1>2, <1>3
  <2> QED BY <1>3, <2>1, RightFacts DEF CallRight
<1>7. AvgRight(r)'
  <2>1. Paired' => Paired
    <3>1. \A q \in Ranks \ {r} : MoreCalls(q)
      BY <1>1, RightFacts DEF MoreCalls, Typed
    <3> QED BY <1>3, <3>1, PairedBefore
  <2> QED BY <1>1, <2>1, RightFacts DEF AvgRight, InQueue, HasGrad, Average, Step
<1>20. OkRight(r)'
  BY <1>1, RightFacts DEF OkRight
<1> QED BY <1>3, <1>4, <1>5, <1>6, <1>7, <1>20 DEF RankRight

LEMMA EndSyncRight ==
    ASSUME AInv, NEW r \in Ranks, EndSync(r)
    PROVE  RankRight(r)'
<1>1. /\ pc[r] = "sync" /\ pc'[r] = "idle" /\ queue[r] = <<>> /\ mainTag[r] = NoTag
      /\ UNCHANGED <<setup, ok, uses, grad, queue, mainTag, calls>>
  BY RightFacts DEF EndSync, Typed
<1>2. GradRight(r)'
  BY <1>1 DEF GradRight, InQueue
<1>3. CallRight(r)' /\ TagRight(r)'
  BY <1>1, RightFacts DEF CallRight, TagRight
<1>4. AvgRight(r)'
  <2>1. Paired' => Paired
    BY <1>1 DEF Paired
  <2> QED BY <1>1, <2>1, RightFacts DEF AvgRight, InQueue, HasGrad, Average, Step
<1>20. OkRight(r)'
  BY <1>1, RightFacts DEF OkRight
<1> QED BY <1>2, <1>3, <1>4, <1>20 DEF RankRight

\* Names that are queued after a failure were queued before it, and those that
\* are queued no more have no gradient.
LEMMA FallbackQueue ==
    ASSUME AInv, NEW r \in Ranks, queue[r] # <<>>, NEW p \in Params
    PROVE  /\ InQueue(OneByOne(Reducible(r)) \o Tail(queue[r]), p) => InQueue(queue[r], p)
           /\ InQueue(queue[r], p) /\ HasGrad(r, p) =>
                 InQueue(OneByOne(Reducible(r)) \o Tail(queue[r]), p)
<1> DEFINE names == Reducible(r)
           head == Head(queue[r]).names
<1>1. /\ names \in Names
      /\ \A j \in DOMAIN names : \E m \in DOMAIN head : head[m] = names[j]
      /\ \A j \in DOMAIN head : HasGrad(r, head[j]) =>
            \E i \in DOMAIN names : names[i] = head[j]
  BY ReducibleFacts DEF AInv
<1> HIDE DEF names
<1>2. InQueue(OneByOne(names), p) <=> \E i \in DOMAIN names : names[i] = p
  BY <1>1, InOneByOne
<1>3. OneByOne(names) \in Entries /\ Tail(queue[r]) \in Entries
  BY <1>1, OneByOneTyped, Tails, RightFacts
<1>4. InQueue(OneByOne(names) \o Tail(queue[r]), p) <=>
          InQueue(OneByOne(names), p) \/ InQueue(Tail(queue[r]), p)
  BY <1>3, InConcat
<1>5. /\ InQueue(Tail(queue[r]), p) => InQueue(queue[r], p)
      /\ InQueue(queue[r], p) => InQueue(Tail(queue[r]), p) \/ \E i \in DOMAIN head : head[i] = p
      /\ (\E i \in DOMAIN head : head[i] = p) => InQueue(queue[r], p)
  BY InTail, RightFacts
<1> HIDE DEF head
<1> QED BY <1>1, <1>2, <1>4, <1>5 DEF names

LEMMA MainFailsRight ==
    ASSUME AInv, NEW r \in Ranks, MainFails(r)
    PROVE  RankRight(r)'
<1>1. /\ mainTag'[r] = NoTag /\ queue[r] # <<>>
      /\ queue'[r] = IF Head(queue[r]).fallback
                     THEN OneByOne(Reducible(r)) \o Tail(queue[r]) ELSE <<>>
      /\ ok'[r] = Head(queue[r]).fallback
      /\ UNCHANGED <<setup, pc, calls, uses, grad>>
  BY RightFacts DEF MainFails, Typed
<1>2. \A p \in Params : InQueue(queue'[r], p) => InQueue(queue[r], p)
  BY <1>1, FallbackQueue DEF InQueue
<1>3. GradRight(r)'
  <2>1. \A p \in Params : InQueue(queue[r], p)' => InQueue(queue[r], p)
    BY <1>2 DEF InQueue
  <2> QED BY <1>1, <2>1, RightFacts DEF GradRight, Step, Fresh
<1>4. CallRight(r)' /\ TagRight(r)'
  BY <1>1, RightFacts DEF CallRight, TagRight
<1>5. AvgRight(r)'
  <2> SUFFICES ASSUME Head(queue[r]).fallback, AInv PROVE AvgRight(r)'
    BY <1>1 DEF AvgRight
  <2>1. \A p \in Params : InQueue(queue[r], p) /\ HasGrad(r, p) => InQueue(queue'[r], p)
    BY <1>1, FallbackQueue
  <2>2. \A p \in Params : InQueue(queue[r], p) /\ HasGrad(r, p) => InQueue(queue[r], p)'
    BY <2>1 DEF InQueue
  <2>3. Paired' => Paired
    BY <1>1 DEF Paired
  <2>4. \A p \in Params : HasGrad(r, p)' <=> HasGrad(r, p)
    BY <1>1 DEF HasGrad
  <2>5. pc[r] = "sync"
    BY RightFacts DEF MainFails
  <2>6. ok[r]
    BY <1>1, RightFacts DEF OkRight
  <2>7. \A p \in Params : Average(r, p)' = Average(r, p) /\ grad'[r] = grad[r]
    BY <1>1 DEF Average, Step
  <2> SUFFICES ASSUME Paired', setup.sync, NEW p \in Params,
                      ~InQueue(queue[r], p)', HasGrad(r, p)'
               PROVE  grad'[r][p] = Average(r, p)'
    BY <1>1 DEF AvgRight
  <2>8. ~InQueue(queue[r], p) /\ HasGrad(r, p)
    BY <2>2, <2>4
  <2> QED BY <2>3, <2>5, <2>6, <2>7, <2>8, RightFacts DEF AvgRight
<1>20. OkRight(r)'
  BY <1>1, RightFacts DEF OkRight
<1> QED BY <1>3, <1>4, <1>5, <1>20 DEF RankRight

LEMMA MainReducedRight ==
    ASSUME AInv, NEW r \in Ranks, MainReduced(r)
    PROVE  RankRight(r)'
<1> DEFINE k == mainTag[r]
           names == Reducible(r)
           parts == calls[r][k].parts
           head == Head(queue[r]).names
           In(p) == \E i \in DOMAIN names : names[i] = p
<1>1. /\ k # NoTag /\ Succeeds(k) /\ mainTag'[r] = NoTag /\ queue[r] # <<>>
      /\ queue'[r] = Tail(queue[r]) /\ pc[r] = "sync"
      /\ UNCHANGED <<setup, pc, ok, calls, uses>>
      /\ grad'[r] = [p \in Params |->
                        IF \E i \in DOMAIN parts : parts[i].name = p
                        THEN Averaged(r, k, CHOOSE i \in DOMAIN parts : parts[i].name = p)
                        ELSE grad[r][p]]
  BY RightFacts DEF MainReduced, Typed
<1>2. /\ k \in DOMAIN calls[r]
      /\ calls[r][k] = [by |-> 0, step |-> Step(r), parts |-> PartsOf(r, names)]
  BY <1>1, RightFacts DEF TagRight
<1>3. /\ names \in Names
      /\ \A i \in DOMAIN names : \E j \in DOMAIN head : head[j] = names[i]
      /\ \A j \in DOMAIN head : HasGrad(r, head[j]) => In(head[j])
  BY <1>1, ReducibleFacts DEF AInv
<1>4. /\ DOMAIN parts = DOMAIN names /\ calls[r][k].by = 0 /\ calls[r][k].step = Step(r)
      /\ \A i \in DOMAIN names : parts[i].name = names[i]
  <2>1. parts = PartsOf(r, names)
    BY <1>2
  <2> HIDE DEF names
  <2>2. /\ DOMAIN PartsOf(r, names) = DOMAIN names
        /\ \A i \in DOMAIN names : PartsOf(r, names)[i].name = names[i]
    BY <1>3, RightFacts, PartsTyped
  <2> QED BY <1>2, <2>1, <2>2
<1> HIDE DEF names, head, parts, k
<1>5. \A p \in Params : ~In(p) => grad'[r][p] = grad[r][p]
  BY <1>1, <1>4
<1>6. \A p : /\ InQueue(queue'[r], p) => InQueue(queue[r], p) /\ ~In(p)
             /\ InQueue(queue[r], p) =>
                   InQueue(queue'[r], p) \/ \E j \in DOMAIN head : head[j] = p
  <2> SUFFICES ASSUME NEW p
               PROVE  /\ InQueue(queue'[r], p) => InQueue(queue[r], p) /\ ~In(p)
                      /\ InQueue(queue[r], p) =>
                            InQueue(queue'[r], p) \/ \E j \in DOMAIN head : head[j] = p
    OBVIOUS
  <2>1. /\ InQueue(queue'[r], p) => /\ InQueue(queue[r], p)
                                    /\ ~\E i \in DOMAIN head : head[i] = p
        /\ InQueue(queue[r], p) => \/ InQueue(queue'[r], p)
                                   \/ \E i \in DOMAIN head : head[i] = p
    <3>1. queue[r] \in Entries /\ queue[r] # <<>> /\ Once(queue[r])
      BY <1>1, RightFacts
    <3>2. /\ InQueue(Tail(queue[r]), p) =>
                /\ InQueue(queue[r], p)
                /\ ~\E i \in DOMAIN Head(queue[r]).names : Head(queue[r]).names[i] = p
          /\ InQueue(queue[r], p) =>
                \/ InQueue(Tail(queue[r]), p)
                \/ \E i \in DOMAIN Head(queue[r]).names : Head(queue[r]).names[i] = p
      BY <3>1, InTail
    <3> QED BY <1>1, <3>2 DEF head
  <2>2. In(p) => \E i \in DOMAIN head : head[i] = p
    BY <1>3
  <2> QED BY <2>1, <2>2
<1>7. GradRight(r)'
  <2>1. \A p \in Params : InQueue(queue[r], p)' => InQueue(queue[r], p) /\ ~In(p)
    BY <1>6 DEF InQueue
  <2>2. Step(r)' = Step(r) /\ \A p \in Params : Fresh(r, p)' = Fresh(r, p)
    BY <1>1 DEF Step, Fresh
  <2>3. /\ Step(r) > 0
        /\ \A p \in Params : InQueue(queue[r], p) => grad[r][p] = Fresh(r, p)
    BY <1>1, RightFacts DEF GradRight
  <2> QED BY <1>1, <1>5, <2>1, <2>2, <2>3 DEF GradRight
<1>8. CallRight(r)' /\ TagRight(r)'
  BY <1>1, RightFacts DEF CallRight, TagRight
<1>9. OkRight(r)'
  BY <1>1, RightFacts DEF OkRight
<1>10. AvgRight(r)'
  <2> SUFFICES ASSUME Paired', setup.sync, NEW p \in Params,
                      ~InQueue(queue[r], p)', HasGrad(r, p)'
               PROVE  grad'[r][p] = Average(r, p)'
    BY <1>1 DEF AvgRight
  <2>1. Average(r, p)' = Average(r, p)
    BY <1>1 DEF Average, Step
  <2>2. Paired
    BY <1>1 DEF Paired
  <2>3. CASE In(p)
    <3>1. \E i \in DOMAIN parts : parts[i].name = p
      BY <1>4, <2>3
    <3> DEFINE i == CHOOSE i \in DOMAIN parts : parts[i].name = p
    <3>2. i \in DOMAIN parts /\ parts[i].name = p
      BY <3>1
    <3>3. grad'[r][p] = Averaged(r, k, i)
      BY <1>1, <3>1
    <3> HIDE DEF i
    <3>4. \A q \in Ranks : CallRight(q)
      BY DEF AInv, RankRight
    <3>5. Averaged(r, k, i) = {<<q, parts[i].name, calls[r][k].step>> : q \in Ranks}
      BY <1>1, <1>2, <1>4, <2>2, <3>2, <3>4, RightFacts, AveragedAll DEF parts
    <3> QED BY <1>4, <2>1, <3>2, <3>3, <3>5 DEF Average
  <2>4. CASE ~In(p)
    <3>1. grad'[r][p] = grad[r][p] /\ HasGrad(r, p)
      BY <1>5, <2>4 DEF HasGrad
    <3>2. ~InQueue(queue'[r], p)
      BY DEF InQueue
    <3>3. ~InQueue(queue[r], p)
      BY <1>3, <1>6, <2>4, <3>1, <3>2
    <3>4. ok[r]
      BY <1>1, RightFacts DEF OkRight
    <3> QED BY <1>1, <2>1, <2>2, <3>1, <3>3, <3>4, RightFacts DEF AvgRight
  <2> QED BY <2>3, <2>4
<1> QED BY <1>7, <1>8, <1>9, <1>10 DEF RankRight

\* The worker and the backward pass, while the main task's state stays.
LEMMA SameKeeps ==
    ASSUME AInv, NEW r \in Ranks, Register(r) \/ WorkerStep(r) \/ \E n : ReductionEnd(r, n)
    PROVE  RankRight(r)' /\ MoreCalls(r)
<1>1. UNCHANGED <<setup, uses, pc, queue, mainTag, ok, grad, calls>>
  BY DEF Register, WorkerStep, WorkerReceive, WorkerDrop, ReductionEnd, mainVars
<1>2. Same(r) /\ MoreCalls(r)
  BY <1>1 DEF Same, MoreCalls
<1>3. Paired' => Paired
  BY <1>1 DEF Paired
<1> QED BY <1>2, <1>3, SameRight, RightFacts

LEMMA StepRight ==
    ASSUME AInv, TInv', OwnCalls', NEW r \in Ranks,
           Backward(r) \/ InBackward(r) \/ InSync(r) \/ WorkerStep(r) \/ ReductionStep(r)
    PROVE  AInv'
<1>1. \A q \in Ranks \ {r} : Same(q)
  <2> SUFFICES ASSUME NEW q \in Ranks \ {r} PROVE Same(q)
    OBVIOUS
  <2>1. Typed
    BY DEF AInv, TInv
  <2> QED BY <2>1 DEF Typed, Same, Backward, InBackward, Register, EndBackward, BeginSync, InSync,
         MainSkips, MainReduce, MainReduced, MainFails, EndSync, WorkerStep, WorkerReceive,
         WorkerDrop, ReductionStep, ReductionStart, ReductionEnd, Post, mainVars
<1>2. RankRight(r)'
  BY BackwardRight, SameKeeps, EndBackwardRight, BeginSyncRight, MainSkipsRight, MainReduceRight,
     MainReducedRight, MainFailsRight, EndSyncRight, ReductionStartRight
     DEF InBackward, InSync, ReductionStep
<1>3. MoreCalls(r)
  <2>1. ASSUME UNCHANGED calls PROVE MoreCalls(r)
    BY <2>1 DEF MoreCalls
  <2>2. ASSUME Backward(r) \/ EndBackward(r) \/ BeginSync(r) \/ MainSkips(r) \/ MainReduced(r)
               \/ MainFails(r) \/ EndSync(r)
        PROVE  MoreCalls(r)
    BY <2>1, <2>2 DEF Backward, EndBackward, BeginSync, MainSkips, MainReduced, MainFails, EndSync
  <2> QED BY <2>2, SameKeeps, MainReduceRight, ReductionStartRight
          DEF InBackward, InSync, ReductionStep
<1> QED BY <1>1, <1>2, <1>3, OneRankRight

LEMMA NextRight == AInv /\ CInv /\ [Next]_vars => AInv'
<1> SUFFICES ASSUME AInv, CInv, [Next]_vars PROVE AInv'
  OBVIOUS
<1>1. OwnCalls'
  BY NextCalls DEF CInv
<1>2. CASE Next
  <2>1. PICK r \in Ranks : Backward(r) \/ InBackward(r) \/ InSync(r) \/ WorkerStep(r)
                           \/ ReductionStep(r)
    BY <1>2 DEF Next
  <2>2. TInv'
    BY <2>1, StepTyped DEF AInv
  <2> QED BY <1>1, <2>1, <2>2, StepRight
<1>3. CASE UNCHANGED vars
  <2>1. TInv'
    BY <1>3, SameTyped DEF AInv
  <2>2. \A r \in Ranks : Same(r)
    BY <1>3 DEF vars, Same
  <2>3. Paired' => Paired
    BY <1>3 DEF vars, Paired
  <2>4. \A r \in Ranks : RankRight(r)'
    BY <2>2, <2>3, SameRight DEF AInv
  <2> QED BY <1>1, <2>1, <2>4 DEF AInv
<1> QED BY <1>2, <1>3

LEMMA InitRight == Init => AInv
<1> SUFFICES ASSUME Init PROVE AInv
  OBVIOUS
<1>1. TInv /\ OwnCalls
  BY InitTyped, InitCalls DEF CInv
<1>2. \A r \in Ranks : /\ pc[r] = "idle" /\ queue[r] = <<>> /\ mainTag[r] = NoTag /\ ok[r] = FALSE
                       /\ calls[r] = <<>>
  BY DEF Init
<1>3. \A r \in Ranks : RankRight(r)
  BY <1>2 DEF RankRight, GradRight, CallRight, TagRight, AvgRight, OkRight, InQueue
<1> QED BY <1>1, <1>3 DEF AInv

LEMMA RightIsRight == AInv => AveragesRight
<1> SUFFICES ASSUME AInv, Paired, NEW r \in Ranks, pc[r] = "idle" /\ ok[r] /\ setup.sync,
                    NEW p \in Params, HasGrad(r, p)
             PROVE  grad[r][p] = {<<q, p, Step(r)>> : q \in Ranks}
  BY DEF AveragesRight
<1>1. queue[r] = <<>>
  BY RightFacts
<1>2. ~InQueue(queue[r], p)
  BY <1>1 DEF InQueue
<1> QED BY <1>2, RightFacts DEF AvgRight, Average

\* As long as the calls that meet are about the same, sync_gradients that
\* returns without an error leaves every gradient the average of that gradient
\* over all ranks, whatever failed and was reduced again in between.
THEOREM SyncAverages == Spec => []AveragesRight
BY InitRight, NextRight, InitCalls, NextCalls, RightIsRight, PTL DEF Spec
=============================================================================
