-------------------------- MODULE TcpEngineProofs --------------------------
(***************************************************************************)
(* Proofs about TcpEngine, for any ranks, groups, programs and faults: the *)
(* collectives agree because a tag is never handed out twice by a rank.    *)
(* And for programs that keep to the SPMD contract: the collectives that   *)
(* meet under one tag are those whose turn it is on every rank, so none    *)
(* mixes its buffer with another's.                                        *)
(***************************************************************************)
EXTENDS TcpEngine, FiniteSetTheorems, TLAPS

-----------------------------------------------------------------------------
(* The slots of a collective.                                               *)

\* A rank posts under its own number and has at hand only what it posts,
\* except in a scatter.
LEMMA SlotsOfACollective ==
    ASSUME NEW c \in Collective, NEW r \in Ranks
    PROVE  /\ PostSlots(c, r) \subseteq Slot
           /\ NeedSlots(c, r) \subseteq Slot
           /\ c.kind # "scatter" => \A s \in PostSlots(c, r) : s[1] = r
           /\ c.kind # "scatter" => LocalSlots(c, r) \subseteq PostSlots(c, r)
           /\ c.kind \in Exchanges => NeedSlots(c, r) = {<<p, p>> : p \in Members[c.ns]}
<1> USE EngineAssumption DEF Collective, Slot, LocalSlots
<1>1. c.ns \in Groups /\ Members[c.ns] \subseteq Ranks
  OBVIOUS
<1>2. CASE c.kind \in Exchanges
  BY <1>1, <1>2 DEF PostSlots, NeedSlots, Exchanges
<1>3. CASE c.kind = "broadcast"
  BY <1>1, <1>3 DEF PostSlots, NeedSlots, Exchanges
<1>4. CASE c.kind = "scatter"
  BY <1>1, <1>4 DEF PostSlots, NeedSlots, Exchanges
<1>5. CASE c.kind = "all_to_all"
  BY <1>1, <1>5 DEF PostSlots, NeedSlots, Exchanges
<1> QED BY <1>2, <1>3, <1>4, <1>5 DEF Kinds

-----------------------------------------------------------------------------
(* Types.                                                                   *)

\* A task inside a collective has one, of its program.
LEMMA CollectiveInHand ==
    ASSUME NEW t \in Tasks, HasNext(t)
    PROVE  Coll(t) \in Collective /\ RankOf[t] \in Ranks /\ Coll(t).ns \in Groups
<1>1. Coll(t) \in Collective
  BY EngineAssumption DEF HasNext, Coll
<1> QED BY <1>1, EngineAssumption DEF Collective

LEMMA EntriesAreTyped ==
    ASSUME TypeOK, NEW t \in Tasks, phase[t] = "run", NEW s \in ToPost(t)
    PROVE  EntryOf(t, s) \in Entry /\ s \in Slot
<1>1. HasNext(t) /\ mine[t] \in Nat /\ at[t] \in Nat
  BY DEF TypeOK
<1>2. Coll(t) \in Collective /\ RankOf[t] \in Ranks
  BY <1>1, CollectiveInHand
<1>3. s \in Slot
  BY <1>2, SlotsOfACollective DEF ToPost
<1> QED
  BY <1>1, <1>2, <1>3 DEF EntryOf, KeyOf, PayloadOf, TagOf, Entry, Key, Payload, Tag, Collective

LEMMA TypeInit == Init => TypeOK
<1> SUFFICES ASSUME Init PROVE TypeOK
  OBVIOUS
<1>1. seqs \in [Ranks -> [Groups -> Nat]]
  BY DEF Init
<1>2. at \in [Tasks -> Nat] /\ phase \in [Tasks -> {"ready", "connect", "run", "halted"}]
  BY DEF Init
<1>3. mine \in [Tasks -> Nat \union {NoSeq}]
  BY DEF Init
<1>4. posted \in [Tasks -> SUBSET Slot] /\ got \in [Tasks -> SUBSET Contribution]
  BY DEF Init
<1> QED BY <1>1, <1>2, <1>3, <1>4 DEF Init, TypeOK

\* An error leaves the task out of the collective.
LEMMA ErrorIsTyped ==
    ASSUME TypeOK, NEW t \in Tasks, Error(t)
    PROVE  /\ at' \in [Tasks -> Nat]
           /\ phase' \in [Tasks -> {"ready", "connect", "run", "halted"}]
           /\ phase'[t] \in {"ready", "halted"}
           /\ \A u \in Tasks \ {t} : phase'[u] = phase[u] /\ at'[u] = at[u]
           /\ posted' \in [Tasks -> SUBSET Slot]
           /\ got' \in [Tasks -> SUBSET Contribution]
           /\ posted'[t] = {} /\ got'[t] = {}
           /\ \A u \in Tasks \ {t} : posted'[u] = posted[u] /\ got'[u] = got[u]
           /\ results' = results
<1> DEFINE Phases == {"ready", "connect", "run", "halted"}
<1>1. /\ at \in [Tasks -> Nat] /\ phase \in [Tasks -> Phases]
      /\ posted \in [Tasks -> SUBSET Slot] /\ got \in [Tasks -> SUBSET Contribution]
  BY DEF TypeOK
<1>2. /\ posted' = [posted EXCEPT ![t] = {}]
      /\ got' = [got EXCEPT ![t] = {}]
      /\ results' = results
  BY DEF Error
<1>3. /\ \E p \in {"ready", "halted"} : phase' = [phase EXCEPT ![t] = p]
      /\ at' = at \/ at' = [at EXCEPT ![t] = @ + 1]
  BY DEF Error
<1>4. at' \in [Tasks -> Nat] /\ \A u \in Tasks \ {t} : at'[u] = at[u]
  BY <1>1, <1>3
<1>5. /\ phase' \in [Tasks -> Phases] /\ phase'[t] \in {"ready", "halted"}
      /\ \A u \in Tasks \ {t} : phase'[u] = phase[u]
  BY <1>1, <1>3
<1>6. /\ posted' \in [Tasks -> SUBSET Slot] /\ got' \in [Tasks -> SUBSET Contribution]
      /\ posted'[t] = {} /\ got'[t] = {}
      /\ \A u \in Tasks \ {t} : posted'[u] = posted[u] /\ got'[u] = got[u]
  BY <1>1, <1>2
<1> QED BY <1>2, <1>4, <1>5, <1>6

\* Only the task that steps changes its place and its phase.
LEMMA TypeStep == TypeOK /\ [Next]_vars => TypeOK'
<1> SUFFICES ASSUME TypeOK, [Next]_vars PROVE TypeOK'
  OBVIOUS
<1> USE DEF NoSeq
<1>1. ASSUME NEW t \in Tasks, PassOver(t) PROVE TypeOK'
  BY <1>1 DEF PassOver, Issues, TypeOK, HasNext, Coll
<1>2. ASSUME NEW t \in Tasks, NextTag(t), HasNext(t)
      PROVE  /\ seqs' \in [Ranks -> [Groups -> Nat]]
             /\ mine' \in [Tasks -> Nat \union {NoSeq}]
             /\ mine'[t] = seqs[RankOf[t]][Coll(t).ns] /\ mine'[t] \in Nat
             /\ \A u \in Tasks \ {t} : mine'[u] = mine[u]
  <2>1. RankOf[t] \in Ranks /\ Coll(t).ns \in Groups
    BY <1>2, CollectiveInHand
  <2> QED BY <1>2, <2>1 DEF NextTag, TypeOK
<1>3. ASSUME NEW t \in Tasks, Begin(t) PROVE TypeOK'
  <2>1. HasNext(t)
    BY <1>3 DEF Begin, Issues
  <2>2. /\ seqs' \in [Ranks -> [Groups -> Nat]]
        /\ mine' \in [Tasks -> Nat \union {NoSeq}]
        /\ Coll(t).kind \in Exchanges => mine'[t] \in Nat
        /\ \A u \in Tasks \ {t} : mine'[u] = mine[u]
    BY <1>2, <1>3, <2>1 DEF Begin, KeepTag, TypeOK, TagFirst
  <2> QED BY <1>3, <2>1, <2>2 DEF Begin, TypeOK, HasNext, Coll
<1>4. ASSUME NEW t \in Tasks, Reject(t) PROVE TypeOK'
  BY <1>4, ErrorIsTyped DEF Reject, TypeOK, HasNext, Coll
<1>5. ASSUME NEW t \in Tasks, Connect(t) PROVE TypeOK'
  <2>1. HasNext(t) /\ RankOf[t] \in Ranks
    BY <1>5, CollectiveInHand DEF Connect, TypeOK
  <2>2. /\ seqs' \in [Ranks -> [Groups -> Nat]]
        /\ mine' \in [Tasks -> Nat \union {NoSeq}]
        /\ mine'[t] \in Nat
        /\ \A u \in Tasks \ {t} : mine'[u] = mine[u]
    BY <1>2, <1>5, <2>1 DEF Connect, KeepTag, TypeOK, TagFirst
  <2>3. connected' \subseteq Ranks /\ up' \in BOOLEAN
    BY <1>5, <2>1 DEF Connect, TypeOK
  <2> QED BY <1>5, <2>1, <2>2, <2>3 DEF Connect, TypeOK, HasNext, Coll
<1>6. ASSUME NEW t \in Tasks, ConnectTimeout(t) PROVE TypeOK'
  BY <1>6, ErrorIsTyped DEF ConnectTimeout, TypeOK, HasNext, Coll
<1>7. ASSUME NEW t \in Tasks, Post(t) PROVE TypeOK'
  <2>1. PICK s \in ToPost(t) : /\ store' = Put(store, EntryOf(t, s))
                               /\ posted' = [posted EXCEPT ![t] = @ \union {s}]
    BY <1>7 DEF Post, First
  <2>2. EntryOf(t, s) \in Entry /\ s \in Slot
    BY <1>7, <2>1, EntriesAreTyped DEF Post
  <2>3. store' \subseteq Entry /\ posted' \in [Tasks -> SUBSET Slot]
    BY <2>1, <2>2 DEF Put, TypeOK
  <2> QED BY <1>7, <2>3 DEF Post, TypeOK, HasNext, Coll
<1>8. ASSUME NEW t \in Tasks, PostError(t) PROVE TypeOK'
  <2>1. PICK s \in ToPost(t) : \/ store' = Put(store, EntryOf(t, s)) /\ UNCHANGED late
                               \/ late' = late \union {EntryOf(t, s)} /\ UNCHANGED store
                               \/ UNCHANGED <<store, late>>
    BY <1>8 DEF PostError, First
  <2>2. EntryOf(t, s) \in Entry
    BY <1>8, <2>1, EntriesAreTyped DEF PostError
  <2>3. store' \subseteq Entry /\ late' \subseteq Entry
    BY <2>1, <2>2 DEF Put, TypeOK
  <2> QED BY <1>8, <2>3, ErrorIsTyped DEF PostError, TypeOK, HasNext, Coll
<1>9. ASSUME NEW e \in late, LateSet(e) PROVE TypeOK'
  BY <1>9 DEF LateSet, Put, TypeOK, HasNext, Coll
<1>10. ASSUME NEW t \in Tasks, Poll(t) PROVE TypeOK'
  <2>1. Coll(t) \in Collective /\ RankOf[t] \in Ranks
    BY <1>10, CollectiveInHand DEF Poll, Polls, TypeOK
  <2>2. PICK s \in ToPoll(t), e \in store :
           got' = [got EXCEPT ![t] = @ \union {[slot |-> s, val |-> e.val]}]
    BY <1>10 DEF Poll, First
  <2>3. s \in Slot
    BY <2>1, <2>2, SlotsOfACollective DEF ToPoll
  <2>4. e.val \in Payload
    BY DEF TypeOK, Entry
  <2>5. [slot |-> s, val |-> e.val] \in Contribution
    BY <2>3, <2>4 DEF Contribution
  <2>6. got' \in [Tasks -> SUBSET Contribution]
    BY <2>2, <2>5 DEF TypeOK
  <2> QED BY <1>10, <2>6 DEF Poll, TypeOK, HasNext, Coll
<1>11. ASSUME NEW t \in Tasks, PollTimeout(t) PROVE TypeOK'
  BY <1>11, ErrorIsTyped DEF PollTimeout, TypeOK, HasNext, Coll
<1>12. ASSUME NEW t \in Tasks, Finish(t) PROVE TypeOK'
  <2>1. posted' \in [Tasks -> SUBSET Slot] /\ got' \in [Tasks -> SUBSET Contribution]
    BY <1>12 DEF Finish, TypeOK
  <2>2. results' \subseteq [task : Tasks, at : Nat, tag : Tag, value : SUBSET Contribution]
    <3>1. HasNext(t) /\ mine[t] \in Nat /\ at[t] \in Nat /\ got[t] \subseteq Contribution
      BY <1>12 DEF Finish, TypeOK
    <3>2. Coll(t) \in Collective /\ RankOf[t] \in Ranks
      BY <3>1, CollectiveInHand
    <3>3. TagOf(t) \in Tag
      BY <3>1, <3>2 DEF TagOf, Tag, Collective
    <3>4. LocalSlots(Coll(t), RankOf[t]) \subseteq Slot
      BY <3>2, SlotsOfACollective DEF LocalSlots
    <3>5. Returned(t) \subseteq Contribution
      BY <3>1, <3>4 DEF Returned, PayloadOf, Payload, Contribution
    <3>6. Result(t) \in [task : Tasks, at : Nat, tag : Tag, value : SUBSET Contribution]
      BY <3>1, <3>3, <3>5 DEF Result
    <3> QED BY <1>12, <3>6 DEF Finish, TypeOK
  <2> QED BY <1>12, <2>1, <2>2 DEF Finish, TypeOK, HasNext, Coll
<1>13. ASSUME NEW r \in Ranks, Crash(r) PROVE TypeOK'
  BY <1>13 DEF Crash, TypeOK, HasNext, Coll
<1>14. CASE UNCHANGED vars
  BY <1>14 DEF vars, TypeOK, HasNext, Coll
<1> QED
  BY <1>1, <1>3, <1>4, <1>5, <1>6, <1>7, <1>8, <1>9, <1>10, <1>11, <1>12, <1>13, <1>14
     DEF Next, TaskStep

\* Every variable stays in its range, and a task that waits for its peers
\* holds a sequence number.
THEOREM TypeCorrect == Spec => []TypeOK
<1>1. Init => TypeOK
  BY TypeInit
<1>2. TypeOK /\ [Next]_vars => TypeOK'
  BY TypeStep
<1> QED BY <1>1, <1>2, PTL DEF Spec

-----------------------------------------------------------------------------
(* The inductive invariant: entries.                                        *)

\* Posting adds one entry to what is sent, under a key that had none.
LEMMA PostingAdds ==
    ASSUME IInv, NEW t \in Tasks, phase[t] = "run", NEW s \in ToPost(t),
           \/ store' = Put(store, EntryOf(t, s)) /\ UNCHANGED late
           \/ late' = late \union {EntryOf(t, s)} /\ UNCHANGED store
    PROVE  /\ Coll(t).kind = "scatter" => Sent' = Sent
           /\ Coll(t).kind # "scatter" => Sent' = Sent \union {EntryOf(t, s)}
           /\ \A e \in store : e.key.tag.op # "scatter" => e \in store'
<1>1. EntryOf(t, s).key.tag.op = Coll(t).kind
  BY DEF EntryOf, KeyOf, TagOf
<1>2. Coll(t).kind # "scatter" => \A e \in Sent : e.key # EntryOf(t, s).key
  BY DEF IInv, UnpostedAreFree, TypeOK, Tagged, NoSeq, EntryOf
<1>3. \A e \in Sent : e.key # EntryOf(t, s).key
  <2>1. CASE Coll(t).kind = "scatter"
    BY <1>1, <2>1 DEF Sent
  <2> QED BY <2>1, <1>2
<1> QED BY <1>1, <1>3 DEF Sent, Put

\* A late set is of an entry that was sent already: the store only gains.
LEMMA LateSetKeeps ==
    ASSUME IInv, NEW e \in late, LateSet(e)
    PROVE  /\ Sent' = Sent
           /\ \A d \in store : d.key.tag.op # "scatter" => d \in store'
<1>1. \A d \in Sent : d.key = e.key => d = e
  <2>1. CASE e.key.tag.op = "scatter"
    BY <2>1 DEF Sent
  <2>2. CASE e.key.tag.op # "scatter"
    BY <2>2 DEF Sent, IInv, KeysAreUnique
  <2> QED BY <2>1, <2>2
<1> QED BY <1>1 DEF Sent, Put, LateSet

\* The store only gains entries, but for those of scatters.
LEMMA StoreGrows ==
    ASSUME IInv, [Next]_vars
    PROVE  \A e \in store : e.key.tag.op # "scatter" => e \in store'
<1>1. ASSUME NEW t \in Tasks, Post(t)
      PROVE  \A e \in store : e.key.tag.op # "scatter" => e \in store'
  <2>1. PICK s \in ToPost(t) : store' = Put(store, EntryOf(t, s))
    BY <1>1 DEF Post, First
  <2> QED BY <1>1, <2>1, PostingAdds DEF Post
<1>2. ASSUME NEW t \in Tasks, PostError(t)
      PROVE  \A e \in store : e.key.tag.op # "scatter" => e \in store'
  <2>1. CASE store' = store
    BY <2>1
  <2>2. CASE store' # store
    <3>1. PICK s \in ToPost(t) : store' = Put(store, EntryOf(t, s)) /\ UNCHANGED late
      BY <1>2, <2>2 DEF PostError, First
    <3> QED BY <1>2, <3>1, PostingAdds DEF PostError
  <2> QED BY <2>1, <2>2
<1>3. ASSUME NEW e \in late, LateSet(e)
      PROVE  \A d \in store : d.key.tag.op # "scatter" => d \in store'
  BY <1>3, LateSetKeeps
<1>4. ASSUME store' = store
      PROVE  \A e \in store : e.key.tag.op # "scatter" => e \in store'
  BY <1>4
<1> QED
  BY <1>1, <1>2, <1>3, <1>4
     DEF Next, TaskStep, vars, PassOver, Begin, Reject, Connect, ConnectTimeout, Poll,
         PollTimeout, Finish, Crash

-----------------------------------------------------------------------------
(* The inductive invariant: sequence numbers.                               *)

\* Taking a number leaves the others' alone and moves the counter past it.
LEMMA NextTagIsFresh ==
    ASSUME TypeOK, NEW t \in Tasks, HasNext(t), NextTag(t)
    PROVE  /\ mine'[t] = seqs[RankOf[t]][Coll(t).ns]
           /\ mine'[t] < seqs'[RankOf[t]][Coll(t).ns]
           /\ \A u \in Tasks \ {t} : mine'[u] = mine[u]
           /\ \A r \in Ranks, g \in Groups :
                seqs[r][g] \in Nat /\ seqs'[r][g] \in Nat /\ seqs'[r][g] >= seqs[r][g]
<1>1. RankOf[t] \in Ranks /\ Coll(t).ns \in Groups
  BY CollectiveInHand
<1> QED BY <1>1 DEF NextTag, TypeOK

\* A counter never goes back.
LEMMA CountersGrow ==
    ASSUME TypeOK, [Next]_vars
    PROVE  \A r \in Ranks, g \in Groups :
                seqs[r][g] \in Nat /\ seqs'[r][g] \in Nat /\ seqs'[r][g] >= seqs[r][g]
<1> DEFINE Grows == \A r \in Ranks, g \in Groups :
                seqs[r][g] \in Nat /\ seqs'[r][g] \in Nat /\ seqs'[r][g] >= seqs[r][g]
<1>1. ASSUME seqs' = seqs PROVE Grows
  BY <1>1 DEF TypeOK
<1>2. ASSUME NEW t \in Tasks, HasNext(t), NextTag(t) PROVE Grows
  BY <1>2, NextTagIsFresh
<1>3. ASSUME NEW t \in Tasks, Begin(t) PROVE Grows
  BY <1>1, <1>2, <1>3 DEF Begin, Issues, KeepTag
<1>4. ASSUME NEW t \in Tasks, Connect(t) PROVE Grows
  BY <1>1, <1>2, <1>4 DEF Connect, KeepTag, TypeOK, TagFirst
<1> HIDE DEF Grows
<1>5. Grows
  BY <1>1, <1>3, <1>4
     DEF Next, TaskStep, vars, PassOver, Reject, ConnectTimeout, Post, PostError, LateSet,
         Poll, PollTimeout, Finish, Crash
<1> QED BY <1>5 DEF Grows

\* The tasks that are inside a collective after the step and held their
\* number before it are where they were.
Stays(t) == at'[t] = at[t] /\ mine'[t] = mine[t]

LEMMA NumbersStep ==
    ASSUME IInv, [Next]_vars
    PROVE  TaggedIsInside' /\ NumbersAreFresh'
<1> USE DEF NoSeq
<1>0. TypeOK /\ TypeOK' /\ TaggedIsInside /\ NumbersAreFresh
  BY TypeStep DEF IInv
<1>1. ASSUME \A t \in Tasks : mine'[t] = NoSeq \/ Stays(t), seqs' = seqs
      PROVE  NumbersAreFresh'
  <2>1. \A t \in Tasks : Tagged(t)' => Tagged(t) /\ Coll(t)' = Coll(t) /\ mine'[t] = mine[t]
    BY <1>1 DEF Tagged, Stays, Coll
  <2> QED BY <1>0, <1>1, <2>1 DEF NumbersAreFresh
<1>2. ASSUME NEW t \in Tasks, HasNext(t), NextTag(t), at' = at
      PROVE  NumbersAreFresh'
  <2>1. \A u \in Tasks : Coll(u)' = Coll(u)
    BY <1>2 DEF Coll
  <2>2. /\ mine'[t] = seqs[RankOf[t]][Coll(t).ns]
        /\ mine'[t] < seqs'[RankOf[t]][Coll(t).ns]
        /\ \A u \in Tasks \ {t} : mine'[u] = mine[u]
        /\ \A r \in Ranks, g \in Groups :
                seqs[r][g] \in Nat /\ seqs'[r][g] \in Nat /\ seqs'[r][g] >= seqs[r][g]
    BY <1>0, <1>2, NextTagIsFresh
  <2>3. ASSUME NEW u \in Tasks \ {t}, Tagged(u)'
        PROVE  /\ Tagged(u)
               /\ RankOf[u] \in Ranks /\ Coll(u).ns \in Groups
               /\ mine'[u] = mine[u] /\ mine[u] \in Nat
               /\ mine[u] < seqs[RankOf[u]][Coll(u).ns]
    <3>1. Tagged(u) /\ mine'[u] = mine[u]
      BY <2>2, <2>3 DEF Tagged
    <3>2. mine[u] \in Nat /\ phase[u] \in {"connect", "run"}
      BY <1>0, <3>1 DEF Tagged, TaggedIsInside, TypeOK
    <3>3. HasNext(u)
      BY <1>0, <3>2 DEF TypeOK
    <3> QED BY <1>0, <3>1, <3>2, <3>3, CollectiveInHand DEF NumbersAreFresh
  <2>4. ASSUME NEW u \in Tasks \ {t}, Tagged(u)'
        PROVE  mine'[u] < seqs'[RankOf[u]][Coll(u).ns]
    <3> DEFINE old == seqs[RankOf[u]][Coll(u).ns]
               new == seqs'[RankOf[u]][Coll(u).ns]
    <3>1. mine'[u] \in Nat /\ mine'[u] < old
      BY <2>3, <2>4
    <3>2. old \in Nat /\ new \in Nat /\ new >= old
      BY <2>2, <2>3, <2>4
    <3> HIDE DEF old, new
    <3>3. mine'[u] < new
      BY <3>1, <3>2
    <3> QED BY <3>3 DEF new
  <2>5. ASSUME NEW u \in Tasks \ {t}, Tagged(u)', RankOf[u] = RankOf[t], Coll(u).ns = Coll(t).ns
        PROVE  mine'[u] # mine'[t]
    <3>1. mine'[u] \in Nat /\ mine'[u] < seqs[RankOf[t]][Coll(t).ns]
      BY <2>3, <2>5
    <3> QED BY <2>2, <3>1
  <2>6. ASSUME NEW u \in Tasks \ {t}, NEW v \in Tasks \ {t},
               u # v, Tagged(u)', Tagged(v)', RankOf[u] = RankOf[v], Coll(u).ns = Coll(v).ns
        PROVE  mine'[u] # mine'[v]
    <3>1. Tagged(u) /\ Tagged(v) /\ mine'[u] = mine[u] /\ mine'[v] = mine[v]
      BY <2>3, <2>6
    <3> QED BY <1>0, <2>6, <3>1 DEF NumbersAreFresh
  <2>7. ASSUME NEW u \in Tasks, Tagged(u)'
        PROVE  /\ mine'[u] < seqs'[RankOf[u]][Coll(u)'.ns]
               /\ \A v \in Tasks \ {u} :
                    Tagged(v)' /\ RankOf[v] = RankOf[u] /\ Coll(v)'.ns = Coll(u)'.ns
                      => mine'[v] # mine'[u]
    BY <2>1, <2>2, <2>4, <2>5, <2>6, <2>7
  <2> QED BY <2>7 DEF NumbersAreFresh
<1>3. ASSUME NEW t \in Tasks, PassOver(t) PROVE TaggedIsInside' /\ NumbersAreFresh'
  <2>1. mine[t] = NoSeq
    BY <1>0, <1>3 DEF PassOver, Issues, TaggedIsInside, Tagged
  <2>2. \A u \in Tasks \ {t} : Stays(u)
    BY <1>0, <1>3 DEF PassOver, Stays, TypeOK
  <2>3. NumbersAreFresh'
    BY <1>1, <1>3, <2>1, <2>2 DEF PassOver
  <2> QED BY <1>0, <1>3, <2>3 DEF PassOver, TaggedIsInside, Tagged
<1>4. ASSUME NEW t \in Tasks, Begin(t) PROVE TaggedIsInside' /\ NumbersAreFresh'
  <2>1. HasNext(t) /\ at' = at /\ (NextTag(t) \/ KeepTag)
    BY <1>4 DEF Begin, Issues
  <2>2. NumbersAreFresh'
    <3>1. CASE KeepTag
      BY <1>1, <2>1, <3>1 DEF KeepTag, Stays
    <3> QED BY <1>2, <2>1, <3>1
  <2>3. \A u \in Tasks \ {t} : mine'[u] = mine[u]
    BY <1>0, <2>1, NextTagIsFresh DEF KeepTag
  <2> QED BY <1>0, <1>4, <2>2, <2>3 DEF Begin, Issues, TaggedIsInside, Tagged, TypeOK
<1>5. ASSUME NEW t \in Tasks, Reject(t) PROVE TaggedIsInside' /\ NumbersAreFresh'
  <2>1. mine[t] = NoSeq /\ UNCHANGED <<seqs, mine>>
    BY <1>0, <1>5 DEF Reject, Issues, TaggedIsInside, Tagged
  <2>2. \A u \in Tasks \ {t} : Stays(u)
    BY <1>0, <1>5, <2>1, ErrorIsTyped DEF Reject, Stays
  <2>3. NumbersAreFresh'
    BY <1>1, <2>1, <2>2
  <2> QED BY <1>0, <1>5, <2>1, <2>3, ErrorIsTyped DEF Reject, TaggedIsInside, Tagged
<1>6. ASSUME NEW t \in Tasks, Connect(t) PROVE TaggedIsInside' /\ NumbersAreFresh'
  <2>1. HasNext(t) /\ at' = at /\ (NextTag(t) \/ KeepTag)
    BY <1>0, <1>6 DEF Connect, TypeOK
  <2>2. NumbersAreFresh'
    <3>1. CASE KeepTag
      BY <1>1, <2>1, <3>1 DEF KeepTag, Stays
    <3> QED BY <1>2, <2>1, <3>1
  <2>3. \A u \in Tasks \ {t} : mine'[u] = mine[u]
    BY <1>0, <2>1, NextTagIsFresh DEF KeepTag
  <2> QED BY <1>0, <1>6, <2>2, <2>3 DEF Connect, TaggedIsInside, Tagged, TypeOK
<1>7. ASSUME NEW t \in Tasks, Error(t), mine' = [mine EXCEPT ![t] = NoSeq], seqs' = seqs
      PROVE  TaggedIsInside' /\ NumbersAreFresh'
  <2>1. mine'[t] = NoSeq /\ \A u \in Tasks \ {t} : mine'[u] = mine[u]
    BY <1>0, <1>7 DEF TypeOK
  <2>2. \A u \in Tasks \ {t} : Stays(u)
    BY <1>0, <1>7, <2>1, ErrorIsTyped DEF Stays
  <2>3. NumbersAreFresh'
    BY <1>1, <1>7, <2>1, <2>2
  <2> QED BY <1>0, <1>7, <2>1, <2>3, ErrorIsTyped DEF TaggedIsInside, Tagged
<1>8. ASSUME NEW t \in Tasks, ConnectTimeout(t) \/ PostError(t) \/ PollTimeout(t)
      PROVE  TaggedIsInside' /\ NumbersAreFresh'
  BY <1>7, <1>8 DEF ConnectTimeout, PostError, PollTimeout
<1>9. ASSUME UNCHANGED <<at, mine, seqs>>, phase' = phase,
             \A t \in Tasks : phase[t] # "run" => posted'[t] = posted[t] /\ got'[t] = got[t]
      PROVE  TaggedIsInside' /\ NumbersAreFresh'
  <2>1. NumbersAreFresh'
    BY <1>1, <1>9 DEF Stays
  <2> QED BY <1>0, <1>9, <2>1 DEF TaggedIsInside, Tagged
<1>10. ASSUME NEW t \in Tasks, Post(t) PROVE TaggedIsInside' /\ NumbersAreFresh'
  BY <1>0, <1>9, <1>10 DEF Post, TypeOK
<1>11. ASSUME NEW e \in late, LateSet(e) PROVE TaggedIsInside' /\ NumbersAreFresh'
  BY <1>9, <1>11 DEF LateSet
<1>12. ASSUME NEW t \in Tasks, Poll(t) PROVE TaggedIsInside' /\ NumbersAreFresh'
  BY <1>0, <1>9, <1>12 DEF Poll, Polls, TypeOK
<1>13. ASSUME NEW t \in Tasks, Finish(t) PROVE TaggedIsInside' /\ NumbersAreFresh'
  <2>1. mine'[t] = NoSeq /\ \A u \in Tasks \ {t} : mine'[u] = mine[u]
    BY <1>0, <1>13 DEF Finish, TypeOK
  <2>2. \A u \in Tasks \ {t} : Stays(u)
    BY <1>0, <1>13, <2>1 DEF Finish, Stays, TypeOK
  <2>3. NumbersAreFresh'
    BY <1>1, <1>13, <2>1, <2>2 DEF Finish
  <2> QED BY <1>0, <1>13, <2>1, <2>3 DEF Finish, TaggedIsInside, Tagged, TypeOK
<1>14. ASSUME NEW r \in Ranks, Crash(r) PROVE TaggedIsInside' /\ NumbersAreFresh'
  <2>1. \A t \in Tasks : mine'[t] = NoSeq \/ Stays(t)
    BY <1>14 DEF Crash, Stays
  <2>2. seqs' = seqs
    BY <1>14 DEF Crash
  <2>3. NumbersAreFresh'
    BY <1>1, <2>1, <2>2
  <2> QED BY <1>0, <1>14, <2>3 DEF Crash, TaggedIsInside, Tagged
<1>15. CASE UNCHANGED vars
  BY <1>9, <1>15 DEF vars
<1> QED
  BY <1>3, <1>4, <1>5, <1>6, <1>8, <1>10, <1>11, <1>12, <1>13, <1>14, <1>15
     DEF Next, TaskStep

-----------------------------------------------------------------------------
(* The inductive invariant: keys.                                           *)

LEMMA SentIsTyped ==
    ASSUME TypeOK, NEW e \in Sent
    PROVE  /\ e.key.slot[1] \in Ranks /\ e.key.tag.ns \in Groups /\ e.key.tag.seq \in Nat
           /\ e.key.tag.op # "scatter"
<1>1. e \in Entry /\ e.key.tag.op # "scatter"
  BY DEF TypeOK, Sent
<1> QED BY <1>1 DEF Entry, Key, Tag, Slot

\* A task that stays in its collective does not give back what it posted.
Holds(t) == Stays(t) /\ posted[t] \subseteq posted'[t]

LEMMA HolderIsUnchanged ==
    ASSUME NEW t \in Tasks, Holds(t), Tagged(t)'
    PROVE  /\ Tagged(t) /\ Coll(t)' = Coll(t) /\ ToPost(t)' \subseteq ToPost(t)
           /\ \A s : KeyOf(t, s)' = KeyOf(t, s)
<1>1. at'[t] = at[t] /\ mine'[t] = mine[t] /\ posted[t] \subseteq posted'[t]
  BY DEF Holds, Stays
<1>2. Tagged(t) /\ Coll(t)' = Coll(t)
  BY <1>1 DEF Tagged, Coll
<1>3. \A s : KeyOf(t, s)' = KeyOf(t, s)
  BY <1>1, <1>2 DEF KeyOf, TagOf
<1> QED BY <1>1, <1>2, <1>3 DEF ToPost

\* What a tagged task has to post goes under its rank's number.
LEMMA ToPostIsOwn ==
    ASSUME TypeOK, TaggedIsInside, NEW t \in Tasks, Tagged(t)
    PROVE  /\ HasNext(t) /\ mine[t] \in Nat
           /\ RankOf[t] \in Ranks /\ Coll(t).ns \in Groups
           /\ Coll(t).kind # "scatter" => \A s \in ToPost(t) : s[1] = RankOf[t]
<1>1. phase[t] \in {"connect", "run"} /\ mine[t] \in Nat
  BY DEF TaggedIsInside, Tagged, TypeOK
<1>2. HasNext(t)
  BY <1>1 DEF TypeOK
<1>3. Coll(t) \in Collective /\ RankOf[t] \in Ranks /\ Coll(t).ns \in Groups
  BY <1>2, CollectiveInHand
<1> QED BY <1>1, <1>2, <1>3, SlotsOfACollective DEF ToPost

\* A step that sends nothing new.
LEMMA NothingSent ==
    ASSUME IInv, [Next]_vars, Sent' = Sent
    PROVE  KeysAreOwned' /\ KeysAreUnique'
<1>1. KeysAreUnique'
  BY DEF IInv, KeysAreUnique
<1>2. ASSUME NEW e \in Sent
      PROVE  e.key.tag.seq < seqs'[e.key.slot[1]][e.key.tag.ns]
  <2> DEFINE old == seqs[e.key.slot[1]][e.key.tag.ns]
             new == seqs'[e.key.slot[1]][e.key.tag.ns]
  <2>1. e.key.tag.seq \in Nat /\ e.key.tag.seq < old
    BY <1>2, SentIsTyped DEF IInv, KeysAreOwned
  <2>2. old \in Nat /\ new \in Nat /\ new >= old
    BY <1>2, SentIsTyped, CountersGrow DEF IInv
  <2> HIDE DEF old, new
  <2>3. e.key.tag.seq < new
    BY <2>1, <2>2
  <2> QED BY <2>3 DEF new
<1>3. KeysAreOwned'
  BY <1>2 DEF IInv, KeysAreOwned
<1> QED BY <1>1, <1>3

\* Nor does it take a key from a task that has yet to post it.
LEMMA NothingSentOrTaken ==
    ASSUME IInv, Sent' = Sent, \A t \in Tasks : mine'[t] = NoSeq \/ Holds(t)
    PROVE  UnpostedAreFree'
<1>1. ASSUME NEW t \in Tasks, Tagged(t)', NEW s \in ToPost(t)', NEW e \in Sent
      PROVE  e.key # KeyOf(t, s)'
  <2>1. Holds(t)
    BY <1>1 DEF Tagged
  <2>2. Tagged(t) /\ s \in ToPost(t) /\ KeyOf(t, s)' = KeyOf(t, s)
    BY <1>1, <2>1, HolderIsUnchanged
  <2> QED BY <1>1, <2>2 DEF IInv, UnpostedAreFree
<1> QED BY <1>1 DEF UnpostedAreFree

\* A number just taken occurs in no key.
LEMMA TagTaken ==
    ASSUME IInv, Sent' = Sent, UNCHANGED <<at, posted>>,
           NEW t \in Tasks, HasNext(t), NextTag(t)
    PROVE  UnpostedAreFree'
<1>0. TypeOK /\ KeysAreOwned /\ TaggedIsInside
  BY DEF IInv
<1>1. /\ mine'[t] = seqs[RankOf[t]][Coll(t).ns]
      /\ \A u \in Tasks \ {t} : mine'[u] = mine[u]
  BY <1>0, NextTagIsFresh
<1>2. Coll(t) \in Collective /\ RankOf[t] \in Ranks /\ Coll(t).ns \in Groups
  BY CollectiveInHand
<1>3. ASSUME NEW s \in ToPost(t)', NEW e \in Sent
      PROVE  e.key # KeyOf(t, s)'
  <2>1. s \in PostSlots(Coll(t), RankOf[t])
    BY <1>3 DEF ToPost, Coll
  <2>2. CASE Coll(t).kind = "scatter"
    <3>1. KeyOf(t, s)'.tag.op = "scatter"
      BY <2>2 DEF KeyOf, TagOf, Coll
    <3> QED BY <1>0, <1>3, <3>1, SentIsTyped
  <2>3. CASE Coll(t).kind # "scatter"
    <3>1. s[1] = RankOf[t]
      BY <1>2, <2>1, <2>3, SlotsOfACollective
    <3>2. /\ KeyOf(t, s)'.slot = s /\ KeyOf(t, s)'.tag.ns = Coll(t).ns
          /\ KeyOf(t, s)'.tag.seq = seqs[RankOf[t]][Coll(t).ns]
      BY <1>1 DEF KeyOf, TagOf, Coll
    <3>3. seqs[RankOf[t]][Coll(t).ns] \in Nat
      BY <1>0, <1>2 DEF TypeOK
    <3>4. e.key.tag.seq \in Nat /\ e.key.tag.seq < seqs[e.key.slot[1]][e.key.tag.ns]
      BY <1>0, <1>3, SentIsTyped DEF KeysAreOwned
    <3> QED BY <3>1, <3>2, <3>3, <3>4
  <2> QED BY <2>2, <2>3
<1>4. ASSUME NEW u \in Tasks \ {t}, Tagged(u)', NEW s \in ToPost(u)', NEW e \in Sent
      PROVE  e.key # KeyOf(u, s)'
  <2>1. Holds(u)
    BY <1>1, <1>4 DEF Holds, Stays
  <2>2. Tagged(u) /\ s \in ToPost(u) /\ KeyOf(u, s)' = KeyOf(u, s)
    BY <1>4, <2>1, HolderIsUnchanged
  <2> QED BY <1>4, <2>2 DEF IInv, UnpostedAreFree
<1> QED BY <1>3, <1>4 DEF UnpostedAreFree

\* A posted entry is the rank's own, and no other task has its key to post.
LEMMA EntrySent ==
    ASSUME IInv, NEW t \in Tasks, phase[t] = "run", NEW s \in ToPost(t),
           Coll(t).kind # "scatter", Sent' = Sent \union {EntryOf(t, s)}, seqs' = seqs,
           \A u \in Tasks : mine'[u] = NoSeq \/ Holds(u),
           mine'[t] = NoSeq \/ s \in posted'[t]
    PROVE  KeysAreOwned' /\ KeysAreUnique' /\ UnpostedAreFree'
<1>0. TypeOK /\ KeysAreOwned /\ KeysAreUnique /\ UnpostedAreFree /\ TaggedIsInside
      /\ NumbersAreFresh
  BY DEF IInv
<1>1. Tagged(t)
  BY <1>0 DEF TypeOK, Tagged, NoSeq
<1>2. /\ EntryOf(t, s).key = KeyOf(t, s) /\ EntryOf(t, s).val.slot = s
      /\ EntryOf(t, s).val.task = t /\ KeyOf(t, s).slot = s
      /\ KeyOf(t, s).tag.ns = Coll(t).ns /\ KeyOf(t, s).tag.seq = mine[t]
      /\ KeyOf(t, s).tag.op = Coll(t).kind
  BY DEF EntryOf, KeyOf, PayloadOf, TagOf
<1>3. s[1] = RankOf[t]
  BY <1>0, <1>1, ToPostIsOwn
<1>4. KeysAreOwned'
  <2>1. mine[t] < seqs[RankOf[t]][Coll(t).ns]
    BY <1>0, <1>1 DEF NumbersAreFresh
  <2> QED BY <1>0, <1>2, <1>3, <2>1 DEF KeysAreOwned
<1>5. KeysAreUnique'
  <2>1. \A e \in Sent : e.key # EntryOf(t, s).key
    BY <1>0, <1>1, <1>2 DEF UnpostedAreFree
  <2> QED BY <1>0, <2>1 DEF KeysAreUnique
<1>6. ASSUME NEW u \in Tasks, Tagged(u)', NEW p \in ToPost(u)', NEW e \in Sent'
      PROVE  e.key # KeyOf(u, p)'
  <2>1. Holds(u)
    BY <1>6 DEF Tagged
  <2>2. Tagged(u) /\ p \in ToPost(u) /\ KeyOf(u, p)' = KeyOf(u, p)
    BY <1>6, <2>1, HolderIsUnchanged
  <2>3. CASE e \in Sent
    BY <1>0, <2>2, <2>3 DEF UnpostedAreFree
  <2>4. CASE e = EntryOf(t, s)
    <3>1. CASE u = t
      <4>1. s \in posted'[t] /\ p \notin posted'[t]
        BY <1>6, <3>1 DEF Tagged, ToPost
      <4>2. KeyOf(u, p).slot = p
        BY DEF KeyOf
      <4> QED BY <1>2, <2>2, <2>4, <4>1, <4>2
    <3>2. CASE u # t
      <4>1. /\ KeyOf(u, p).slot = p /\ KeyOf(u, p).tag.ns = Coll(u).ns
            /\ KeyOf(u, p).tag.seq = mine[u] /\ KeyOf(u, p).tag.op = Coll(u).kind
        BY DEF KeyOf, TagOf
      <4>2. SUFFICES ASSUME KeyOf(t, s) = KeyOf(u, p) PROVE FALSE
        BY <1>2, <2>2, <2>4
      <4>3. Coll(u).kind # "scatter" /\ p = s
        BY <1>2, <4>1, <4>2
      <4>4. RankOf[u] = RankOf[t]
        BY <1>0, <1>3, <2>2, <4>3, ToPostIsOwn
      <4>5. Coll(u).ns = Coll(t).ns /\ mine[u] = mine[t]
        BY <1>2, <4>1, <4>2
      <4> QED BY <1>0, <1>1, <2>2, <3>2, <4>4, <4>5 DEF NumbersAreFresh
    <3> QED BY <3>1, <3>2
  <2> QED BY <1>6, <2>3, <2>4
<1>7. UnpostedAreFree'
  BY <1>6 DEF UnpostedAreFree
<1> QED BY <1>4, <1>5, <1>7

LEMMA KeysStep ==
    ASSUME IInv, [Next]_vars
    PROVE  KeysAreOwned' /\ KeysAreUnique' /\ UnpostedAreFree'
<1> DEFINE Goal == KeysAreOwned' /\ KeysAreUnique' /\ UnpostedAreFree'
<1> USE DEF NoSeq
<1>0. TypeOK /\ TaggedIsInside
  BY DEF IInv
<1>1. ASSUME Sent' = Sent, \A t \in Tasks : mine'[t] = NoSeq \/ Holds(t)
      PROVE  Goal
  BY <1>1, NothingSent, NothingSentOrTaken
<1>2. ASSUME UNCHANGED <<store, late, at, posted>>,
             NEW t \in Tasks, HasNext(t), NextTag(t) \/ KeepTag
      PROVE  Goal
  <2>1. Sent' = Sent
    BY <1>2 DEF Sent
  <2>2. CASE NextTag(t)
    BY <1>2, <2>1, <2>2, NothingSent, TagTaken
  <2>3. CASE KeepTag
    BY <1>1, <1>2, <2>1, <2>3 DEF KeepTag, Holds, Stays
  <2> QED BY <1>2, <2>2, <2>3
<1>3. ASSUME NEW t \in Tasks, Error(t), mine'[t] = NoSeq,
             \A u \in Tasks \ {t} : mine'[u] = mine[u]
      PROVE  \A u \in Tasks : mine'[u] = NoSeq \/ Holds(u)
  BY <1>0, <1>3, ErrorIsTyped DEF Holds, Stays
<1>4. ASSUME NEW t \in Tasks, PassOver(t) PROVE Goal
  <2>1. mine'[t] = NoSeq
    BY <1>0, <1>4 DEF PassOver, Issues, TaggedIsInside, Tagged
  <2>2. \A u \in Tasks : mine'[u] = NoSeq \/ Holds(u)
    BY <1>0, <1>4, <2>1 DEF PassOver, Holds, Stays, TypeOK
  <2>3. Sent' = Sent
    BY <1>4 DEF PassOver, Sent
  <2> QED BY <1>1, <2>2, <2>3
<1>5. ASSUME NEW t \in Tasks, Begin(t) PROVE Goal
  BY <1>2, <1>5 DEF Begin, Issues
<1>6. ASSUME NEW t \in Tasks, Reject(t) PROVE Goal
  <2>1. mine'[t] = NoSeq /\ mine' = mine
    BY <1>0, <1>6 DEF Reject, Issues, TaggedIsInside, Tagged
  <2>2. Sent' = Sent
    BY <1>6 DEF Reject, Sent
  <2> QED BY <1>1, <1>3, <1>6, <2>1, <2>2 DEF Reject
<1>7. ASSUME NEW t \in Tasks, Connect(t) PROVE Goal
  BY <1>0, <1>2, <1>7 DEF Connect, TypeOK
<1>8. ASSUME NEW t \in Tasks, ConnectTimeout(t) \/ PollTimeout(t) PROVE Goal
  <2>1. mine'[t] = NoSeq /\ \A u \in Tasks \ {t} : mine'[u] = mine[u]
    BY <1>0, <1>8 DEF ConnectTimeout, PollTimeout, TypeOK
  <2>2. Sent' = Sent
    BY <1>8 DEF ConnectTimeout, PollTimeout, Sent
  <2> QED BY <1>1, <1>3, <1>8, <2>1, <2>2 DEF ConnectTimeout, PollTimeout
<1>9. ASSUME NEW t \in Tasks, phase[t] = "run", NEW s \in ToPost(t), seqs' = seqs,
             \/ store' = Put(store, EntryOf(t, s)) /\ UNCHANGED late
             \/ late' = late \union {EntryOf(t, s)} /\ UNCHANGED store,
             \A u \in Tasks : mine'[u] = NoSeq \/ Holds(u),
             mine'[t] = NoSeq \/ s \in posted'[t]
      PROVE  Goal
  <2>1. CASE Coll(t).kind = "scatter"
    BY <1>1, <1>9, <2>1, PostingAdds
  <2>2. CASE Coll(t).kind # "scatter"
    BY <1>9, <2>2, PostingAdds, EntrySent
  <2> QED BY <2>1, <2>2
<1>10. ASSUME NEW t \in Tasks, Post(t) PROVE Goal
  <2>1. PICK s \in ToPost(t) : /\ store' = Put(store, EntryOf(t, s))
                               /\ posted' = [posted EXCEPT ![t] = @ \union {s}]
    BY <1>10 DEF Post, First
  <2>2. s \in posted'[t] /\ \A u \in Tasks : Holds(u)
    BY <1>0, <1>10, <2>1 DEF Post, Holds, Stays, TypeOK
  <2> QED BY <1>9, <1>10, <2>1, <2>2 DEF Post
<1>11. ASSUME NEW t \in Tasks, PostError(t) PROVE Goal
  <2>1. PICK s \in ToPost(t) : \/ store' = Put(store, EntryOf(t, s)) /\ UNCHANGED late
                               \/ late' = late \union {EntryOf(t, s)} /\ UNCHANGED store
                               \/ UNCHANGED <<store, late>>
    BY <1>11 DEF PostError, First
  <2>2. mine'[t] = NoSeq /\ \A u \in Tasks \ {t} : mine'[u] = mine[u]
    BY <1>0, <1>11 DEF PostError, TypeOK
  <2>3. \A u \in Tasks : mine'[u] = NoSeq \/ Holds(u)
    BY <1>3, <1>11, <2>2 DEF PostError
  <2>4. CASE UNCHANGED <<store, late>>
    <3>1. Sent' = Sent
      BY <2>4 DEF Sent
    <3> QED BY <1>1, <2>3, <3>1
  <2>5. phase[t] = "run" /\ seqs' = seqs
    BY <1>11 DEF PostError
  <2> QED BY <1>9, <2>1, <2>2, <2>3, <2>4, <2>5
<1>12. ASSUME NEW e \in late, LateSet(e) PROVE Goal
  <2>1. \A u \in Tasks : Holds(u)
    BY <1>12 DEF LateSet, Holds, Stays
  <2> QED BY <1>1, <1>12, <2>1, LateSetKeeps
<1>13. ASSUME NEW t \in Tasks, Poll(t) PROVE Goal
  BY <1>1, <1>13 DEF Poll, Holds, Stays, Sent
<1>14. ASSUME NEW t \in Tasks, Finish(t) PROVE Goal
  <2>1. mine'[t] = NoSeq
    BY <1>0, <1>14 DEF Finish, TypeOK
  <2>2. \A u \in Tasks : mine'[u] = NoSeq \/ Holds(u)
    BY <1>0, <1>14, <2>1 DEF Finish, Holds, Stays, TypeOK
  <2>3. Sent' = Sent
    BY <1>14 DEF Finish, Sent
  <2> QED BY <1>1, <2>2, <2>3
<1>15. ASSUME NEW r \in Ranks, Crash(r) PROVE Goal
  BY <1>1, <1>15 DEF Crash, Holds, Stays, Sent
<1>16. CASE UNCHANGED vars
  BY <1>1, <1>16 DEF vars, Holds, Stays, Sent
<1> QED
  BY <1>4, <1>5, <1>6, <1>7, <1>8, <1>10, <1>11, <1>12, <1>13, <1>14, <1>15, <1>16
     DEF Next, TaskStep

-----------------------------------------------------------------------------
(* The inductive invariant: what is in hand and what was returned.          *)

\* The part of InHandIsStored that is about one task.
InHand(t) ==
    Tagged(t) /\ phase[t] = "run" /\ Coll(t).kind # "scatter" =>
        /\ \A s \in posted[t] : EntryOf(t, s) \in store
        /\ \A x \in got[t] : Backed(TagOf(t), x) /\ x.slot \in NeedSlots(Coll(t), RankOf[t])

\* It survives a step that leaves the task where it is, but for one more slot
\* posted or one more payload polled.
LEMMA HandKept ==
    ASSUME IInv, [Next]_vars, NEW t \in Tasks, Stays(t), phase'[t] = phase[t],
           Coll(t).kind # "scatter" =>
             /\ \A s \in posted'[t] \ posted[t] : EntryOf(t, s) \in store'
             /\ \A x \in got'[t] \ got[t] : /\ Backed(TagOf(t), x)
                                            /\ x.slot \in NeedSlots(Coll(t), RankOf[t])
    PROVE  InHand(t)'
<1>1. /\ Coll(t)' = Coll(t) /\ TagOf(t)' = TagOf(t) /\ Tagged(t)' = Tagged(t)
      /\ \A s : EntryOf(t, s)' = EntryOf(t, s)
  BY DEF Stays, Coll, TagOf, Tagged, EntryOf, KeyOf, PayloadOf
<1> SUFFICES ASSUME Tagged(t), phase[t] = "run", Coll(t).kind # "scatter"
             PROVE  /\ \A s \in posted'[t] : EntryOf(t, s) \in store'
                    /\ \A x \in got'[t] : /\ Backed(TagOf(t), x)'
                                          /\ x.slot \in NeedSlots(Coll(t), RankOf[t])
  BY <1>1 DEF InHand
<1>2. TagOf(t).op # "scatter" /\ \A s : EntryOf(t, s).key.tag.op # "scatter"
  BY DEF TagOf, EntryOf, KeyOf
<1>3. \A s \in posted[t] : EntryOf(t, s) \in store'
  BY <1>2, StoreGrows DEF IInv, InHandIsStored
<1>4. ASSUME NEW x \in got'[t]
      PROVE  Backed(TagOf(t), x)' /\ x.slot \in NeedSlots(Coll(t), RankOf[t])
  <2>1. Backed(TagOf(t), x) /\ x.slot \in NeedSlots(Coll(t), RankOf[t])
    BY <1>4 DEF IInv, InHandIsStored
  <2>2. [key |-> [tag |-> TagOf(t), slot |-> x.slot], val |-> x.val] \in store'
    BY <1>2, <2>1, StoreGrows DEF Backed
  <2> QED BY <1>1, <2>1, <2>2 DEF Backed
<1> QED BY <1>3, <1>4

LEMMA InHandStep ==
    ASSUME IInv, [Next]_vars
    PROVE  InHandIsStored'
<1> USE DEF NoSeq
<1>0. TypeOK /\ TaggedIsInside /\ KeysAreOwned
  BY DEF IInv
<1>1. ASSUME NEW t \in Tasks, phase'[t] # "run" PROVE InHand(t)'
  BY <1>1 DEF InHand
<1>2. ASSUME NEW t \in Tasks, UNCHANGED <<at[t], mine[t], phase[t], posted[t], got[t]>>
      PROVE  InHand(t)'
  BY <1>2, HandKept DEF Stays
<1>3. ASSUME \A t \in Tasks : InHand(t)' PROVE InHandIsStored'
  BY <1>3 DEF InHand, InHandIsStored
<1>4. ASSUME NEW t \in Tasks, Error(t),
             \A u \in Tasks \ {t} : mine'[u] = mine[u]
      PROVE  InHandIsStored'
  BY <1>0, <1>1, <1>2, <1>3, <1>4, ErrorIsTyped
<1>5. ASSUME NEW t \in Tasks,
             PassOver(t) \/ Begin(t) \/ Finish(t),
             \A u \in Tasks \ {t} : mine'[u] = mine[u]
      PROVE  InHandIsStored'
  <2>1. phase'[t] # "run"
    BY <1>0, <1>5 DEF PassOver, Begin, Finish, Issues, TypeOK
  <2>2. \A u \in Tasks \ {t} : UNCHANGED <<at[u], mine[u], phase[u], posted[u], got[u]>>
    BY <1>0, <1>5 DEF PassOver, Begin, Finish, TypeOK
  <2> QED BY <1>1, <1>2, <1>3, <2>1, <2>2
<1>6. ASSUME NEW t \in Tasks, HasNext(t), NextTag(t) \/ KeepTag
      PROVE  \A u \in Tasks \ {t} : mine'[u] = mine[u]
  BY <1>0, <1>6, NextTagIsFresh DEF KeepTag
<1>7. ASSUME NEW t \in Tasks, PassOver(t) \/ Begin(t) \/ Finish(t)
      PROVE  InHandIsStored'
  <2>1. CASE PassOver(t)
    BY <1>5, <2>1 DEF PassOver
  <2>2. CASE Begin(t)
    BY <1>5, <1>6, <2>2 DEF Begin, Issues
  <2>3. CASE Finish(t)
    BY <1>0, <1>5, <2>3 DEF Finish, TypeOK
  <2> QED BY <1>7, <2>1, <2>2, <2>3
<1>8. ASSUME NEW t \in Tasks,
             Reject(t) \/ ConnectTimeout(t) \/ PostError(t) \/ PollTimeout(t)
      PROVE  InHandIsStored'
  <2>1. \A u \in Tasks \ {t} : mine'[u] = mine[u]
    BY <1>0, <1>8 DEF Reject, ConnectTimeout, PostError, PollTimeout, TypeOK
  <2> QED BY <1>4, <1>8, <2>1 DEF Reject, ConnectTimeout, PostError, PollTimeout
<1>9. ASSUME NEW t \in Tasks, Connect(t) PROVE InHandIsStored'
  <2>1. posted'[t] = {} /\ got'[t] = {}
    BY <1>0, <1>9 DEF Connect, TaggedIsInside
  <2>2. InHand(t)'
    BY <2>1 DEF InHand
  <2>3. \A u \in Tasks \ {t} : mine'[u] = mine[u]
    BY <1>0, <1>6, <1>9 DEF Connect, TypeOK
  <2>4. \A u \in Tasks \ {t} : UNCHANGED <<at[u], mine[u], phase[u], posted[u], got[u]>>
    BY <1>0, <1>9, <2>3 DEF Connect, TypeOK
  <2> QED BY <1>2, <1>3, <2>2, <2>4
<1>10. ASSUME NEW t \in Tasks, Post(t) PROVE InHandIsStored'
  <2>1. PICK s \in ToPost(t) : /\ store' = Put(store, EntryOf(t, s))
                               /\ posted' = [posted EXCEPT ![t] = @ \union {s}]
    BY <1>10 DEF Post, First
  <2>2. EntryOf(t, s) \in store'
    BY <2>1 DEF Put
  <2>3. posted'[t] = posted[t] \union {s}
    BY <1>0, <2>1 DEF TypeOK
  <2>4. InHand(t)'
    BY <1>10, <2>2, <2>3, HandKept DEF Post, Stays
  <2>5. \A u \in Tasks \ {t} : UNCHANGED <<at[u], mine[u], phase[u], posted[u], got[u]>>
    BY <1>0, <1>10, <2>1 DEF Post, TypeOK
  <2> QED BY <1>2, <1>3, <2>4, <2>5
<1>11. ASSUME NEW t \in Tasks, Poll(t) PROVE InHandIsStored'
  <2>1. PICK s \in ToPoll(t), e \in store : /\ e.key = KeyOf(t, s)
                                            /\ got' = [got EXCEPT ![t] =
                                                           @ \union {[slot |-> s, val |-> e.val]}]
    BY <1>11 DEF Poll, First
  <2>2. got'[t] = got[t] \union {[slot |-> s, val |-> e.val]}
    BY <1>0, <2>1 DEF TypeOK
  <2>3. ASSUME Coll(t).kind # "scatter"
        PROVE  /\ Backed(TagOf(t), [slot |-> s, val |-> e.val])
               /\ s \in NeedSlots(Coll(t), RankOf[t])
    <3>1. e.key = [tag |-> TagOf(t), slot |-> s]
      BY <2>1 DEF KeyOf
    <3>2. e = [key |-> e.key, val |-> e.val]
      BY <1>0 DEF TypeOK, Entry
    <3>3. s \in NeedSlots(Coll(t), RankOf[t])
      BY <2>1 DEF ToPoll
    <3> QED BY <3>1, <3>2, <3>3 DEF Backed
  <2>4. InHand(t)'
    BY <1>11, <2>2, <2>3, HandKept DEF Poll, Stays
  <2>5. \A u \in Tasks \ {t} : UNCHANGED <<at[u], mine[u], phase[u], posted[u], got[u]>>
    BY <1>0, <1>11, <2>1 DEF Poll, TypeOK
  <2> QED BY <1>2, <1>3, <2>4, <2>5
<1>12. ASSUME UNCHANGED <<at, mine, phase, posted, got>> PROVE InHandIsStored'
  BY <1>2, <1>3, <1>12
<1>13. ASSUME NEW e \in late, LateSet(e) PROVE InHandIsStored'
  BY <1>12, <1>13 DEF LateSet
<1>14. ASSUME NEW r \in Ranks, Crash(r) PROVE InHandIsStored'
  <2>1. ASSUME NEW t \in Tasks PROVE InHand(t)'
    <3>1. CASE RankOf[t] = r
      BY <1>1, <1>14, <3>1 DEF Crash
    <3>2. CASE RankOf[t] # r
      BY <1>2, <1>14, <3>2 DEF Crash
    <3> QED BY <3>1, <3>2
  <2> QED BY <1>3, <2>1
<1>15. CASE UNCHANGED vars
  BY <1>12, <1>15 DEF vars
<1> QED
  BY <1>7, <1>8, <1>9, <1>10, <1>11, <1>13, <1>14, <1>15 DEF Next, TaskStep

\* What a task about to return has in hand is complete and in the store.
LEMMA HandIsComplete ==
    ASSUME IInv, NEW t \in Tasks, Finish(t), Coll(t).kind # "scatter"
    PROVE  /\ HasNext(t) /\ Tagged(t)
           /\ NeedSlots(Coll(t), RankOf[t]) =
                {x.slot : x \in got[t]} \union LocalSlots(Coll(t), RankOf[t])
           /\ \A x \in got[t] : Backed(TagOf(t), x)
           /\ \A s \in LocalSlots(Coll(t), RankOf[t]) :
                  Backed(TagOf(t), [slot |-> s, val |-> PayloadOf(t, s)])
<1>1. TypeOK /\ HasNext(t) /\ Tagged(t) /\ phase[t] = "run"
  BY DEF IInv, TypeOK, Finish, Tagged, NoSeq
<1>2. Coll(t) \in Collective /\ RankOf[t] \in Ranks
  BY <1>1, CollectiveInHand
<1>3. /\ \A s \in posted[t] : EntryOf(t, s) \in store
      /\ \A x \in got[t] : /\ Backed(TagOf(t), x)
                           /\ x.slot \in NeedSlots(Coll(t), RankOf[t])
  BY <1>1 DEF IInv, InHandIsStored
<1>4. LocalSlots(Coll(t), RankOf[t]) \subseteq posted[t]
  BY <1>2, SlotsOfACollective DEF Finish, ToPost
<1>5. \A s \in LocalSlots(Coll(t), RankOf[t]) :
          Backed(TagOf(t), [slot |-> s, val |-> PayloadOf(t, s)])
  BY <1>3, <1>4 DEF Backed, EntryOf, KeyOf, PayloadOf
<1>6. LocalSlots(Coll(t), RankOf[t]) \subseteq NeedSlots(Coll(t), RankOf[t])
  BY DEF LocalSlots
<1>7. NeedSlots(Coll(t), RankOf[t]) =
        {x.slot : x \in got[t]} \union LocalSlots(Coll(t), RankOf[t])
  BY <1>3, <1>6 DEF Finish, ToPoll
<1> QED BY <1>1, <1>3, <1>5, <1>7

LEMMA ResultsStep ==
    ASSUME IInv, [Next]_vars
    PROVE  ResultsAreStored' /\ NobodyLeavesEarly'
<1>0. TypeOK /\ KeysAreOwned /\ NumbersAreFresh /\ ResultsAreStored /\ NobodyLeavesEarly
  BY DEF IInv
<1>1. ASSUME NEW o \in Returns(Gathering), NEW x \in o.value
      PROVE  Backed(o.tag, x)'
  <2>1. Backed(o.tag, x) /\ o.tag.op # "scatter"
    BY <1>0, <1>1 DEF ResultsAreStored, Returns, Gathering
  <2> QED BY <2>1, StoreGrows DEF Backed
<1>2. ASSUME NEW o \in Returns(Exchanges), NEW r \in Members[o.tag.ns]
      PROVE  seqs'[r][o.tag.ns] > o.tag.seq
  <2> DEFINE old == seqs[r][o.tag.ns]
             new == seqs'[r][o.tag.ns]
  <2>1. o.tag.ns \in Groups /\ o.tag.seq \in Nat
    BY <1>0, <1>2 DEF TypeOK, Returns, Tag
  <2>2. r \in Ranks
    BY <1>2, <2>1, EngineAssumption
  <2>3. old \in Nat /\ new \in Nat /\ new >= old
    BY <1>0, <2>1, <2>2, CountersGrow
  <2>4. old > o.tag.seq
    BY <1>0, <1>2 DEF NobodyLeavesEarly
  <2> HIDE DEF old, new
  <2>5. new > o.tag.seq
    BY <2>1, <2>3, <2>4
  <2> QED BY <2>5 DEF new
<1>3. ASSUME results' = results PROVE ResultsAreStored' /\ NobodyLeavesEarly'
  <2>1. \A kinds : Returns(kinds)' = Returns(kinds)
    BY <1>3 DEF Returns
  <2>2. ResultsAreStored'
    BY <1>0, <1>1, <2>1 DEF ResultsAreStored, CollectiveOf
  <2>3. NobodyLeavesEarly'
    BY <1>2, <2>1 DEF NobodyLeavesEarly
  <2> QED BY <2>2, <2>3
<1>4. ASSUME NEW t \in Tasks, Finish(t) PROVE ResultsAreStored' /\ NobodyLeavesEarly'
  <2> DEFINE o == Result(t)
  <2>1. \A kinds : Returns(kinds)' \subseteq Returns(kinds) \union {o}
    BY <1>4 DEF Returns, Finish
  <2>2. /\ o.task = t /\ o.at = at[t] /\ o.tag = TagOf(t) /\ o.value = Returned(t)
        /\ o.tag.op = Coll(t).kind /\ o.tag.ns = Coll(t).ns /\ o.tag.seq = mine[t]
        /\ CollectiveOf(o) = Coll(t)
    BY DEF Result, TagOf, CollectiveOf, Coll
  <2> HIDE DEF o
  <2>3. store' = store /\ seqs' = seqs
    BY <1>4 DEF Finish
  <2>4. ASSUME Coll(t).kind \in Gathering
        PROVE  /\ Coll(t) \in Collective
               /\ {x.slot : x \in o.value} = NeedSlots(Coll(t), RankOf[t])
               /\ \A x \in o.value : Backed(o.tag, x)
    <3>1. Coll(t).kind # "scatter" /\ Coll(t).kind # "barrier" /\ Coll(t).kind # "reduce"
      BY <2>4 DEF Gathering
    <3> DEFINE Own(s) == [slot |-> s, val |-> PayloadOf(t, s)]
               own == {Own(s) : s \in LocalSlots(Coll(t), RankOf[t])}
    <3>2. o.value = got[t] \union own
      BY <2>2, <3>1 DEF Returned
    <3>3. HasNext(t)
      BY <1>4, <3>1, HandIsComplete
    <3>4. {x.slot : x \in o.value} = NeedSlots(Coll(t), RankOf[t])
      <4>1. {x.slot : x \in own} = LocalSlots(Coll(t), RankOf[t])
        <5>1. \A s : Own(s).slot = s
          OBVIOUS
        <5> HIDE DEF Own
        <5> QED BY <5>1
      <4> HIDE DEF own
      <4>2. {x.slot : x \in o.value} = {x.slot : x \in got[t]} \union {x.slot : x \in own}
        BY <3>2
      <4> QED BY <1>4, <3>1, <4>1, <4>2, HandIsComplete
    <3>5. \A x \in o.value : Backed(o.tag, x)
      BY <1>4, <2>2, <3>1, <3>2, HandIsComplete
    <3> QED BY <3>3, <3>4, <3>5, CollectiveInHand
  <2>5. ResultsAreStored'
    <3>1. ASSUME NEW q \in Returns(Gathering)'
          PROVE  /\ CollectiveOf(q) \in Collective
                 /\ q.tag.op = CollectiveOf(q).kind /\ q.tag.ns = CollectiveOf(q).ns
                 /\ {x.slot : x \in q.value} = NeedSlots(CollectiveOf(q), RankOf[q.task])
                 /\ \A x \in q.value : Backed(q.tag, x)'
      <4>1. CASE q \in Returns(Gathering)
        BY <1>0, <1>1, <4>1 DEF ResultsAreStored
      <4>2. CASE q = o
        <5>1. Coll(t).kind \in Gathering
          BY <2>2, <3>1, <4>2 DEF Returns
        <5> QED BY <2>2, <2>3, <2>4, <4>2, <5>1 DEF Backed
      <4> QED BY <2>1, <3>1, <4>1, <4>2
    <3> QED BY <3>1 DEF ResultsAreStored, CollectiveOf
  <2>6. ASSUME Coll(t).kind \in Exchanges, NEW r \in Members[Coll(t).ns]
        PROVE  seqs[r][Coll(t).ns] > mine[t]
    <3>1. Coll(t).kind # "scatter" /\ HasNext(t) /\ Tagged(t)
      BY <1>4, <2>6, HandIsComplete DEF Exchanges
    <3>2. Coll(t) \in Collective /\ RankOf[t] \in Ranks /\ Coll(t).ns \in Groups
      BY <3>1, CollectiveInHand
    <3>3. r \in Ranks /\ mine[t] \in Nat /\ seqs[r][Coll(t).ns] \in Nat
      BY <1>0, <2>6, <3>1, <3>2, EngineAssumption DEF TypeOK, Tagged
    <3>4. <<r, r>> \in NeedSlots(Coll(t), RankOf[t])
      BY <2>6, <3>2, SlotsOfACollective
    <3>5. CASE <<r, r>> \in LocalSlots(Coll(t), RankOf[t])
      <4>1. r = RankOf[t]
        BY <3>5 DEF LocalSlots
      <4>2. mine[t] < seqs[RankOf[t]][Coll(t).ns]
        BY <1>0, <3>1 DEF NumbersAreFresh
      <4> QED BY <3>3, <4>1, <4>2
    <3>6. CASE \E x \in got[t] : x.slot = <<r, r>>
      <4>1. PICK x \in got[t] : x.slot = <<r, r>>
        BY <3>6
      <4> DEFINE e == [key |-> [tag |-> TagOf(t), slot |-> x.slot], val |-> x.val]
      <4>2. e \in store
        BY <1>4, <3>1, HandIsComplete DEF Backed
      <4>3. /\ e.key.tag.op = Coll(t).kind /\ e.key.tag.ns = Coll(t).ns
            /\ e.key.tag.seq = mine[t] /\ e.key.slot[1] = r
        BY <4>1 DEF TagOf
      <4> HIDE DEF e
      <4>4. e \in Sent
        BY <3>1, <4>2, <4>3 DEF Sent
      <4>5. mine[t] < seqs[r][Coll(t).ns]
        BY <1>0, <4>3, <4>4 DEF KeysAreOwned
      <4> QED BY <3>3, <4>5
    <3> QED BY <1>4, <3>1, <3>4, <3>5, <3>6, HandIsComplete
  <2>7. NobodyLeavesEarly'
    <3>1. ASSUME NEW q \in Returns(Exchanges)', NEW r \in Members[q.tag.ns]
          PROVE  seqs'[r][q.tag.ns] > q.tag.seq
      <4>1. CASE q \in Returns(Exchanges)
        BY <1>2, <3>1, <4>1
      <4>2. CASE q = o
        <5>1. Coll(t).kind \in Exchanges
          BY <2>2, <3>1, <4>2 DEF Returns
        <5> QED BY <2>2, <2>3, <2>6, <3>1, <4>2, <5>1
      <4> QED BY <2>1, <3>1, <4>1, <4>2
    <3> QED BY <3>1 DEF NobodyLeavesEarly
  <2> QED BY <2>5, <2>7
<1>5. ASSUME NEW t \in Tasks,
             Reject(t) \/ ConnectTimeout(t) \/ PostError(t) \/ PollTimeout(t)
      PROVE  results' = results
  BY <1>5 DEF Reject, ConnectTimeout, PostError, PollTimeout, Error
<1> QED
  BY <1>3, <1>4, <1>5
     DEF Next, TaskStep, vars, PassOver, Begin, Connect, Post, Poll, LateSet, Crash

-----------------------------------------------------------------------------
(* The theorems.                                                            *)

LEMMA InvariantInit == Init => IInv
<1> SUFFICES ASSUME Init PROVE IInv
  OBVIOUS
<1>1. TypeOK
  BY TypeInit
<1>2. \A t \in Tasks : ~Tagged(t) /\ posted[t] = {} /\ got[t] = {}
  BY DEF Init, Tagged
<1>3. Sent = {} /\ \A kinds : Returns(kinds) = {}
  BY DEF Init, Sent, Returns
<1>4. TaggedIsInside /\ NumbersAreFresh /\ UnpostedAreFree /\ InHandIsStored
  BY <1>2 DEF TaggedIsInside, NumbersAreFresh, UnpostedAreFree, InHandIsStored
<1>5. KeysAreOwned /\ KeysAreUnique /\ ResultsAreStored /\ NobodyLeavesEarly
  BY <1>3 DEF KeysAreOwned, KeysAreUnique, ResultsAreStored, NobodyLeavesEarly
<1> QED BY <1>1, <1>4, <1>5 DEF IInv

\* The inductive invariant: a rank never hands out a sequence number twice, so
\* a key has one writer and one value, and what a task holds or has returned
\* is in the store under its tag.
THEOREM Invariance == Spec => []IInv
<1>1. Init => IInv
  BY InvariantInit
<1>2. IInv /\ [Next]_vars => IInv'
  <2> SUFFICES ASSUME IInv, [Next]_vars PROVE IInv'
    OBVIOUS
  <2>1. TypeOK'
    BY TypeStep DEF IInv
  <2> QED BY <2>1, NumbersStep, KeysStep, InHandStep, ResultsStep DEF IInv
<1> QED BY <1>1, <1>2, PTL DEF Spec

\* Two contributions to one tag and one slot are one contribution.
LEMMA BackedOnce ==
    ASSUME IInv, NEW tag, tag.op # "scatter",
           NEW x \in Contribution, NEW y \in Contribution,
           Backed(tag, x), Backed(tag, y), x.slot = y.slot
    PROVE  x = y
<1> DEFINE d == [key |-> [tag |-> tag, slot |-> x.slot], val |-> x.val]
           e == [key |-> [tag |-> tag, slot |-> y.slot], val |-> y.val]
<1>1. d \in Sent /\ e \in Sent
  BY DEF Backed, Sent
<1>2. d.key = e.key /\ d.val = x.val /\ e.val = y.val
  OBVIOUS
<1> HIDE DEF d, e
<1>3. x.val = y.val
  BY <1>1, <1>2 DEF IInv, KeysAreUnique
<1> QED BY <1>3 DEF Contribution

\* However many errors, retries, late sets and crashes there are, two ranks
\* that return from an all_reduce or all_gather under one tag return the same
\* contributions.
THEOREM Agreement == Spec => []TagAgreement
<1>1. IInv => TagAgreement
  <2> SUFFICES ASSUME IInv,
                      NEW o1 \in Returns({"all_reduce", "all_gather"}),
                      NEW o2 \in Returns({"all_reduce", "all_gather"}), o1.tag = o2.tag
               PROVE  o1.value = o2.value
    BY DEF TagAgreement
  <2>1. ASSUME NEW o \in Returns({"all_reduce", "all_gather"})
        PROVE  /\ {x.slot : x \in o.value} = {<<p, p>> : p \in Members[o.tag.ns]}
               /\ \A x \in o.value : Backed(o.tag, x)
               /\ o.tag.op # "scatter"
               /\ o.value \subseteq Contribution
    <3>1. o \in Returns(Gathering) /\ o \in results /\ o.tag.op \in Exchanges
      BY <2>1 DEF Returns, Gathering, Exchanges
    <3>2. /\ CollectiveOf(o) \in Collective /\ RankOf[o.task] \in Ranks
          /\ o.tag.op = CollectiveOf(o).kind /\ o.tag.ns = CollectiveOf(o).ns
          /\ {x.slot : x \in o.value} = NeedSlots(CollectiveOf(o), RankOf[o.task])
          /\ \A x \in o.value : Backed(o.tag, x)
      BY <3>1, EngineAssumption DEF IInv, ResultsAreStored, TypeOK
    <3>3. NeedSlots(CollectiveOf(o), RankOf[o.task]) = {<<p, p>> : p \in Members[o.tag.ns]}
      BY <3>1, <3>2, SlotsOfACollective
    <3>4. o.value \subseteq Contribution
      BY <3>1 DEF IInv, TypeOK
    <3> QED BY <3>1, <3>2, <3>3, <3>4 DEF Exchanges
  <2>2. ASSUME NEW o \in Returns({"all_reduce", "all_gather"}),
               NEW q \in Returns({"all_reduce", "all_gather"}), o.tag = q.tag,
               NEW x \in o.value
        PROVE  x \in q.value
    <3>1. {z.slot : z \in o.value} = {z.slot : z \in q.value}
      BY <2>1, <2>2
    <3>2. PICK y \in q.value : y.slot = x.slot
      BY <2>2, <3>1
    <3>3. Backed(o.tag, x) /\ Backed(o.tag, y) /\ o.tag.op # "scatter"
      BY <2>1, <2>2, <3>2
    <3>4. x = y
      BY <2>1, <2>2, <3>2, <3>3, BackedOnce
    <3> QED BY <3>2, <3>4
  <2> QED BY <2>2
<1> QED BY <1>1, Invariance, PTL

\* What a collective returns has one contribution for each slot it needs, and
\* the rank the slot names made it.
THEOREM Contributions == Spec => []EachContributesOnce
<1>1. IInv => EachContributesOnce
  <2> SUFFICES ASSUME IInv, NEW o \in Returns(Gathering)
               PROVE  LET needed == NeedSlots(CollectiveOf(o), RankOf[o.task]) IN
                      /\ \A s \in needed :
                            \E x \in o.value :
                                x.slot = s /\ x.val.slot = s /\ RankOf[x.val.task] = s[1]
                      /\ \A x, y \in o.value : x.slot = y.slot => x = y
                      /\ {x.slot : x \in o.value} = needed
    BY DEF EachContributesOnce
  <2>1. /\ {x.slot : x \in o.value} = NeedSlots(CollectiveOf(o), RankOf[o.task])
        /\ \A x \in o.value : Backed(o.tag, x)
        /\ o.tag.op # "scatter"
        /\ o.value \subseteq Contribution
    BY DEF IInv, TypeOK, ResultsAreStored, Returns, Gathering
  <2>2. ASSUME NEW x \in o.value
        PROVE  x.val.slot = x.slot /\ RankOf[x.val.task] = x.slot[1]
    <3> DEFINE e == [key |-> [tag |-> o.tag, slot |-> x.slot], val |-> x.val]
    <3>1. e \in Sent
      BY <2>1 DEF Backed, Sent
    <3>2. e.val = x.val /\ e.key.slot = x.slot
      OBVIOUS
    <3> HIDE DEF e
    <3> QED BY <3>1, <3>2 DEF IInv, KeysAreOwned
  <2>3. \A x, y \in o.value : x.slot = y.slot => x = y
    BY <2>1, BackedOnce
  <2> QED BY <2>1, <2>2, <2>3
<1> QED BY <1>1, Invariance, PTL

\* A rank that left a barrier, or another exchange, left it after every member
\* of the group had taken the same number, that is, had entered it.
THEOREM BarrierSafety == Spec => []NobodyLeavesEarly
<1>1. IInv => NobodyLeavesEarly
  BY DEF IInv
<1> QED BY <1>1, Invariance, PTL

\* The key of a collective, once there, keeps its value for good.
THEOREM WriteOnce == Spec => KeysAreWrittenOnce
<1>1. IInv /\ [Next]_vars
        => [\A e \in store : e.key.tag.op # "scatter" => e \in store']_vars
  BY StoreGrows
<1> QED BY <1>1, Invariance, PTL DEF Spec, KeysAreWrittenOnce
-----------------------------------------------------------------------------
(* Turns.                                                                   *)

\* The collectives of a group before the n-th of a program.
Count(t, g, n) == Cardinality({j \in 1 .. n - 1 : Program[t][j].ns = g})

\* The groups in which a task takes part.
PartOf(r, g) == r \in Members[g] /\ Cardinality(Members[g]) > 1
Uses(t) == {g \in Groups : /\ PartOf(RankOf[t], g)
                           /\ \E i \in DOMAIN Program[t] : Program[t][i].ns = g}

\* A task's number is its turn, and the counter of a group is where the one
\* task that uses it is.
TurnOK(t) ==
    /\ at[t] \in Nat \ {0}
    /\ phase[t] \in {"connect", "run"} => TakesPart(t)
    /\ phase[t] = "connect" /\ Coll(t).kind \notin Exchanges => ~Tagged(t)
    /\ Tagged(t) => mine[t] = Turn(t, at[t])
    /\ phase[t] # "halted" =>
          \A g \in Uses(t) : seqs[RankOf[t]][g] =
              Count(t, g, at[t]) + IF Tagged(t) /\ Coll(t).ns = g THEN 1 ELSE 0

Turns == \A t \in Tasks : TurnOK(t)

\* An entry is under the turn of the collective that it was posted for.
EntryInTurn(e) ==
    /\ e.val.at \in DOMAIN Program[e.val.task]
    /\ e.key.tag.ns = Program[e.val.task][e.val.at].ns
    /\ e.key.tag.seq = Turn(e.val.task, e.val.at)
EntriesInTurn == \A e \in store \union late : EntryInTurn(e)

\* What was read, and what was returned, was posted for the same turn.
Meets(v, t, i) ==
    /\ v.at \in DOMAIN Program[v.task]
    /\ Program[v.task][v.at].ns = Program[t][i].ns
    /\ Turn(v.task, v.at) = Turn(t, i)
HandInTurn == \A t \in Tasks : phase[t] = "run" => \A x \in got[t] : Meets(x.val, t, at[t])
ResultsInTurn ==
    \A o \in results : /\ o.at \in DOMAIN Program[o.task]
                       /\ \A x \in o.value : Meets(x.val, o.task, o.at)

CInv == Turns /\ EntriesInTurn /\ HandInTurn /\ ResultsInTurn

LEMMA CountFacts ==
    ASSUME NEW t, NEW g, NEW n \in Nat \ {0}
    PROVE  /\ Count(t, g, 1) = 0 /\ Count(t, g, n) \in Nat
           /\ Count(t, g, n + 1) = Count(t, g, n) + IF Program[t][n].ns = g THEN 1 ELSE 0
<1> DEFINE S(m) == {j \in 1 .. m - 1 : Program[t][j].ns = g}
<1>1. S(1) = {}
  OBVIOUS
<1>2. IsFiniteSet(S(n))
  <2>1. n - 1 \in Int /\ S(n) \in SUBSET (1 .. n - 1)
    OBVIOUS
  <2>2. IsFiniteSet(1 .. n - 1)
    BY <2>1, FS_Interval
  <2> HIDE DEF S
  <2> QED BY <2>1, <2>2, FS_Subset
<1>3. n \notin S(n)
  OBVIOUS
<1>4. IF Program[t][n].ns = g THEN S(n + 1) = S(n) \union {n} ELSE S(n + 1) = S(n)
  OBVIOUS
<1>5. /\ Count(t, g, 1) = Cardinality(S(1)) /\ Count(t, g, n) = Cardinality(S(n))
      /\ Count(t, g, n + 1) = Cardinality(S(n + 1))
  BY DEF Count
<1> HIDE DEF S
<1>6. Cardinality(S(1)) = 0 /\ Cardinality(S(n)) \in Nat
  BY <1>1, <1>2, FS_EmptySet, FS_CardinalityType
<1>7. Cardinality(S(n) \union {n}) = Cardinality(S(n)) + 1
  BY <1>2, <1>3, FS_AddElement
<1>8. Count(t, g, 1) = 0 /\ Count(t, g, n) \in Nat
  BY <1>5, <1>6
<1>9. CASE Program[t][n].ns = g
  <2>1. S(n + 1) = S(n) \union {n}
    BY <1>4, <1>9
  <2>2. Count(t, g, n + 1) = Count(t, g, n) + 1
    BY <1>5, <1>7, <2>1
  <2> QED BY <1>8, <1>9, <2>2
<1>10. CASE Program[t][n].ns # g
  <2>1. S(n + 1) = S(n)
    BY <1>4, <1>10
  <2>2. Count(t, g, n + 1) = Count(t, g, n)
    BY <1>5, <2>1
  <2> QED BY <1>8, <1>10, <2>2
<1> QED BY <1>9, <1>10

\* A task inside a collective is in its program and takes its turn in a group
\* that it uses.
LEMMA InsideFacts ==
    ASSUME NEW t \in Tasks, HasNext(t), TakesPart(t)
    PROVE  /\ Coll(t).ns \in Uses(t) /\ Coll(t).ns \in Groups /\ RankOf[t] \in Ranks
           /\ Turn(t, at[t]) = Count(t, Coll(t).ns, at[t])
<1>1. Program[t] \in Seq(Collective) /\ at[t] \in DOMAIN Program[t]
  BY EngineAssumption DEF HasNext
<1>2. Coll(t).ns \in Groups /\ RankOf[t] \in Ranks
  BY CollectiveInHand
<1> QED BY <1>1, <1>2 DEF TakesPart, IsMember, Uses, PartOf, Coll, Turn, Count

LEMMA InitTurns == Init => CInv
<1> SUFFICES ASSUME Init PROVE CInv
  OBVIOUS
<1>1. ASSUME NEW t \in Tasks PROVE TurnOK(t)
  <2>1. at[t] = 1 /\ phase[t] = "ready" /\ mine[t] = NoSeq
    BY DEF Init
  <2>2. \A g \in Groups : seqs[RankOf[t]][g] = 0
    BY EngineAssumption DEF Init
  <2>3. \A g : Count(t, g, 1) = 0
    BY CountFacts
  <2>4. \A g \in Uses(t) : seqs[RankOf[t]][g] = 0
    BY <2>2 DEF Uses
  <2> QED BY <2>1, <2>3, <2>4 DEF TurnOK, Tagged
<1>2. EntriesInTurn /\ HandInTurn /\ ResultsInTurn
  BY DEF Init, EntriesInTurn, HandInTurn, ResultsInTurn
<1> QED BY <1>1, <1>2 DEF CInv, Turns

-----------------------------------------------------------------------------
(* Turns are kept.                                                          *)

\* A task that keeps the contract stops at an error.
LEMMA ErrorStops ==
    ASSUME KeepsContract, TypeOK, NEW t \in Tasks, Error(t)
    PROVE  /\ phase'[t] = "halted" /\ at' = at
           /\ \A u \in Tasks \ {t} : phase'[u] = phase[u]
BY DEF KeepsContract, TypeOK, Error

\* What a step of one task does to the numbers of others: nothing, but for the
\* counter of a group of its own.
LEMMA OthersUntouched ==
    ASSUME KeepsContract, TypeOK, NEW u \in Tasks, TaskStep(u)
    PROVE  /\ \A t \in Tasks \ {u} : at'[t] = at[t] /\ phase'[t] = phase[t] /\ mine'[t] = mine[t]
           /\ \/ seqs' = seqs
              \/ /\ HasNext(u)
                 /\ seqs' = [seqs EXCEPT ![RankOf[u]][Coll(u).ns] = @ + 1]
<1> USE DEF TypeOK
<1>1. CASE PassOver(u)
  BY <1>1 DEF PassOver
<1>2. CASE Begin(u)
  BY <1>2 DEF Begin, NextTag, KeepTag, Issues
<1>3. CASE Connect(u)
  BY <1>3 DEF Connect, NextTag, KeepTag
<1>4. CASE Reject(u) \/ ConnectTimeout(u) \/ PostError(u) \/ PollTimeout(u)
  <2>1. Error(u) /\ seqs' = seqs /\ (mine' = mine \/ mine' = [mine EXCEPT ![u] = NoSeq])
    BY <1>4 DEF Reject, ConnectTimeout, PostError, PollTimeout
  <2> QED BY <2>1, ErrorStops
<1>5. CASE Post(u) \/ Poll(u)
  BY <1>5 DEF Post, Poll
<1>6. CASE Finish(u)
  BY <1>6 DEF Finish
<1> QED BY <1>1, <1>2, <1>3, <1>4, <1>5, <1>6 DEF TaskStep

LEMMA OthersKeepTurns ==
    ASSUME KeepsContract, TypeOK, NEW u \in Tasks, TaskStep(u), NEW t \in Tasks \ {u}, TurnOK(t)
    PROVE  TurnOK(t)'
<1>1. at'[t] = at[t] /\ phase'[t] = phase[t] /\ mine'[t] = mine[t]
  BY OthersUntouched
<1>2. \A g \in Uses(t) : seqs'[RankOf[t]][g] = seqs[RankOf[t]][g]
  <2>1. CASE seqs' = seqs
    BY <2>1
  <2>2. CASE /\ HasNext(u)
             /\ seqs' = [seqs EXCEPT ![RankOf[u]][Coll(u).ns] = @ + 1]
    <3>1. at[u] \in DOMAIN Program[u]
      BY <2>2, EngineAssumption DEF HasNext
    <3>2. RankOf[u] = RankOf[t] => Coll(u).ns \notin Uses(t)
      BY <3>1 DEF KeepsContract, Uses, Coll
    <3>3. RankOf[t] \in Ranks /\ Uses(t) \subseteq Groups
      BY EngineAssumption DEF Uses
    <3> QED BY <2>2, <3>2, <3>3 DEF TypeOK
  <2> QED BY <2>1, <2>2, OthersUntouched
<1>3. Coll(t)' = Coll(t) /\ TakesPart(t)' = TakesPart(t) /\ Tagged(t)' = Tagged(t)
  BY <1>1 DEF Coll, TakesPart, IsMember, Tagged
<1> QED BY <1>1, <1>2, <1>3 DEF TurnOK

\* A task takes the number of its turn.
LEMMA TakesItsTurn ==
    ASSUME TypeOK, NEW t \in Tasks, TurnOK(t), HasNext(t), TakesPart(t), ~Tagged(t),
           phase[t] \in {"ready", "connect"}, phase'[t] \in {"connect", "run"},
           phase'[t] = "connect" => Coll(t).kind \in Exchanges,
           NextTag(t), at' = at
    PROVE  TurnOK(t)'
<1> DEFINE g == Coll(t).ns
           r == RankOf[t]
<1>1. g \in Uses(t) /\ g \in Groups /\ r \in Ranks /\ Turn(t, at[t]) = Count(t, g, at[t])
  BY InsideFacts
<1>2. seqs[r][g] = Count(t, g, at[t]) /\ Count(t, g, at[t]) \in Nat
  BY <1>1, CountFacts DEF TurnOK
<1>3. mine'[t] = seqs[r][g] /\ seqs' = [seqs EXCEPT ![r][g] = @ + 1]
  BY DEF NextTag, TypeOK
<1>4. Tagged(t)' /\ mine'[t] = Turn(t, at[t])
  BY <1>1, <1>2, <1>3 DEF Tagged, NoSeq
<1>5. seqs'[r][g] = Count(t, g, at[t]) + 1
  BY <1>1, <1>2, <1>3 DEF TypeOK
<1>6. \A h \in Uses(t) \ {g} : seqs'[r][h] = Count(t, h, at[t])
  <2> TAKE h \in Uses(t) \ {g}
  <2>1. seqs[r][h] = Count(t, h, at[t]) /\ Count(t, h, at[t]) \in Nat
    BY CountFacts DEF TurnOK
  <2>2. h \in Groups
    BY DEF Uses
  <2> QED BY <1>1, <1>3, <2>1, <2>2 DEF TypeOK
<1>7. /\ at'[t] = at[t] /\ Coll(t)' = Coll(t) /\ TakesPart(t)' = TakesPart(t)
      /\ \A h : Count(t, h, at[t]) + 0 = Count(t, h, at[t])
  BY CountFacts DEF Coll, TakesPart, IsMember, TurnOK
<1> QED BY <1>4, <1>5, <1>6, <1>7 DEF TurnOK

\* A task that stays in its collective and keeps its number, or stops.
LEMMA KeepsItsTurn ==
    ASSUME NEW t \in Tasks, TurnOK(t), seqs' = seqs, at' = at,
           \/ mine' = mine /\ phase'[t] = phase[t]
           \/ ~Tagged(t)' /\ phase'[t] = "halted"
    PROVE  TurnOK(t)'
<1>1. Coll(t)' = Coll(t) /\ TakesPart(t)' = TakesPart(t)
  BY DEF Coll, TakesPart, IsMember
<1> QED BY <1>1 DEF TurnOK, Tagged

\* A task that goes on to its next collective, having taken its turn in this
\* one, or not taking part.
LEMMA PassesItsTurn ==
    ASSUME NEW t \in Tasks, TurnOK(t), HasNext(t), phase[t] # "halted",
           Tagged(t) <=> TakesPart(t),
           ~Tagged(t)', phase'[t] = "ready", at'[t] = at[t] + 1, seqs' = seqs
    PROVE  TurnOK(t)'
<1>1. at[t] \in Nat \ {0}
  BY DEF TurnOK
<1>2. ASSUME NEW g \in Uses(t) PROVE seqs[RankOf[t]][g] = Count(t, g, at[t] + 1) + 0
  <2>1. /\ Count(t, g, at[t]) \in Nat
        /\ Count(t, g, at[t] + 1) = Count(t, g, at[t]) + IF Coll(t).ns = g THEN 1 ELSE 0
    BY <1>1, CountFacts DEF Coll
  <2>2. seqs[RankOf[t]][g] = Count(t, g, at[t]) + IF Tagged(t) /\ Coll(t).ns = g THEN 1 ELSE 0
    BY DEF TurnOK
  <2>3. Coll(t).ns = g => TakesPart(t)
    BY DEF Uses, PartOf, TakesPart, IsMember
  <2> QED BY <2>1, <2>2, <2>3
<1> QED BY <1>1, <1>2 DEF TurnOK

LEMMA OwnStepKeepsTurns ==
    ASSUME KeepsContract, IInv, NEW t \in Tasks, TaskStep(t), TurnOK(t)
    PROVE  TurnOK(t)'
<1>0. TypeOK /\ (Tagged(t) => phase[t] \in {"connect", "run"})
  BY DEF IInv, TaggedIsInside
<1>1. CASE PassOver(t)
  <2>1. /\ HasNext(t) /\ phase[t] = "ready" /\ ~TakesPart(t) /\ ~Tagged(t)
        /\ at'[t] = at[t] + 1 /\ seqs' = seqs /\ mine' = mine /\ phase' = phase
    BY <1>0, <1>1 DEF PassOver, Issues, TypeOK
  <2> QED BY <2>1, PassesItsTurn DEF Tagged
<1>2. CASE Begin(t)
  <2>1. /\ HasNext(t) /\ phase[t] = "ready" /\ TakesPart(t) /\ ~Tagged(t)
        /\ phase'[t] = "connect" /\ at' = at
    BY <1>0, <1>2 DEF Begin, Issues, TypeOK
  <2>2. CASE TagFirst(Coll(t))
    BY <1>0, <1>2, <2>1, <2>2, TakesItsTurn DEF Begin, TagFirst
  <2>3. CASE ~TagFirst(Coll(t))
    <3>1. mine' = mine /\ seqs' = seqs
      BY <1>2, <2>3 DEF Begin, KeepTag
    <3>2. Coll(t)' = Coll(t) /\ TakesPart(t)' = TakesPart(t)
      BY <2>1 DEF Coll, TakesPart, IsMember
    <3> QED BY <2>1, <3>1, <3>2 DEF TurnOK, Tagged
  <2> QED BY <2>2, <2>3
<1>3. CASE Connect(t)
  <2>1. /\ phase[t] = "connect" /\ phase'[t] = "run" /\ at' = at /\ HasNext(t) /\ TakesPart(t)
    BY <1>0, <1>3 DEF Connect, TypeOK, TurnOK
  <2>2. CASE TagFirst(Coll(t))
    <3>1. mine' = mine /\ seqs' = seqs
      BY <1>3, <2>2 DEF Connect, KeepTag
    <3>2. Coll(t)' = Coll(t) /\ TakesPart(t)' = TakesPart(t)
      BY <2>1 DEF Coll, TakesPart, IsMember
    <3> QED BY <2>1, <3>1, <3>2 DEF TurnOK, Tagged
  <2>3. CASE ~TagFirst(Coll(t))
    <3>1. ~Tagged(t)
      BY <2>1, <2>3 DEF TurnOK, TagFirst
    <3> QED BY <1>0, <1>3, <2>1, <2>3, <3>1, TakesItsTurn DEF Connect
  <2> QED BY <2>2, <2>3
<1>4. CASE Reject(t) \/ ConnectTimeout(t) \/ PostError(t) \/ PollTimeout(t)
  <2>1. /\ Error(t) /\ seqs' = seqs
        /\ (mine' = mine /\ phase[t] = "ready") \/ mine' = [mine EXCEPT ![t] = NoSeq]
    BY <1>4 DEF Reject, ConnectTimeout, PostError, PollTimeout, Issues
  <2>2. ~Tagged(t)'
    BY <1>0, <2>1 DEF Tagged, TypeOK
  <2> QED BY <1>0, <2>1, <2>2, ErrorStops, KeepsItsTurn
<1>5. CASE Post(t) \/ Poll(t)
  BY <1>5, KeepsItsTurn DEF Post, Poll
<1>6. CASE Finish(t)
  <2>1. /\ phase[t] = "run" /\ HasNext(t) /\ Tagged(t) /\ TakesPart(t)
        /\ ~Tagged(t)' /\ phase'[t] = "ready" /\ at'[t] = at[t] + 1 /\ seqs' = seqs
    BY <1>0, <1>6 DEF Finish, TypeOK, TurnOK, Tagged, NoSeq
  <2> QED BY <2>1, PassesItsTurn
<1> QED BY <1>1, <1>2, <1>3, <1>4, <1>5, <1>6 DEF TaskStep

LEMMA TurnsStep ==
    ASSUME KeepsContract, IInv, Turns, [Next]_vars
    PROVE  Turns'
<1> SUFFICES ASSUME NEW t \in Tasks PROVE TurnOK(t)'
  BY DEF Turns
<1>0. TurnOK(t) /\ TypeOK
  BY DEF Turns, IInv
<1>1. CASE \E u \in Tasks : TaskStep(u)
  BY <1>0, <1>1, OwnStepKeepsTurns, OthersKeepTurns
<1>2. CASE UNCHANGED vars \/ \E e \in late : LateSet(e)
  BY <1>0, <1>2, KeepsItsTurn DEF vars, LateSet
<1>3. CASE \E r \in Ranks : Crash(r)
  <2>1. /\ seqs' = seqs /\ at' = at
        /\ \/ ~Tagged(t)' /\ phase'[t] = "halted"
           \/ mine'[t] = mine[t] /\ phase'[t] = phase[t]
    BY <1>3 DEF Crash, Tagged
  <2>2. Coll(t)' = Coll(t) /\ TakesPart(t)' = TakesPart(t)
    BY <2>1 DEF Coll, TakesPart, IsMember
  <2> QED BY <1>0, <2>1, <2>2 DEF TurnOK, Tagged
<1> QED BY <1>1, <1>2, <1>3 DEF Next

-----------------------------------------------------------------------------
(* Entries, what is in hand and results.                                    *)

\* What a task posts is under its turn.
LEMMA PostsInTurn ==
    ASSUME IInv, Turns, NEW t \in Tasks, phase[t] = "run", NEW s
    PROVE  EntryInTurn(EntryOf(t, s))
<1>1. HasNext(t) /\ mine[t] \in Nat /\ mine[t] = Turn(t, at[t])
  BY DEF IInv, TypeOK, Turns, TurnOK, Tagged, NoSeq
<1>2. at[t] \in DOMAIN Program[t]
  BY <1>1, EngineAssumption DEF HasNext
<1>3. /\ EntryOf(t, s).val.task = t /\ EntryOf(t, s).val.at = at[t]
      /\ EntryOf(t, s).key.tag.ns = Coll(t).ns /\ EntryOf(t, s).key.tag.seq = mine[t]
  BY DEF EntryOf, KeyOf, TagOf, PayloadOf
<1> QED BY <1>1, <1>2, <1>3 DEF EntryInTurn, Coll

LEMMA EntriesStep ==
    ASSUME IInv, Turns, EntriesInTurn, [Next]_vars
    PROVE  EntriesInTurn'
<1> SUFFICES ASSUME NEW e \in store' \union late' PROVE EntryInTurn(e)
  BY DEF EntriesInTurn, EntryInTurn
<1>1. CASE e \in store \union late
  BY <1>1 DEF EntriesInTurn
<1>2. CASE e \notin store \union late
  <2>1. PICK t \in Tasks : Post(t) \/ PostError(t)
    BY <1>2 DEF Next, TaskStep, vars, PassOver, Begin, Reject, Connect, ConnectTimeout, Poll,
                PollTimeout, Finish, LateSet, Crash, Put
  <2>2. phase[t] = "run" /\ \E s : e = EntryOf(t, s)
    BY <1>2, <2>1 DEF Post, PostError, Put
  <2> QED BY <2>2, PostsInTurn
<1> QED BY <1>1, <1>2

\* What a task polls was posted for its turn.
LEMMA PollsInTurn ==
    ASSUME IInv, Turns, EntriesInTurn, NEW t \in Tasks, phase[t] = "run",
           NEW e \in store, NEW s, e.key = KeyOf(t, s)
    PROVE  Meets(e.val, t, at[t])
<1>1. mine[t] = Turn(t, at[t])
  BY DEF IInv, TypeOK, Turns, TurnOK, Tagged, NoSeq
<1>2. e.key.tag.ns = Coll(t).ns /\ e.key.tag.seq = mine[t]
  BY DEF KeyOf, TagOf
<1> QED BY <1>1, <1>2 DEF EntriesInTurn, EntryInTurn, Meets, Coll

LEMMA HandTurnStep ==
    ASSUME IInv, Turns, EntriesInTurn, HandInTurn, [Next]_vars
    PROVE  HandInTurn'
<1> SUFFICES ASSUME NEW t \in Tasks, phase'[t] = "run", NEW x \in got'[t]
             PROVE  Meets(x.val, t, at'[t])
  BY DEF HandInTurn, Meets
<1>0. TypeOK /\ (phase[t] \in {"ready", "connect"} => got[t] = {})
  BY DEF IInv, TaggedIsInside
<1>1. CASE got'[t] = got[t] /\ at'[t] = at[t]
  <2>1. phase[t] = "run"
    <3>1. phase[t] = "connect" => FALSE
      BY <1>0, <1>1
    <3>2. phase[t] \notin {"ready", "halted"}
      <4>1. ASSUME NEW u \in Tasks, Error(u), at'[t] = at[t]
            PROVE  phase'[t] = phase[t] \/ phase'[t] # "run"
        BY <1>0, <4>1 DEF Error, TypeOK
      <4> QED BY <1>0, <1>1, <4>1
          DEF TypeOK, Next, TaskStep, vars, PassOver, Begin, Reject, Connect, ConnectTimeout,
              Post, PostError, Poll, PollTimeout, Finish, LateSet, Crash
    <3> QED BY <1>0, <3>1, <3>2 DEF TypeOK
  <2> QED BY <1>1, <2>1 DEF HandInTurn
<1>2. CASE ~(got'[t] = got[t] /\ at'[t] = at[t])
  <2>1. Poll(t)
    <3>1. ASSUME NEW u \in Tasks, Error(u)
          PROVE  (u = t => phase'[t] # "run") /\ (u # t => got'[t] = got[t] /\ at'[t] = at[t])
      BY <1>0, <3>1 DEF Error, TypeOK
    <3> QED BY <1>0, <1>2, <3>1
        DEF TypeOK, Next, TaskStep, vars, PassOver, Begin, Reject, Connect, ConnectTimeout,
            Post, PostError, Poll, PollTimeout, Finish, LateSet, Crash, Issues
  <2>2. phase[t] = "run" /\ at' = at
    BY <2>1 DEF Poll, Polls
  <2>3. PICK s \in First(ToPoll(t)), e \in store :
          /\ e.key = KeyOf(t, s)
          /\ got' = [got EXCEPT ![t] = @ \union {[slot |-> s, val |-> e.val]}]
    BY <2>1 DEF Poll
  <2>4. x \in got[t] \/ x.val = e.val
    BY <1>0, <2>3 DEF TypeOK
  <2> QED BY <2>2, <2>3, <2>4, PollsInTurn DEF HandInTurn
<1> QED BY <1>1, <1>2

LEMMA ResultsTurnStep ==
    ASSUME IInv, HandInTurn, ResultsInTurn, [Next]_vars
    PROVE  ResultsInTurn'
<1> SUFFICES ASSUME NEW o \in results'
             PROVE  /\ o.at \in DOMAIN Program[o.task]
                    /\ \A x \in o.value : Meets(x.val, o.task, o.at)
  BY DEF ResultsInTurn, Meets
<1>1. CASE o \in results
  BY <1>1 DEF ResultsInTurn
<1>2. CASE o \notin results
  <2>1. PICK t \in Tasks : Finish(t)
    BY <1>2 DEF Next, TaskStep, vars, PassOver, Begin, Reject, Connect, ConnectTimeout, Post,
                PostError, Poll, PollTimeout, LateSet, Crash, Error
  <2>2. o = Result(t) /\ phase[t] = "run" /\ HasNext(t)
    BY <1>2, <2>1 DEF Finish, IInv, TypeOK
  <2>3. o.task = t /\ o.at = at[t] /\ o.value = Returned(t)
    BY <2>2 DEF Result
  <2>4. at[t] \in DOMAIN Program[t]
    BY <2>2, EngineAssumption DEF HasNext
  <2>5. ASSUME NEW x \in Returned(t) PROVE Meets(x.val, t, at[t])
    <3>1. x \in got[t] \/ \E s : x = [slot |-> s, val |-> PayloadOf(t, s)]
      BY <2>5 DEF Returned
    <3>2. CASE x \in got[t]
      BY <2>2, <3>2 DEF HandInTurn
    <3>3. CASE \E s : x = [slot |-> s, val |-> PayloadOf(t, s)]
      <4>1. x.val.task = t /\ x.val.at = at[t]
        BY <3>3 DEF PayloadOf
      <4> QED BY <2>4, <4>1 DEF Meets
    <3> QED BY <3>1, <3>2, <3>3
  <2> QED BY <2>3, <2>4, <2>5
<1> QED BY <1>1, <1>2

-----------------------------------------------------------------------------
(* The theorem.                                                             *)

\* Under the SPMD contract of tcp_backend.rs no collective returns what was
\* contributed to another buffer, whatever fails or dies, for any ranks, tasks
\* and groups, scatter included.
THEOREM ContractKeepsBuffers ==
    ASSUME KeepsContract
    PROVE  Spec => []BuffersMatch
<1>1. IInv /\ CInv /\ [Next]_vars => CInv'
  BY TurnsStep, EntriesStep, HandTurnStep, ResultsTurnStep DEF CInv
<1>2. Spec => []CInv
  BY <1>1, InitTurns, Invariance, PTL DEF Spec
<1>3. TypeOK /\ CInv => BuffersMatch
  <2> SUFFICES ASSUME TypeOK, CInv, NEW o \in results, NEW x \in o.value
               PROVE  Buffer(x.val.task, x.val.at) = Buffer(o.task, o.at)
    BY DEF BuffersMatch, Returns
  <2>1. o.task \in Tasks /\ x.val.task \in Tasks
    BY DEF TypeOK, Contribution, Payload
  <2>2. Meets(x.val, o.task, o.at) /\ o.at \in DOMAIN Program[o.task]
    BY DEF CInv, ResultsInTurn
  <2> QED BY <2>1, <2>2 DEF Meets, KeepsContract
<1> QED BY <1>2, <1>3, TypeCorrect, PTL
=============================================================================
