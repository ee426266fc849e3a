--------------------------- MODULE TcpStoreProofs ---------------------------
(***************************************************************************)
(* Proofs about TcpStore, for any keys, values, connections and requests:  *)
(* types, the registration of sleepers, and that the store implements the  *)
(* atomic KVStore.                                                         *)
(***************************************************************************)
EXTENDS TcpStore, TLAPS

-----------------------------------------------------------------------------
(* The inductive invariant.                                                 *)

Busy == {"queued", "serving", "register", "park", "parked"}
Over == {"notify", "replied"}

\* A task is none, on its way, or has a result.
BusyTask == [st : Busy, req : Requests, left : Seq(Keys), count : Nat]
OverTask(t) ==
    \E s, r, x : s \in Over /\ r \in Requests /\ t = [st |-> s, req |-> r, res |-> x]
TaskOK(t) == t = NoTask \/ t \in BusyTask \/ OverTask(t)

TasksOK == task = [c \in Conns |-> task[c]] /\ \A c \in Conns : TaskOK(task[c])

IInv == TypeOK /\ TasksOK /\ SleepersAreRegistered

LEMMA RequestFacts ==
    ASSUME NEW r \in Requests
    PROVE  /\ r.keys \in Seq(Keys)
           /\ r.op \notin {"wait", "num_keys"} => Len(r.keys) = 1 /\ r.keys[1] \in Keys
           /\ r.op \in {"set", "set_with_expiry", "compare_and_swap"} => r.val \in Values
           /\ r.op = "add" => r.val \in Words
BY RequestAssumption

\* The three kinds of task, told apart by st.
LEMMA Kinds ==
    ASSUME NEW t, TaskOK(t)
    PROVE  /\ t.st \in {"none"} \union Busy \union Over
           /\ t.st = "none" => t = NoTask
           /\ t.st \in Busy => t \in BusyTask
           /\ t.st \in Over => OverTask(t)
           /\ t.st # "none" => t.req \in Requests
<1>1. CASE t = NoTask
  BY <1>1 DEF NoTask, Busy, Over
<1>2. CASE t \in BusyTask
  BY <1>2 DEF BusyTask, Busy, Over
<1>3. CASE OverTask(t)
  <2>1. PICK s, r, x :
          s \in Over /\ r \in Requests /\ t = [st |-> s, req |-> r, res |-> x]
    BY <1>3 DEF OverTask
  <2>2. t.st = s /\ t.req = r /\ s \in Over /\ r \in Requests
    BY <2>1
  <2> QED BY <1>3, <2>2 DEF Busy, Over
<1> QED BY <1>1, <1>2, <1>3 DEF TaskOK

LEMMA TaskKinds ==
    ASSUME TasksOK, NEW c \in Conns
    PROVE  /\ task[c].st \in {"none"} \union Busy \union Over
           /\ task[c].st = "none" => task[c] = NoTask
           /\ task[c].st \in Busy => task[c] \in BusyTask
           /\ task[c].st \in Over => OverTask(task[c])
           /\ task[c].st # "none" => task[c].req \in Requests
BY Kinds DEF TasksOK

\* A step that replaces one task by another of these kinds.
LEMMA TaskStep ==
    ASSUME TasksOK, NEW c \in Conns, NEW t, TaskOK(t), task' = [task EXCEPT ![c] = t]
    PROVE  TasksOK' /\ task'[c] = t /\ \A d \in Conns : d # c => task'[d] = task[d]
<1>1. task' = [d \in Conns |-> IF d = c THEN t ELSE task[d]]
  BY DEF TasksOK
<1>2. task'[c] = t /\ \A d \in Conns : d # c => task'[d] = task[d]
  BY <1>1
<1>3. task' = [d \in Conns |-> task'[d]]
  BY <1>1
<1> QED BY <1>2, <1>3 DEF TasksOK

LEMMA TaskFields ==
    ASSUME TasksOK, NEW c \in Conns, task[c].st \in Busy
    PROVE  /\ task[c] \in BusyTask
           /\ task[c].req \in Requests /\ task[c].left \in Seq(Keys) /\ task[c].count \in Nat
BY TaskKinds DEF BusyTask

\* The updates of a task, each with the record it makes.
LEMMA MoveFacts ==
    ASSUME TasksOK, NEW c \in Conns, task[c].st \in Busy, NEW s \in Busy,
           task' = [task EXCEPT ![c].st = s]
    PROVE  /\ TasksOK' /\ \A d \in Conns : d # c => task'[d] = task[d]
           /\ task'[c] = [st |-> s, req |-> task[c].req, left |-> task[c].left,
                          count |-> task[c].count]
<1> DEFINE t == [st |-> s, req |-> task[c].req, left |-> task[c].left, count |-> task[c].count]
<1>1. task' = [task EXCEPT ![c] = [task[c] EXCEPT !.st = s]]
  BY DEF TasksOK
<1>2. [task[c] EXCEPT !.st = s] = t
  BY TaskFields DEF BusyTask
<1>3. TaskOK(t)
  BY TaskFields DEF TaskOK, BusyTask
<1> HIDE DEF t
<1>4. task' = [task EXCEPT ![c] = t]
  BY <1>1, <1>2
<1>5. TasksOK' /\ task'[c] = t /\ \A d \in Conns : d # c => task'[d] = task[d]
  BY <1>3, <1>4, TaskStep
<1> QED BY <1>5 DEF t

LEMMA NextKeyFacts ==
    ASSUME TasksOK, NEW c \in Conns, task[c].st = "serving", NEW l \in Seq(Keys), NEW n \in Nat,
           \/ task' = [task EXCEPT ![c].left = l] /\ n = task[c].count
           \/ task' = [task EXCEPT ![c].left = l, ![c].count = n]
    PROVE  /\ TasksOK' /\ \A d \in Conns : d # c => task'[d] = task[d]
           /\ task'[c] = [st |-> "serving", req |-> task[c].req, left |-> l, count |-> n]
<1> DEFINE t == [st |-> "serving", req |-> task[c].req, left |-> l, count |-> n]
           u == [task[c] EXCEPT !.left = l]
<1>1. task[c].req \in Requests /\ task[c].count \in Nat /\ task[c] \in BusyTask
  BY TaskFields DEF Busy
<1>2. /\ u \in BusyTask /\ u.st = "serving" /\ u.req = task[c].req /\ u.left = l
      /\ u.count = task[c].count
  BY <1>1 DEF BusyTask
<1>3. task' = [task EXCEPT ![c] = t]
  <2>1. CASE task' = [task EXCEPT ![c].left = l] /\ n = task[c].count
    <3>1. task' = [task EXCEPT ![c] = u]
      BY <2>1 DEF TasksOK
    <3> HIDE DEF u
    <3>2. u = t
      BY <1>2, <2>1 DEF BusyTask
    <3> QED BY <3>1, <3>2
  <2>2. CASE task' = [task EXCEPT ![c].left = l, ![c].count = n]
    <3>1. task' = [task EXCEPT ![c] = [u EXCEPT !.count = n]]
      BY <2>2 DEF TasksOK
    <3> HIDE DEF u
    <3>2. [u EXCEPT !.count = n] = t
      BY <1>2 DEF BusyTask
    <3> QED BY <3>1, <3>2
  <2> QED BY <2>1, <2>2
<1>4. TaskOK(t)
  BY <1>1 DEF TaskOK, BusyTask, Busy
<1> HIDE DEF t
<1>5. TasksOK' /\ task'[c] = t /\ \A d \in Conns : d # c => task'[d] = task[d]
  BY <1>3, <1>4, TaskStep
<1> QED BY <1>5 DEF t

LEMMA ReplyFacts ==
    ASSUME TasksOK, NEW c \in Conns, task[c].st \in Busy, NEW res, NEW s \in Over,
           task' = [task EXCEPT ![c] = [st |-> s, req |-> @.req, res |-> res]]
    PROVE  /\ TasksOK' /\ \A d \in Conns : d # c => task'[d] = task[d]
           /\ task'[c] = [st |-> s, req |-> task[c].req, res |-> res]
<1> DEFINE t == [st |-> s, req |-> task[c].req, res |-> res]
<1>1. task' = [task EXCEPT ![c] = t]
  BY DEF TasksOK
<1>2. TaskOK(t)
  BY TaskFields DEF TaskOK, OverTask
<1> HIDE DEF t
<1>3. TasksOK' /\ task'[c] = t /\ \A d \in Conns : d # c => task'[d] = task[d]
  BY <1>1, <1>2, TaskStep
<1> QED BY <1>3 DEF t

LEMMA EndFacts ==
    ASSUME TasksOK, NEW c \in Conns, task' = [task EXCEPT ![c] = NoTask]
    PROVE  TasksOK' /\ task'[c] = NoTask /\ \A d \in Conns : d # c => task'[d] = task[d]
BY TaskStep DEF TaskOK
-----------------------------------------------------------------------------
(* The invariant, one lemma for every step.                                 *)

EntryType == [val : Values, expiry : {"none", "ahead", "past"}] \union {NoEntry}

\* A step of one task: what it must not do.
LEMMA OneTaskKeeps ==
    ASSUME IInv, NEW c \in Conns, TasksOK',
           \A d \in Conns : d # c => task'[d] = task[d] /\ client'[d] = client[d],
           task'[c].st \in {"register", "park", "parked"} => task'[c].left # <<>>,
           task'[c].st \in {"park", "parked"} => Head(task'[c].left) \in waiters',
           waiters \subseteq waiters', waiters' \subseteq Keys,
           entry' \in [Keys -> EntryType],
           UNCHANGED running, listening' \in {listening, running},
           client' \in [Conns -> {"idle", "waiting", "ok", "error"}],
           client'[c] \in {"idle", "ok"} => task'[c] = NoTask
    PROVE  IInv'
<1> USE DEF IInv
<1>1. ASSUME NEW d \in Conns
      PROVE  /\ client'[d] \in {"idle", "ok"} => task'[d] = NoTask
             /\ task'[d].st \in {"none", "queued", "serving", "register", "park", "parked",
                                 "notify", "replied"}
             /\ task'[d].st # "none" => task'[d].req \in Requests
             /\ task'[d].st \in {"register", "park", "parked"} => task'[d].left # <<>>
             /\ task'[d].st \in {"park", "parked"} => Head(task'[d].left) \in waiters'
  <2>1. TaskOK(task'[d])
    BY DEF TasksOK
  <2>2. /\ task'[d].st \in {"none"} \union Busy \union Over
        /\ task'[d].st # "none" => task'[d].req \in Requests
    BY <2>1, Kinds
  <2>3. CASE d = c
    BY <2>2, <2>3 DEF Busy, Over
  <2>4. CASE d # c
    BY <2>2, <2>4 DEF TypeOK, SleepersAreRegistered, Busy, Over
  <2> QED BY <2>3, <2>4
<1>2. SleepersAreRegistered'
  BY <1>1 DEF SleepersAreRegistered
<1>3. running' \in BOOLEAN /\ listening' \in BOOLEAN /\ (running' => listening')
  <2>1. CASE listening' = listening
    BY <2>1 DEF TypeOK
  <2>2. CASE listening' = running
    BY <2>2 DEF TypeOK
  <2> QED BY <2>1, <2>2
<1>4. TypeOK'
  BY <1>1, <1>3 DEF TypeOK, EntryType
<1> QED BY <1>2, <1>4

LEMMA KeyFacts ==
    ASSUME IInv, NEW c \in Conns, task[c].st = "serving",
           task[c].req.op \notin {"wait", "num_keys"}
    PROVE  /\ Key(c) \in Keys /\ task[c].req \in Requests
           /\ entry[Key(c)] \in EntryType
BY TaskFields, RequestFacts DEF IInv, TypeOK, Key, Busy, EntryType

\* What a task that works for a client says of the client.
LEMMA ClientFacts ==
    ASSUME IInv, NEW c \in Conns, task[c].st # "none"
    PROVE  /\ client[c] \in {"waiting", "error"}
           /\ entry \in [Keys -> EntryType]
           /\ client \in [Conns -> {"idle", "waiting", "ok", "error"}]
           /\ waiters \subseteq Keys
<1>1. task[c] # NoTask
  BY DEF NoTask
<1> QED BY <1>1 DEF IInv, TypeOK, EntryType

\* An operation that ends with a reply.
LEMMA ReplyKeeps ==
    ASSUME IInv, NEW c \in Conns, task[c].st = "serving", NEW res, NEW s \in Over,
           task' = [task EXCEPT ![c] = [st |-> s, req |-> @.req, res |-> res]],
           entry' \in [Keys -> EntryType], UnchangedButEntry
    PROVE  IInv'
<1>0. /\ TasksOK' /\ \A d \in Conns : d # c => task'[d] = task[d]
      /\ task'[c] = [st |-> s, req |-> task[c].req, res |-> res]
  BY ReplyFacts DEF IInv, Busy
<1>1. task'[c].st = s
  BY <1>0
<1>2. UNCHANGED <<waiters, running, listening, client>>
  BY DEF UnchangedButEntry
<1>3. s \notin {"register", "park", "parked"}
  BY DEF Over
<1> QED BY <1>0, <1>1, <1>2, <1>3, ClientFacts, OneTaskKeeps

LEMMA QueryKeeps ==
    ASSUME IInv, NEW c \in Conns, Query(c)
    PROVE  IInv'
<1>1. task[c].st = "serving" /\ entry' = entry /\ UnchangedButEntry
  BY DEF Query, Serving
<1>2. \E res : Reply(c, res)
  BY DEF Query
<1> QED BY <1>1, <1>2, ClientFacts, ReplyKeeps DEF Reply, Over

LEMMA NumKeysKeeps ==
    ASSUME IInv, NEW c \in Conns, NumKeys(c)
    PROVE  IInv'
<1>1. /\ task[c].st = "serving" /\ entry' = entry /\ UnchangedButEntry
      /\ UNCHANGED <<waiters, running, listening, client>>
  BY DEF NumKeys, Serving, UnchangedButEntry
<1>2. CASE Reply(c, task[c].count)
  BY <1>1, <1>2, ClientFacts, ReplyKeeps DEF Reply, Over
<1>3. CASE task[c].left # <<>> /\ ~Reply(c, task[c].count)
  <2> DEFINE n == task[c].count + IF Live(Head(task[c].left)) THEN 1 ELSE 0
  <2>1. task[c].left \in Seq(Keys) /\ task[c].count \in Nat
    BY <1>1, TaskFields DEF IInv, Busy
  <2>2. Tail(task[c].left) \in Seq(Keys) /\ n \in Nat
    BY <1>3, <2>1
  <2>3. task' = [task EXCEPT ![c].left = Tail(task[c].left), ![c].count = n]
    BY <1>3 DEF NumKeys, IInv, TasksOK
  <2> HIDE DEF n
  <2>4. /\ TasksOK' /\ \A d \in Conns : d # c => task'[d] = task[d]
        /\ task'[c] = [st |-> "serving", req |-> task[c].req, left |-> Tail(task[c].left),
                       count |-> n]
    BY <1>1, <2>2, <2>3, NextKeyFacts DEF IInv
  <2>5. task'[c].st = "serving"
    BY <2>4
  <2> QED BY <1>1, <2>4, <2>5, ClientFacts, OneTaskKeeps
<1> QED BY <1>2, <1>3 DEF NumKeys

LEMMA SetKeeps ==
    ASSUME IInv, NEW c \in Conns, Set(c)
    PROVE  IInv'
<1>1. /\ task[c].st = "serving" /\ UnchangedButEntry /\ ReplyAfterNotify(c, "ok")
      /\ task[c].req.op \in {"set", "set_with_expiry"}
      /\ entry' = [entry EXCEPT ![Key(c)] = StoreEntry(task[c].req.val,
                                                       task[c].req.op = "set_with_expiry")]
  BY DEF Set, Serving
<1>2. task[c].req.val \in Values
  BY <1>1, KeyFacts, RequestFacts
<1>3. entry' \in [Keys -> EntryType]
  BY <1>1, <1>2, ClientFacts DEF EntryType, StoreEntry
<1> QED BY <1>1, <1>3, ReplyKeeps DEF ReplyAfterNotify, Over

LEMMA DeleteKeeps ==
    ASSUME IInv, NEW c \in Conns, Delete(c)
    PROVE  IInv'
<1>1. /\ task[c].st = "serving" /\ UnchangedButEntry /\ Reply(c, "ok")
      /\ entry' = [entry EXCEPT ![Key(c)] = NoEntry]
  BY DEF Delete, Serving
<1>2. entry' \in [Keys -> EntryType]
  BY <1>1, ClientFacts DEF EntryType
<1> QED BY <1>1, <1>2, ReplyKeeps DEF Reply, Over

LEMMA CompareAndSwapKeeps ==
    ASSUME IInv, NEW c \in Conns, CompareAndSwap(c)
    PROVE  IInv'
<1>1. /\ task[c].st = "serving" /\ UnchangedButEntry
      /\ task[c].req.op = "compare_and_swap"
      /\ Reply(c, FALSE) \/ ReplyAfterNotify(c, TRUE)
      /\ \/ entry' = entry
         \/ entry' = [entry EXCEPT ![Key(c)] = StoreEntry(task[c].req.val, FALSE)]
         \/ entry' = [entry EXCEPT ![Key(c)] = StoreEntry(Empty, FALSE)]
  BY DEF CompareAndSwap, Serving
<1>2. task[c].req.val \in Values /\ Empty \in Values
  BY <1>1, KeyFacts, RequestFacts, RequestAssumption DEF Values
<1>3. entry' \in [Keys -> EntryType]
  BY <1>1, <1>2, ClientFacts DEF EntryType, StoreEntry
<1> QED BY <1>1, <1>3, ReplyKeeps DEF Reply, ReplyAfterNotify, Over

\* A sum wraps, and whatever is no counter stays.
LEMMA AddKeeps ==
    ASSUME IInv, NEW c \in Conns, Add(c)
    PROVE  IInv'
<1> DEFINE r == task[c].req
           k == Key(c)
           old == entry[k].val
           new == IF ~Exists(k) THEN r.val
                  ELSE IF Live(k) /\ old \in Words THEN WrappingAdd(old, r.val)
                  ELSE old
<1>1. /\ task[c].st = "serving" /\ UnchangedButEntry /\ r.op = "add"
      /\ entry' = [entry EXCEPT ![k].val = new]
      /\ ReplyAfterNotify(c, IF new \in Words THEN new ELSE 0)
  BY DEF Add, Serving
<1>2. k \in Keys /\ entry[k] \in EntryType /\ r.val \in Words
  BY <1>1, KeyFacts, RequestFacts
<1>3. new \in Values
  <2>1. CASE ~Exists(k)
    BY <1>2, <2>1 DEF Values
  <2>2. CASE Exists(k) /\ Live(k) /\ old \in Words
    <3>1. (old + r.val) % Modulus \in Words
      BY <1>2, <2>2, RequestAssumption DEF Words
    <3> QED BY <2>2, <3>1 DEF WrappingAdd, Values
  <2>3. CASE Exists(k) /\ ~(Live(k) /\ old \in Words)
    BY <1>2, <2>3 DEF EntryType, Exists
  <2> QED BY <2>1, <2>2, <2>3
<1>4. entry' \in [Keys -> EntryType]
  <2>1. /\ entry' = [entry EXCEPT ![k] = [entry[k] EXCEPT !.val = new]]
        /\ entry \in [Keys -> EntryType]
    BY <1>1, ClientFacts
  <2>2. [entry[k] EXCEPT !.val = new] \in EntryType
    BY <1>2, <1>3 DEF EntryType, NoEntry
  <2> QED BY <2>1, <2>2
<1> QED BY <1>1, <1>4, ReplyKeeps DEF ReplyAfterNotify, Over

LEMMA MoveKeeps ==
    ASSUME IInv, NEW c \in Conns, task[c].st \in Busy, NEW s \in Busy,
           task' = [task EXCEPT ![c].st = s],
           s \in {"register", "park", "parked"} => task[c].left # <<>>,
           s \in {"park", "parked"} => Head(task[c].left) \in waiters',
           waiters \subseteq waiters', waiters' \subseteq Keys,
           UNCHANGED <<entry, running, client>>, listening' \in {listening, running}
    PROVE  IInv'
<1>1. /\ TasksOK' /\ \A d \in Conns : d # c => task'[d] = task[d]
      /\ task'[c] = [st |-> s, req |-> task[c].req, left |-> task[c].left,
                     count |-> task[c].count]
  BY MoveFacts DEF IInv
<1>2. task'[c].st = s /\ task'[c].left = task[c].left
  BY <1>1
<1>3. task[c].st # "none"
  BY DEF Busy
<1> QED BY <1>1, <1>2, <1>3, ClientFacts, OneTaskKeeps

LEMMA WaitKeeps ==
    ASSUME IInv, NEW c \in Conns, WaitCheck(c) \/ WaitRegister(c) \/ WaitPark(c)
    PROVE  IInv'
<1>1. waiters \subseteq Keys
  BY DEF IInv, TypeOK
<1>2. CASE WaitCheck(c)
  <2>1. /\ task[c].st = "serving" /\ UNCHANGED <<entry, waiters, running, listening, client>>
        /\ UnchangedButEntry
    BY <1>2 DEF WaitCheck, Serving, UnchangedButEntry
  <2>2. CASE Reply(c, "ok")
    BY <2>1, <2>2, ClientFacts, ReplyKeeps DEF Reply, Over
  <2>3. CASE task[c].left # <<>> /\ task' = [task EXCEPT ![c].left = Tail(task[c].left)]
    <3>1. task[c].left \in Seq(Keys) /\ task[c].count \in Nat
      BY <2>1, TaskFields DEF IInv, Busy
    <3>2. Tail(task[c].left) \in Seq(Keys)
      BY <2>3, <3>1
    <3>3. /\ TasksOK' /\ \A d \in Conns : d # c => task'[d] = task[d]
          /\ task'[c] = [st |-> "serving", req |-> task[c].req, left |-> Tail(task[c].left),
                         count |-> task[c].count]
      BY <2>1, <2>3, <3>1, <3>2, NextKeyFacts DEF IInv
    <3>4. task'[c].st = "serving"
      BY <3>3
    <3> QED BY <2>1, <3>3, <3>4, ClientFacts, OneTaskKeeps
  <2>4. CASE task[c].left # <<>> /\ task' = [task EXCEPT ![c].st = "register"]
    BY <1>1, <2>1, <2>4, MoveKeeps DEF Busy
  <2> QED BY <1>2, <2>2, <2>3, <2>4 DEF WaitCheck
<1>3. CASE WaitRegister(c)
  <2>1. /\ task[c].st = "register" /\ task[c].left # <<>> /\ task[c].left \in Seq(Keys)
        /\ waiters' = waiters \union {Head(task[c].left)}
        /\ task' = [task EXCEPT ![c].st = "park"]
        /\ UNCHANGED <<entry, running, listening, client>>
    BY <1>3, TaskFields DEF WaitRegister, IInv, TypeOK, Busy
  <2>2. Head(task[c].left) \in Keys
    BY <2>1
  <2> QED BY <1>1, <2>1, <2>2, MoveKeeps DEF Busy
<1>4. CASE WaitPark(c)
  <2>1. /\ task[c].st = "park" /\ task[c].left # <<>> /\ Head(task[c].left) \in waiters
        /\ task' = [task EXCEPT ![c].st = "parked"]
        /\ UNCHANGED <<entry, waiters, running, listening, client>>
    BY <1>4 DEF WaitPark, UnchangedButEntry, IInv, TypeOK, SleepersAreRegistered
  <2> QED BY <1>1, <2>1, MoveKeeps DEF Busy
<1> QED BY <1>2, <1>3, <1>4

\* A notification answers its own client and sets the woken tasks to work.
LEMMA NotifyKeeps ==
    ASSUME IInv, NEW c \in Conns, Notify(c)
    PROVE  /\ IInv'
           /\ task'[c] = [st |-> "replied", req |-> task[c].req, res |-> task[c].res]
           /\ \A d \in Conns : d # c =>
                 \/ task'[d] = task[d]
                 \/ /\ task[d].st = "parked" /\ task[d] \in BusyTask
                    /\ task'[d] = [st |-> "serving", req |-> task[d].req, left |-> task[d].left,
                                   count |-> task[d].count]
<1> DEFINE woken == IF Key(c) \notin waiters THEN {}
                    ELSE {d \in Conns : task[d].st = "parked" /\ Head(task[d].left) = Key(c)}
<1>1. /\ task[c].st = "notify"
      /\ task' = [d \in Conns |-> IF d = c THEN [task[c] EXCEPT !.st = "replied"]
                                  ELSE IF d \in woken THEN [task[d] EXCEPT !.st = "serving"]
                                  ELSE task[d]]
      /\ UNCHANGED <<entry, waiters, running, listening, client>>
  BY DEF Notify, UnchangedButEntry
<1>2. \A d \in Conns : d \in woken => task[d].st = "parked"
  OBVIOUS
<1> HIDE DEF woken
<1>3. task'[c] = [st |-> "replied", req |-> task[c].req, res |-> task[c].res]
  <2>1. OverTask(task[c])
    BY <1>1, TaskKinds DEF IInv, Over
  <2>2. PICK s, r, x :
          s \in Over /\ r \in Requests /\ task[c] = [st |-> s, req |-> r, res |-> x]
    BY <2>1 DEF OverTask
  <2>3. [task[c] EXCEPT !.st = "replied"] =
           [st |-> "replied", req |-> task[c].req, res |-> task[c].res]
    BY <2>2
  <2> QED BY <1>1, <2>3
<1>4. ASSUME NEW d \in Conns, d # c
      PROVE  \/ task'[d] = task[d]
             \/ /\ task[d].st = "parked" /\ task[d] \in BusyTask
                /\ task'[d] = [st |-> "serving", req |-> task[d].req, left |-> task[d].left,
                               count |-> task[d].count]
  <2>1. CASE d \in woken
    <3>1. task[d].st = "parked" /\ task[d] \in BusyTask
      BY <1>2, <2>1, TaskKinds DEF IInv, Busy
    <3>2. [task[d] EXCEPT !.st = "serving"] =
             [st |-> "serving", req |-> task[d].req, left |-> task[d].left,
              count |-> task[d].count]
      BY <3>1 DEF BusyTask
    <3> QED BY <1>1, <1>4, <2>1, <3>1, <3>2
  <2>2. CASE d \notin woken
    BY <1>1, <1>4, <2>2
  <2> QED BY <2>1, <2>2
<1>5. TasksOK'
  <2>1. task' = [d \in Conns |-> task'[d]]
    BY <1>1
  <2>2. ASSUME NEW d \in Conns PROVE TaskOK(task'[d])
    <3>1. CASE d = c
      <4>1. task[c].req \in Requests
        BY <1>1, TaskKinds DEF IInv
      <4> QED BY <1>3, <3>1, <4>1 DEF TaskOK, OverTask, Over
    <3>2. CASE d # c
      <4>1. TaskOK(task[d])
        BY DEF IInv, TasksOK
      <4>2. task[d] \in BusyTask =>
               [st |-> "serving", req |-> task[d].req, left |-> task[d].left,
                count |-> task[d].count] \in BusyTask
        BY DEF BusyTask, Busy
      <4> QED BY <1>4, <3>2, <4>1, <4>2 DEF TaskOK
    <3> QED BY <3>1, <3>2
  <2> QED BY <2>1, <2>2 DEF TasksOK
<1>6. ASSUME NEW d \in Conns
      PROVE  /\ client[d] \in {"idle", "ok"} => task'[d] = NoTask
             /\ task'[d].st \in {"none", "queued", "serving", "register", "park", "parked",
                                 "notify", "replied"}
             /\ task'[d].st # "none" => task'[d].req \in Requests
             /\ task'[d].st \in {"register", "park", "parked"} => task'[d].left # <<>>
             /\ task'[d].st \in {"park", "parked"} => Head(task'[d].left) \in waiters
  <2>1. /\ task'[d].st \in {"none"} \union Busy \union Over
        /\ task'[d].st # "none" => task'[d].req \in Requests
    BY <1>5, Kinds DEF TasksOK
  <2>2. CASE task'[d] = task[d]
    BY <2>1, <2>2 DEF IInv, TypeOK, SleepersAreRegistered, Busy, Over
  <2>3. CASE task'[d].st \in {"serving", "replied"} /\ task[d].st \in {"parked", "notify"}
    BY <2>1, <2>3, ClientFacts DEF Busy, Over
  <2>4. ASSUME d # c, task'[d] # task[d]
        PROVE  task[d].st = "parked" /\ task'[d].st = "serving"
    <3>1. /\ task[d].st = "parked"
          /\ task'[d] = [st |-> "serving", req |-> task[d].req, left |-> task[d].left,
                         count |-> task[d].count]
      BY <1>4, <2>4
    <3> QED BY <3>1
  <2>5. task'[c].st = "replied"
    BY <1>3
  <2> QED BY <1>1, <2>2, <2>3, <2>4, <2>5
<1>7. IInv'
  <2>1. SleepersAreRegistered'
    BY <1>1, <1>6 DEF SleepersAreRegistered
  <2>2. running' \in BOOLEAN /\ listening' \in BOOLEAN /\ (running' => listening')
    BY <1>1 DEF IInv, TypeOK
  <2>3. TypeOK'
    BY <1>1, <1>6, <2>2 DEF IInv, TypeOK
  <2> QED BY <1>5, <2>1, <2>3 DEF IInv
<1> QED BY <1>3, <1>4, <1>7

LEMMA ConnectKeeps ==
    ASSUME IInv, NEW c \in Conns, NEW r \in RequestsOf[c], Connect(c, r)
    PROVE  IInv'
<1>1. /\ client[c] = "idle" /\ task[c] = NoTask /\ waiters \subseteq Keys
      /\ entry \in [Keys -> EntryType] /\ client \in [Conns -> {"idle", "waiting", "ok", "error"}]
      /\ UNCHANGED <<entry, waiters, running, listening>>
  BY DEF Connect, IInv, TypeOK, EntryType
<1>2. CASE /\ client' = [client EXCEPT ![c] = "waiting"]
           /\ task' = [task EXCEPT ![c] = [st |-> "queued", req |-> r, left |-> r.keys,
                                            count |-> 0]]
  <2> DEFINE t == [st |-> "queued", req |-> r, left |-> r.keys, count |-> 0]
  <2>1. r \in Requests
    BY ConnAssumption
  <2>2. TaskOK(t)
    BY <2>1, RequestFacts DEF TaskOK, BusyTask, Busy
  <2>3. t.st = "queued"
    OBVIOUS
  <2> HIDE DEF t
  <2>4. TasksOK' /\ task'[c] = t /\ \A d \in Conns : d # c => task'[d] = task[d]
    BY <1>2, <2>2, TaskStep DEF IInv, t
  <2> QED BY <1>1, <1>2, <2>3, <2>4, OneTaskKeeps
<1>3. CASE client' = [client EXCEPT ![c] = "error"] /\ UNCHANGED task
  <2>1. TasksOK' /\ task[c].st = "none"
    BY <1>1, <1>3 DEF IInv, TasksOK, NoTask
  <2> QED BY <1>1, <1>3, <2>1, OneTaskKeeps
<1> QED BY <1>2, <1>3 DEF Connect

\* The client gives up, is answered, or finds its connection reset.
LEMMA ClientKeeps ==
    ASSUME IInv, NEW c \in Conns,
           \/ ReadReply(c) \/ TimeOut(c) \/ Reset(c) \/ HangUp(c)
    PROVE  IInv'
<1>1. /\ waiters \subseteq Keys
      /\ entry \in [Keys -> EntryType] /\ client \in [Conns -> {"idle", "waiting", "ok", "error"}]
      /\ UNCHANGED <<entry, waiters, running, listening>>
  BY DEF ReadReply, TimeOut, Reset, HangUp, IInv, TypeOK, EntryType
<1>2. NoTask.st = "none"
  BY DEF NoTask
<1>3. CASE task' = [task EXCEPT ![c] = NoTask]
  <2>1. TasksOK' /\ task'[c] = NoTask /\ \A d \in Conns : d # c => task'[d] = task[d]
    BY <1>3, EndFacts DEF IInv
  <2>2. /\ client' \in [Conns -> {"idle", "waiting", "ok", "error"}]
        /\ \A d \in Conns : d # c => client'[d] = client[d]
    BY <1>1 DEF ReadReply, TimeOut, Reset, HangUp
  <2> QED BY <1>1, <1>2, <2>1, <2>2, OneTaskKeeps
<1>4. CASE TimeOut(c)
  <2>1. TasksOK' /\ UNCHANGED task
    BY <1>4 DEF TimeOut, IInv, TasksOK
  <2>2. /\ client' = [client EXCEPT ![c] = "error"]
        /\ client' \in [Conns -> {"idle", "waiting", "ok", "error"}]
    BY <1>1, <1>4 DEF TimeOut
  <2>3. /\ task[c].st \in {"register", "park", "parked"} => task[c].left # <<>>
        /\ task[c].st \in {"park", "parked"} => Head(task[c].left) \in waiters
    BY DEF IInv, TypeOK, SleepersAreRegistered
  <2>4. client'[c] = "error" /\ \A d \in Conns : d # c => client'[d] = client[d]
    BY <1>1, <2>2
  <2> QED BY <1>1, <2>1, <2>2, <2>3, <2>4, OneTaskKeeps
<1> QED BY <1>3, <1>4 DEF ReadReply, Reset, HangUp

LEMMA AcceptKeeps ==
    ASSUME IInv, NEW c \in Conns, Accept(c)
    PROVE  IInv'
<1>1. /\ task[c].st = "queued" /\ task' = [task EXCEPT ![c].st = "serving"]
      /\ listening' = running /\ UNCHANGED <<entry, waiters, running, client>>
      /\ waiters \subseteq Keys
  BY DEF Accept, IInv, TypeOK
<1> QED BY <1>1, MoveKeeps DEF Busy

\* Time, and the end of the server.
LEMMA EnvironmentKeeps ==
    ASSUME IInv, (\E k \in Keys : Cleanup(k) \/ Expire(k)) \/ Shutdown \/ UNCHANGED vars
    PROVE  IInv'
<1>1. UNCHANGED <<waiters, listening, task, client>>
  BY DEF Cleanup, Expire, Shutdown, vars
<1>2. running' \in BOOLEAN /\ listening' \in BOOLEAN /\ (running' => listening')
  <2>1. CASE Shutdown
    BY <2>1 DEF Shutdown, IInv, TypeOK
  <2>2. CASE ~Shutdown
    BY <2>2 DEF Cleanup, Expire, vars, IInv, TypeOK
  <2> QED BY <2>1, <2>2
<1>3. entry' \in [Keys -> EntryType]
  <2>1. entry \in [Keys -> EntryType]
    BY DEF IInv, TypeOK, EntryType
  <2>2. ASSUME NEW k \in Keys, Expire(k) PROVE entry' \in [Keys -> EntryType]
    <3>1. entry' = [entry EXCEPT ![k] = [entry[k] EXCEPT !.expiry = "past"]]
      BY <2>1, <2>2 DEF Expire
    <3>2. entry[k] \in [val : Values, expiry : {"none", "ahead", "past"}]
      BY <2>1, <2>2 DEF Expire, EntryType, NoEntry
    <3>3. [entry[k] EXCEPT !.expiry = "past"] \in EntryType
      BY <3>2 DEF EntryType
    <3> QED BY <2>1, <3>1, <3>3
  <2>3. ASSUME NEW k \in Keys, Cleanup(k) PROVE entry' \in [Keys -> EntryType]
    BY <2>1, <2>3 DEF Cleanup, EntryType
  <2>4. CASE Shutdown \/ UNCHANGED vars
    BY <2>1, <2>4 DEF Shutdown, vars
  <2> QED BY <2>2, <2>3, <2>4
<1>4. TypeOK'
  BY <1>1, <1>2, <1>3 DEF IInv, TypeOK, EntryType
<1> QED BY <1>1, <1>4 DEF IInv, TasksOK, SleepersAreRegistered

LEMMA NextInv == IInv /\ [Next]_vars => IInv'
<1> SUFFICES ASSUME IInv, [Next]_vars PROVE IInv'
  OBVIOUS
<1>1. ASSUME NEW c \in Conns, ServerStep(c) PROVE IInv'
  BY <1>1, QueryKeeps, NumKeysKeeps, SetKeeps, DeleteKeeps, CompareAndSwapKeeps, AddKeeps,
     NotifyKeeps, WaitKeeps DEF ServerStep
<1>2. ASSUME NEW c \in Conns, NEW r \in RequestsOf[c], Connect(c, r) PROVE IInv'
  BY <1>2, ConnectKeeps
<1>3. ASSUME NEW c \in Conns, ReadReply(c) \/ TimeOut(c) \/ Accept(c) \/ Reset(c) \/ HangUp(c)
      PROVE  IInv'
  BY <1>3, ClientKeeps, AcceptKeeps
<1>4. CASE (\E k \in Keys : Cleanup(k) \/ Expire(k)) \/ Shutdown \/ UNCHANGED vars
  BY <1>4, EnvironmentKeeps
<1> QED BY <1>1, <1>2, <1>3, <1>4 DEF Next

LEMMA InitInv == Init => IInv
<1> SUFFICES ASSUME Init PROVE IInv
  OBVIOUS
<1>1. \A c \in Conns : task[c] = NoTask /\ client[c] = "idle"
  BY DEF Init
<1>2. NoTask.st = "none"
  BY DEF NoTask
<1>3. TasksOK
  BY <1>1 DEF Init, TasksOK, TaskOK
<1>4. TypeOK
  BY <1>1, <1>2 DEF Init, TypeOK
<1>5. SleepersAreRegistered
  BY <1>1, <1>2 DEF SleepersAreRegistered
<1> QED BY <1>3, <1>4, <1>5 DEF IInv

\* The invariant that the other theorems rest on.
THEOREM StoreInvariant == Spec => []IInv
BY InitInv, NextInv, PTL DEF Spec

\* Entries, tasks and clients have their types; a counter is below 2^64.
THEOREM StoreTypeCorrect == Spec => []TypeOK
<1>1. IInv => TypeOK
  BY DEF IInv
<1> QED BY <1>1, StoreInvariant, PTL

\* Whoever sleeps on a key, or is about to, is in the map of waiters that a
\* writer of the key looks up: no notification is lost on the way to sleep.
THEOREM SleepersRegistered == Spec => []SleepersAreRegistered
<1>1. IInv => SleepersAreRegistered
  BY DEF IInv
<1> QED BY <1>1, StoreInvariant, PTL
-----------------------------------------------------------------------------
(* The refinement: every step of the server and its clients is a step of    *)
(* KVStore, or changes nothing there.                                       *)

\* What KVStore calls dict, mortal and call.
Dict == [k \in Keys |-> Lookup(k)]
Mortal == {k \in Keys : entry[k].expiry # "none"}
Progress == [c \in Conns |-> AbstractCall(c)]

Abstract(t) ==
    CASE t.st = "none" -> [st |-> "none"]
      [] t.st \in {"notify", "replied"} -> [st |-> "done", res |-> t.res]
      [] OTHER -> [st |-> "pending", req |-> t.req, left |-> t.left, count |-> t.count]

PendingOf(r, l, n) == [st |-> "pending", req |-> r, left |-> l, count |-> n]
DoneWith(x) == [st |-> "done", res |-> x]

LEMMA AbstractNone == Abstract(NoTask) = [st |-> "none"]
BY DEF Abstract, NoTask

LEMMA AbstractBusy ==
    ASSUME NEW t, t.st \in Busy
    PROVE  Abstract(t) = PendingOf(t.req, t.left, t.count)
BY DEF Abstract, PendingOf, Busy

LEMMA AbstractOver ==
    ASSUME NEW t, t.st \in Over
    PROVE  Abstract(t) = DoneWith(t.res)
BY DEF Abstract, DoneWith, Over

LEMMA AbstractCalls ==
    /\ \A c \in Conns : AbstractCall(c) = Abstract(task[c])
    /\ \A c \in Conns : AbstractCall(c)' = Abstract(task'[c])
BY DEF AbstractCall, Abstract

\* One task changed: so did one call.
LEMMA CallStep ==
    ASSUME NEW c \in Conns, \A d \in Conns : d # c => task'[d] = task[d]
    PROVE  /\ Progress' = [Progress EXCEPT ![c] = Abstract(task'[c])]
           /\ Progress[c] = Abstract(task[c])
BY AbstractCalls DEF Progress

\* One entry changed: so did one key.
ValueOf(e) == IF e # NoEntry /\ e.expiry # "past" THEN e.val ELSE Absent

LEMMA EntryStep ==
    ASSUME IInv, NEW k \in Keys, NEW e, entry' = [entry EXCEPT ![k] = e]
    PROVE  /\ Dict' = [Dict EXCEPT ![k] = ValueOf(e)]
           /\ Mortal' = IF e.expiry # "none" THEN Mortal \union {k} ELSE Mortal \ {k}
<1>1. DOMAIN entry = Keys
  BY DEF IInv, TypeOK
<1>2. entry'[k] = e /\ \A j \in Keys : j # k => entry'[j] = entry[j]
  BY <1>1
<1>3. \A j \in Keys : Lookup(j)' = IF j = k THEN ValueOf(e) ELSE Lookup(j)
  BY <1>2 DEF Lookup, Live, Exists, IsExpired, ValueOf
<1>4. Dict' = [Dict EXCEPT ![k] = ValueOf(e)]
  BY <1>3 DEF Dict
<1>5. Mortal' = IF e.expiry # "none" THEN Mortal \union {k} ELSE Mortal \ {k}
  BY <1>2 DEF Mortal
<1> QED BY <1>4, <1>5

LEMMA EntrySame ==
    ASSUME entry' = entry
    PROVE  Dict' = Dict /\ Mortal' = Mortal
BY DEF Dict, Mortal, Lookup, Live, Exists, IsExpired

LEMMA DictFacts ==
    ASSUME IInv, NEW k \in Keys
    PROVE  /\ Dict[k] = Lookup(k) /\ Dict[k] \in Values \union {Absent}
           /\ Live(k) => Dict[k] = entry[k].val /\ Dict[k] \in Values /\ Dict[k] # Absent
           /\ ~Live(k) => Dict[k] = Absent
           /\ ~Exists(k) => Dict[k] = Absent /\ k \notin Mortal
           /\ IsExpired(k) => Dict[k] = Absent /\ k \in Mortal
<1>1. entry[k] \in EntryType
  BY DEF IInv, TypeOK, EntryType
<1>2. Dict[k] = Lookup(k)
  BY DEF Dict
<1>3. Live(k) => entry[k].val \in Values
  BY <1>1 DEF Live, Exists, EntryType
<1>4. ~Exists(k) => entry[k].expiry = "none"
  BY DEF Exists, NoEntry
<1> QED BY <1>1, <1>2, <1>3, <1>4, RequestAssumption DEF Lookup, Live, IsExpired, Mortal

\* The steps that KVStore does not see.
Unseen == Dict' = Dict /\ Mortal' = Mortal /\ Progress' = Progress /\ client' = client

LEMMA UnseenStutters ==
    ASSUME Unseen
    PROVE  UNCHANGED KV!vars
BY DEF Unseen, KV!vars, Dict, Mortal, Progress

LEMMA InitImplements == Init => KV!Init
<1> SUFFICES ASSUME Init PROVE KV!Init
  OBVIOUS
<1>1. \A k \in Keys : entry[k] = NoEntry /\ ~Exists(k) /\ Lookup(k) = Absent
  BY DEF Init, Lookup, Live, Exists
<1>2. Dict = [k \in Keys |-> Absent]
  BY <1>1 DEF Dict
<1>3. Mortal = {}
  BY <1>1 DEF Mortal, NoEntry
<1>4. Progress = [c \in Conns |-> [st |-> "none"]]
  BY AbstractCalls, AbstractNone DEF Progress, Init
<1> QED BY <1>2, <1>3, <1>4 DEF KV!Init, KV!NoCall, Dict, Mortal, Progress, Init

\* An operation's reply is the end of its call, in one step with its effect.
LEMMA ReplyFinishes ==
    ASSUME IInv, NEW c \in Conns, task[c].st = "serving", NEW res, NEW s \in Over,
           task' = [task EXCEPT ![c] = [st |-> s, req |-> @.req, res |-> res]],
           UnchangedButEntry
    PROVE  KV!Finish(c, res)
<1>1. /\ \A d \in Conns : d # c => task'[d] = task[d]
      /\ task'[c] = [st |-> s, req |-> task[c].req, res |-> res]
  BY ReplyFacts DEF IInv, Busy
<1>2. task'[c].st = s /\ task'[c].res = res
  BY <1>1
<1>3. Abstract(task'[c]) = DoneWith(res)
  BY <1>2, AbstractOver
<1>4. Progress' = [Progress EXCEPT ![c] = DoneWith(res)]
  BY <1>1, <1>3, CallStep
<1>5. client' = client
  BY DEF UnchangedButEntry
<1> QED BY <1>4, <1>5 DEF KV!Finish, KV!Done, DoneWith, Progress

\* What KVStore sees of a task at work.
LEMMA ServingIsPending ==
    ASSUME IInv, NEW c \in Conns, task[c].st = "serving"
    PROVE  /\ Progress[c] = PendingOf(task[c].req, task[c].left, task[c].count)
           /\ Progress[c].st = "pending" /\ Progress[c].req = task[c].req
           /\ Progress[c].left = task[c].left /\ Progress[c].count = task[c].count
<1>1. Progress[c] = Abstract(task[c])
  BY AbstractCalls DEF Progress
<1>2. Progress[c] = PendingOf(task[c].req, task[c].left, task[c].count)
  BY <1>1, AbstractBusy DEF Busy
<1> QED BY <1>2 DEF PendingOf

LEMMA Applies ==
    ASSUME IInv, NEW c \in Conns, task[c].st = "serving",
           \/ KV!Read(c, task[c].req) \/ KV!Count(c, task[c].req) \/ KV!Update(c, task[c].req)
           \/ KV!CompareAndSwap(c, task[c].req) \/ KV!Add(c, task[c].req)
           \/ task[c].req.op = "wait" /\ (KV!AwaitKey(c) \/ KV!AwaitDone(c))
    PROVE  KV!Apply(c)
<1>1. Progress[c].st = "pending" /\ Progress[c].req = task[c].req
  BY ServingIsPending
<1>2. CASE KV!Read(c, task[c].req)
  <2>1. KV!Read(c, Progress[c].req)
    BY <1>1, <1>2 DEF KV!Read
  <2> QED BY <1>1, <2>1 DEF KV!Apply, Progress
<1>3. CASE KV!Count(c, task[c].req)
  <2>1. KV!Count(c, Progress[c].req)
    BY <1>1, <1>3 DEF KV!Count
  <2> QED BY <1>1, <2>1 DEF KV!Apply, Progress
<1>4. CASE KV!Update(c, task[c].req)
  <2>1. KV!Update(c, Progress[c].req)
    BY <1>1, <1>4 DEF KV!Update
  <2> QED BY <1>1, <2>1 DEF KV!Apply, Progress
<1>5. CASE KV!CompareAndSwap(c, task[c].req)
  <2>1. KV!CompareAndSwap(c, Progress[c].req)
    BY <1>1, <1>5 DEF KV!CompareAndSwap
  <2> QED BY <1>1, <2>1 DEF KV!Apply, Progress
<1>6. CASE KV!Add(c, task[c].req)
  <2>1. KV!Add(c, Progress[c].req)
    BY <1>1, <1>6 DEF KV!Add
  <2> QED BY <1>1, <2>1 DEF KV!Apply, Progress
<1>7. CASE task[c].req.op = "wait" /\ (KV!AwaitKey(c) \/ KV!AwaitDone(c))
  BY <1>1, <1>7 DEF KV!Apply, Progress
<1> QED BY <1>2, <1>3, <1>4, <1>5, <1>6, <1>7

LEMMA QueryImplements ==
    ASSUME IInv, NEW c \in Conns, Query(c)
    PROVE  KV!Apply(c)
<1> DEFINE r == task[c].req
           k == r.keys[1]
<1>1. /\ task[c].st = "serving" /\ UnchangedButEntry /\ entry' = entry
      /\ r.op \in {"get", "contains"} /\ k = Key(c)
  BY DEF Query, Serving, Key
<1>2. k \in Keys
  BY <1>1, KeyFacts
<1>3. Dict' = Dict /\ Mortal' = Mortal
  BY <1>1, EntrySame
<1>4. Dict[k] = Lookup(k) /\ Live(k) = (Dict[k] # Absent)
  BY <1>2, DictFacts DEF Live
<1>5. CASE r.op = "get" /\ Reply(c, Lookup(Key(c)))
  <2>1. KV!Finish(c, Dict[k])
    BY <1>1, <1>4, <1>5, ReplyFinishes DEF Reply, Over
  <2> QED BY <1>1, <1>3, <1>5, <2>1, Applies DEF KV!Read, Dict, Mortal
<1>6. CASE r.op = "contains" /\ Reply(c, Live(Key(c)))
  <2>1. KV!Finish(c, Dict[k] # Absent)
    BY <1>1, <1>4, <1>6, ReplyFinishes DEF Reply, Over
  <2> QED BY <1>1, <1>3, <1>6, <2>1, Applies DEF KV!Read, Dict, Mortal
<1>7. \/ r.op = "get" /\ Reply(c, Lookup(Key(c)))
      \/ r.op = "contains" /\ Reply(c, Live(Key(c)))
  BY DEF Query, Serving
<1> HIDE DEF r, k
<1> QED BY <1>5, <1>6, <1>7

PendingCall == [st : {"pending"}, req : Requests, left : Seq(Keys), count : Nat]

Passed(t, l) == [t EXCEPT !.left = l]
Moved(t, l, n) == [Passed(t, l) EXCEPT !.count = n]

LEMMA PendingMoves ==
    ASSUME NEW t \in PendingCall, NEW m \in Seq(Keys), NEW j \in Nat
    PROVE  /\ Passed(t, m) = PendingOf(t.req, m, t.count)
           /\ Moved(t, m, j) = PendingOf(t.req, m, j)
<1>1. Passed(t, m) = PendingOf(t.req, m, t.count)
  BY DEF PendingCall, PendingOf, Passed
<1>2. /\ Passed(t, m) \in PendingCall
      /\ Passed(t, m).req = t.req /\ Passed(t, m).left = m
  BY DEF PendingCall, Passed
<1>3. \A u \in PendingCall : [u EXCEPT !.count = j] = PendingOf(u.req, u.left, j)
  BY DEF PendingCall, PendingOf
<1> QED BY <1>1, <1>2, <1>3 DEF Moved

\* A task goes on to its next key: so does its call.
LEMMA NextKeyProgress ==
    ASSUME IInv, NEW c \in Conns, task[c].st = "serving", NEW l \in Seq(Keys), NEW n \in Nat,
           \/ task' = [task EXCEPT ![c].left = l] /\ n = task[c].count
           \/ task' = [task EXCEPT ![c].left = l, ![c].count = n]
    PROVE  Progress' = [Progress EXCEPT ![c] = PendingOf(task[c].req, l, n)]
<1>1. /\ \A d \in Conns : d # c => task'[d] = task[d]
      /\ task'[c] = [st |-> "serving", req |-> task[c].req, left |-> l, count |-> n]
  BY NextKeyFacts DEF IInv
<1>2. /\ task'[c].st = "serving" /\ task'[c].req = task[c].req /\ task'[c].left = l
      /\ task'[c].count = n
  BY <1>1
<1>3. Abstract(task'[c]) = PendingOf(task[c].req, l, n)
  BY <1>2, AbstractBusy DEF Busy
<1> QED BY <1>1, <1>3, CallStep

LEMMA NumKeysImplements ==
    ASSUME IInv, NEW c \in Conns, NumKeys(c)
    PROVE  KV!Apply(c)
<1> DEFINE r == task[c].req
           left == task[c].left
<1>1. /\ task[c].st = "serving" /\ UnchangedButEntry /\ entry' = entry /\ client' = client
      /\ r.op = "num_keys"
  BY DEF NumKeys, Serving, UnchangedButEntry
<1>2. Dict' = Dict /\ Mortal' = Mortal
  BY <1>1, EntrySame
<1>3. CASE left = <<>> /\ Reply(c, task[c].count)
  <2>1. KV!Finish(c, Progress[c].count) /\ Progress[c].left = <<>>
    BY <1>1, <1>3, ServingIsPending, ReplyFinishes DEF Reply, Over
  <2> QED BY <1>1, <1>2, <2>1, Applies DEF KV!Count, Dict, Mortal, Progress
<1>4. CASE left # <<>>
  <2> DEFINE n == task[c].count + IF Live(Head(left)) THEN 1 ELSE 0
  <2>1. left \in Seq(Keys) /\ task[c].count \in Nat
    BY <1>1, TaskFields DEF IInv, Busy
  <2>2. Tail(left) \in Seq(Keys) /\ n \in Nat /\ Head(left) \in Keys
    BY <1>4, <2>1
  <2>3. task' = [task EXCEPT ![c].left = Tail(left), ![c].count = n]
    BY <1>4 DEF NumKeys, IInv, TasksOK
  <2>4. n = task[c].count + IF Dict[Head(left)] = Absent THEN 0 ELSE 1
    BY <2>2, DictFacts
  <2> HIDE DEF n
  <2>5. Progress' = [Progress EXCEPT ![c] = PendingOf(r, Tail(left), n)]
    BY <1>1, <2>2, <2>3, NextKeyProgress
  <2>6. Progress[c] = PendingOf(r, left, task[c].count)
    BY <1>1, ServingIsPending
  <2>7. Progress[c] \in PendingCall /\ Progress[c].req = r
    BY <1>1, <2>1, <2>6, TaskFields, ServingIsPending DEF PendingCall, PendingOf, IInv, Busy
  <2>8. Moved(Progress[c], Tail(left), n) = PendingOf(r, Tail(left), n)
    BY <2>2, <2>7, PendingMoves
  <2>9. [Progress EXCEPT ![c].left = Tail(left), ![c].count = n]
          = [Progress EXCEPT ![c] = Moved(Progress[c], Tail(left), n)]
    BY DEF Progress, Moved, Passed
  <2>10. Progress' = [Progress EXCEPT
                        ![c].left = Tail(Progress[c].left),
                        ![c].count = @ + IF Dict[Head(Progress[c].left)] = Absent THEN 0 ELSE 1]
    <3>1. Progress[c].left = left /\ Progress[c].count = task[c].count
      BY <1>1, ServingIsPending
    <3> QED BY <2>4, <2>5, <2>8, <2>9, <3>1 DEF Progress
  <2>11. Progress[c].left # <<>>
    BY <1>1, <1>4, ServingIsPending
  <2>13. KV!Count(c, r)
    BY <1>1, <1>2, <2>10, <2>11 DEF KV!Count, Dict, Mortal, Progress
  <2> QED BY <1>1, <2>13, Applies
<1> QED BY <1>3, <1>4 DEF NumKeys

\* A write of the entry is a write of the key.
LEMMA WriteStep ==
    ASSUME IInv, NEW k \in Keys, NEW v \in Values, NEW ttl \in BOOLEAN,
           entry' = [entry EXCEPT ![k] = StoreEntry(v, ttl)]
    PROVE  KV!Write(k, v, ttl)
<1> DEFINE e == StoreEntry(v, ttl)
<1>1. e \in EntryType /\ e.val = v /\ e.expiry = IF ttl THEN "ahead" ELSE "none"
  BY DEF StoreEntry, EntryType
<1>2. e # NoEntry
  BY <1>1, RequestAssumption DEF NoEntry
<1>3. entry' = [entry EXCEPT ![k] = e]
  OBVIOUS
<1> HIDE DEF e
<1>4. ValueOf(e) = v
  BY <1>1, <1>2 DEF ValueOf
<1>5. /\ Dict' = [Dict EXCEPT ![k] = v]
      /\ Mortal' = IF e.expiry # "none" THEN Mortal \union {k} ELSE Mortal \ {k}
  BY <1>3, <1>4, EntryStep
<1> QED BY <1>1, <1>5 DEF KV!Write, Dict, Mortal

LEMMA RemoveStep ==
    ASSUME IInv, NEW k \in Keys, entry' = [entry EXCEPT ![k] = NoEntry]
    PROVE  /\ KV!Write(k, Absent, FALSE)
           /\ Dict' = [Dict EXCEPT ![k] = Absent] /\ Mortal' = Mortal \ {k}
<1>1. /\ Dict' = [Dict EXCEPT ![k] = ValueOf(NoEntry)]
      /\ Mortal' = IF NoEntry.expiry # "none" THEN Mortal \union {k} ELSE Mortal \ {k}
  BY EntryStep
<1>2. ValueOf(NoEntry) = Absent /\ NoEntry.expiry = "none"
  BY DEF ValueOf, NoEntry
<1> QED BY <1>1, <1>2 DEF KV!Write, Dict, Mortal

LEMMA SetImplements ==
    ASSUME IInv, NEW c \in Conns, Set(c)
    PROVE  KV!Apply(c)
<1> DEFINE r == task[c].req
           k == r.keys[1]
<1>1. /\ task[c].st = "serving" /\ UnchangedButEntry /\ ReplyAfterNotify(c, "ok")
      /\ r.op \in {"set", "set_with_expiry"}
      /\ entry' = [entry EXCEPT ![k] = StoreEntry(r.val, r.op = "set_with_expiry")]
  BY DEF Set, Serving, Key
<1>2. k \in Keys /\ r.val \in Values
  BY <1>1, KeyFacts, RequestFacts DEF Key
<1>4. KV!Finish(c, "ok")
  BY <1>1, ReplyFinishes DEF ReplyAfterNotify, Over
<1>5. KV!Update(c, r)
  <2>1. CASE r.op = "set"
    <3>1. entry' = [entry EXCEPT ![k] = StoreEntry(r.val, FALSE)]
      BY <1>1, <2>1 DEF StoreEntry
    <3>2. KV!Write(k, r.val, FALSE)
      BY <1>2, <3>1, WriteStep
    <3> QED BY <1>4, <2>1, <3>2 DEF KV!Update
  <2>2. CASE r.op = "set_with_expiry"
    <3>1. entry' = [entry EXCEPT ![k] = StoreEntry(r.val, TRUE)]
      BY <1>1, <2>2 DEF StoreEntry
    <3>2. KV!Write(k, r.val, TRUE)
      BY <1>2, <3>1, WriteStep
    <3> QED BY <1>4, <2>2, <3>2 DEF KV!Update
  <2> QED BY <1>1, <2>1, <2>2
<1> QED BY <1>1, <1>5, Applies

LEMMA DeleteImplements ==
    ASSUME IInv, NEW c \in Conns, Delete(c)
    PROVE  KV!Apply(c)
<1> DEFINE r == task[c].req
           k == r.keys[1]
<1>1. /\ task[c].st = "serving" /\ UnchangedButEntry /\ Reply(c, "ok") /\ r.op = "delete"
      /\ entry' = [entry EXCEPT ![k] = NoEntry]
  BY DEF Delete, Serving, Key
<1>2. k \in Keys
  BY <1>1, KeyFacts DEF Key
<1>3. KV!Write(k, Absent, FALSE)
  BY <1>1, <1>2, RemoveStep
<1>4. KV!Finish(c, "ok")
  BY <1>1, ReplyFinishes DEF Reply, Over
<1>5. KV!Update(c, r)
  BY <1>1, <1>3, <1>4 DEF KV!Update
<1> QED BY <1>1, <1>5, Applies

\* A swap succeeds on a live entry that matches, or where there is none.
LEMMA CompareAndSwapImplements ==
    ASSUME IInv, NEW c \in Conns, CompareAndSwap(c)
    PROVE  KV!Apply(c)
<1> DEFINE r == task[c].req
           k == r.keys[1]
<1>1. /\ task[c].st = "serving" /\ UnchangedButEntry /\ r.op = "compare_and_swap"
      /\ k = Key(c) /\ k \in Keys /\ r \in Requests
  BY KeyFacts DEF CompareAndSwap, Serving, Key
<1>2. r.val \in Values /\ r.expected \in Values \union {Absent} /\ Empty \in Values
  BY <1>1, RequestAssumption DEF Values
<1>3. /\ Live(k) => Dict[k] = entry[k].val /\ Dict[k] # Absent
      /\ ~Live(k) => Dict[k] = Absent
      /\ ~Exists(k) => Dict[k] = Absent /\ k \notin Mortal
      /\ IsExpired(k) => Dict[k] = Absent /\ k \in Mortal
  BY <1>1, DictFacts
<1>4. CASE /\ Matches(k, r.expected) \/ (~Exists(k) /\ r.expected = Absent)
           /\ entry' = [entry EXCEPT ![k] = StoreEntry(r.val, FALSE)]
           /\ ReplyAfterNotify(c, TRUE)
  <2>1. Dict[k] = r.expected
    BY <1>3, <1>4 DEF Matches
  <2>2. KV!Write(k, r.val, FALSE)
    BY <1>1, <1>2, <1>4, WriteStep
  <2>3. KV!Finish(c, TRUE)
    BY <1>1, <1>4, ReplyFinishes DEF ReplyAfterNotify, Over
  <2>4. KV!CompareAndSwap(c, r)
    BY <1>1, <2>1, <2>2, <2>3 DEF KV!CompareAndSwap, Dict
  <2> QED BY <1>1, <2>4, Applies
<1>5. CASE /\ ~Matches(k, r.expected) /\ ~(~Exists(k) /\ r.expected = Absent)
           /\ entry' = IF Exists(k) THEN entry
                       ELSE [entry EXCEPT ![k] = StoreEntry(Empty, FALSE)]
           /\ Reply(c, FALSE)
  <2>1. Dict[k] # r.expected \/ (r.expected = Absent /\ k \in Mortal)
    BY <1>2, <1>3, <1>5 DEF Matches, Live
  <2>2. KV!Finish(c, FALSE)
    BY <1>1, <1>5, ReplyFinishes DEF Reply, Over
  <2>3. \/ Dict' = Dict /\ Mortal' = Mortal
        \/ Dict[k] = Absent /\ KV!Write(k, Empty, FALSE)
    <3>1. CASE Exists(k)
      BY <1>5, <3>1, EntrySame
    <3>2. CASE ~Exists(k)
      BY <1>1, <1>2, <1>3, <1>5, <3>2, WriteStep
    <3> QED BY <3>1, <3>2
  <2>4. KV!CompareAndSwap(c, r)
    BY <1>1, <2>1, <2>2, <2>3 DEF KV!CompareAndSwap, Dict, Mortal
  <2> QED BY <1>1, <2>4, Applies
<1> QED BY <1>1, <1>4, <1>5 DEF CompareAndSwap

\* A sum is stored in a live counter or in a key that was not there; a blob
\* and an expired entry stay, the latter with a stale reply.
LEMMA AddImplements ==
    ASSUME IInv, NEW c \in Conns, Add(c)
    PROVE  KV!Apply(c)
<1> DEFINE r == task[c].req
           k == r.keys[1]
           old == entry[k].val
           new == IF ~Exists(k) THEN r.val
                  ELSE IF Live(k) /\ old \in Words THEN WrappingAdd(old, r.val)
                  ELSE old
           e == [entry[k] EXCEPT !.val = new]
<1>1. /\ task[c].st = "serving" /\ UnchangedButEntry /\ r.op = "add"
      /\ entry' = [entry EXCEPT ![k].val = new]
      /\ ReplyAfterNotify(c, IF new \in Words THEN new ELSE 0)
  BY DEF Add, Serving, Key
<1>2. k \in Keys /\ entry[k] \in EntryType /\ r.val \in Words
  BY <1>1, KeyFacts, RequestFacts DEF Key
<1>3. /\ Live(k) => Dict[k] = old /\ Dict[k] # Absent /\ Dict[k] \in Values
      /\ ~Live(k) => Dict[k] = Absent
      /\ ~Exists(k) => Dict[k] = Absent /\ k \notin Mortal
      /\ IsExpired(k) => Dict[k] = Absent /\ k \in Mortal
  BY <1>2, DictFacts
<1>4. KV!Finish(c, IF new \in Words THEN new ELSE 0)
  BY <1>1, ReplyFinishes DEF ReplyAfterNotify, Over
<1>5. entry' = [entry EXCEPT ![k] = e] /\ e.val = new /\ e.expiry = entry[k].expiry
  <2>1. entry' = [entry EXCEPT ![k] = e]
    BY <1>1, <1>2 DEF IInv, TypeOK
  <2>2. e.val = new /\ e.expiry = entry[k].expiry
    BY <1>2 DEF EntryType, NoEntry
  <2> QED BY <2>1, <2>2
<1> HIDE DEF e
<1>6. /\ Dict' = [Dict EXCEPT ![k] = ValueOf(e)]
      /\ Mortal' = IF entry[k].expiry # "none" THEN Mortal \union {k} ELSE Mortal \ {k}
  BY <1>2, <1>5, EntryStep
<1>7. KV!Add(c, r)
  <2>1. CASE ~Exists(k)
    <3>1. new = r.val /\ r.val \in Words /\ (0 + r.val) % Modulus = r.val
      <4>1. new = r.val
        BY <2>1
      <4>2. \A n \in Words : (0 + n) % Modulus = n
        BY RequestAssumption DEF Words
      <4> QED BY <1>2, <4>1, <4>2
    <3>2. e.val # Absent /\ e.expiry = "none"
      BY <1>5, <2>1, <3>1, RequestAssumption DEF Exists, NoEntry, Values
    <3>3. ValueOf(e) = r.val
      BY <1>5, <3>1, <3>2 DEF ValueOf, NoEntry
    <3>4. Dict' = [Dict EXCEPT ![k] = r.val] /\ Mortal' = Mortal \ {k} /\ Dict[k] = Absent
      BY <1>3, <1>5, <1>6, <2>1, <3>2, <3>3
    <3>5. KV!Finish(c, r.val)
      BY <1>4, <3>1
    <3> QED BY <1>1, <3>1, <3>4, <3>5 DEF KV!Add, KV!Words, Words, Dict, Mortal
  <2>2. CASE Live(k) /\ old \in Words
    <3> DEFINE s == (old + r.val) % Modulus
    <3>1. new = s /\ s \in Words
      BY <1>2, <2>2, RequestAssumption DEF Words, WrappingAdd, Live
    <3>2. Dict[k] = old /\ Dict[k] # Absent
      BY <1>3, <2>2
    <3> HIDE DEF s
    <3>3. e.val # Absent /\ e.expiry = entry[k].expiry /\ e.expiry # "past"
      BY <1>5, <2>2, <3>1, RequestAssumption DEF Live, IsExpired, Values
    <3>4. ValueOf(e) = s
      BY <1>5, <3>1, <3>3 DEF ValueOf, NoEntry
    <3>5. Mortal' = Mortal
      BY <1>2, <1>6 DEF Mortal
    <3>6. Dict' = [Dict EXCEPT ![k] = s]
      BY <1>6, <3>4
    <3>7. KV!Finish(c, s)
      BY <1>4, <3>1
    <3>8. Dict[k] \in Words /\ s = ((IF Dict[k] = Absent THEN 0 ELSE Dict[k]) + r.val) % Modulus
      BY <2>2, <3>2 DEF s
    <3>9. KV!Finish(c, ((IF Dict[k] = Absent THEN 0 ELSE Dict[k]) + r.val) % Modulus)
      BY <3>7, <3>8 DEF KV!Finish
    <3>10. Dict' = [Dict EXCEPT
                       ![k] = ((IF Dict[k] = Absent THEN 0 ELSE Dict[k]) + r.val) % Modulus]
      BY <3>6, <3>8
    <3> QED BY <1>1, <3>2, <3>5, <3>8, <3>9, <3>10 DEF KV!Add, KV!Words, Words, Dict, Mortal
  <2>3. CASE Exists(k) /\ ~(Live(k) /\ old \in Words)
    <3>1. new = old
      BY <2>3
    <3>2. entry' = entry
      <4>1. e = entry[k]
        BY <1>2, <2>3, <3>1 DEF e, EntryType, Exists
      <4> QED BY <1>2, <1>5, <4>1 DEF IInv, TypeOK
    <3>3. Dict' = Dict /\ Mortal' = Mortal
      BY <3>2, EntrySame
    <3>4. CASE Live(k)
      <4>1. old \notin Words /\ Dict[k] = old /\ old \in Blobs
        BY <1>3, <2>3, <3>4 DEF Values
      <4>2. KV!Finish(c, 0)
        BY <1>4, <3>1, <4>1
      <4>3. Dict[k] \in Blobs
        BY <4>1
      <4> QED BY <1>1, <3>3, <4>2, <4>3 DEF KV!Add, KV!Words, Words, Dict, Mortal
    <3>5. CASE ~Live(k)
      <4>1. Dict[k] = Absent /\ k \in Mortal
        BY <1>3, <2>3, <3>5 DEF Live
      <4>2. (IF new \in Words THEN new ELSE 0) \in Words
        <5>1. 0 \in Words
          BY RequestAssumption DEF Words
        <5> HIDE DEF new
        <5> QED BY <5>1
      <4>3. \E stale \in Words : KV!Finish(c, stale)
        BY <1>4, <4>2
      <4> QED BY <1>1, <3>3, <4>1, <4>3 DEF KV!Add, KV!Words, Words, Dict, Mortal
    <3> QED BY <3>4, <3>5
  <2> QED BY <2>1, <2>2, <2>3 DEF Live
<1> QED BY <1>1, <1>7, Applies

\* A move within the states that KVStore calls pending is not seen.
LEMMA MoveUnseen ==
    ASSUME IInv, NEW c \in Conns, task[c].st \in Busy, NEW s \in Busy,
           task' = [task EXCEPT ![c].st = s], UNCHANGED <<entry, client>>
    PROVE  UNCHANGED KV!vars
<1>1. /\ \A d \in Conns : d # c => task'[d] = task[d]
      /\ task'[c] = [st |-> s, req |-> task[c].req, left |-> task[c].left,
                     count |-> task[c].count]
  BY MoveFacts DEF IInv
<1>2. /\ task'[c].st = s /\ task'[c].req = task[c].req /\ task'[c].left = task[c].left
      /\ task'[c].count = task[c].count
  BY <1>1
<1>3. Abstract(task'[c]) = PendingOf(task[c].req, task[c].left, task[c].count)
  BY <1>2, AbstractBusy
<1>4. Abstract(task[c]) = PendingOf(task[c].req, task[c].left, task[c].count)
  BY AbstractBusy
<1>5. Progress' = Progress
  BY <1>1, <1>3, <1>4, AbstractCalls DEF Progress
<1> QED BY <1>5, EntrySame, UnseenStutters DEF Unseen

LEMMA WaitImplements ==
    ASSUME IInv, NEW c \in Conns, WaitCheck(c) \/ WaitRegister(c) \/ WaitPark(c)
    PROVE  KV!Apply(c) \/ UNCHANGED KV!vars
<1> DEFINE left == task[c].left
<1>1. CASE WaitRegister(c) \/ WaitPark(c)
  <2>1. /\ task[c].st \in Busy /\ UNCHANGED <<entry, client>>
        /\ \E s \in Busy : task' = [task EXCEPT ![c].st = s]
    BY <1>1 DEF WaitRegister, WaitPark, UnchangedButEntry, Busy
  <2> QED BY <2>1, MoveUnseen
<1>2. CASE WaitCheck(c)
  <2>1. /\ task[c].st = "serving" /\ UnchangedButEntry /\ UNCHANGED <<entry, client>>
        /\ task[c].req.op = "wait"
    BY <1>2 DEF WaitCheck, Serving, UnchangedButEntry
  <2>2. Dict' = Dict /\ Mortal' = Mortal
    BY <2>1, EntrySame
  <2>3. Progress[c].left = left
    BY <2>1, ServingIsPending
  <2>4. CASE left = <<>> /\ Reply(c, "ok")
    <3>1. KV!Finish(c, "ok")
      BY <2>1, <2>4, ReplyFinishes DEF Reply, Over
    <3>2. KV!AwaitDone(c)
      BY <2>2, <2>3, <2>4, <3>1 DEF KV!AwaitDone, Dict, Mortal, Progress
    <3> QED BY <2>1, <3>2, Applies
  <2>5. CASE left # <<>> /\ Live(Head(left)) /\ task' = [task EXCEPT ![c].left = Tail(left)]
    <3>1. left \in Seq(Keys) /\ task[c].count \in Nat /\ task[c].req \in Requests
      BY <2>1, TaskFields DEF IInv, Busy
    <3>2. Tail(left) \in Seq(Keys) /\ Head(left) \in Keys
      BY <2>5, <3>1
    <3>3. Dict[Head(left)] # Absent
      BY <2>5, <3>2, DictFacts
    <3>4. Progress' = [Progress EXCEPT ![c] = PendingOf(task[c].req, Tail(left), task[c].count)]
      BY <2>1, <2>5, <3>1, <3>2, NextKeyProgress
    <3>5. Progress[c] \in PendingCall /\ Progress[c].req = task[c].req
             /\ Progress[c].count = task[c].count
      <4>1. Progress[c] = PendingOf(task[c].req, left, task[c].count)
        BY <2>1, ServingIsPending
      <4> QED BY <3>1, <4>1 DEF PendingCall, PendingOf
    <3>6. Passed(Progress[c], Tail(left)) = PendingOf(task[c].req, Tail(left), task[c].count)
      BY <3>2, <3>5, PendingMoves
    <3>7. [Progress EXCEPT ![c].left = Tail(left)]
             = [Progress EXCEPT ![c] = Passed(Progress[c], Tail(left))]
      BY DEF Progress, Passed
    <3>8. Progress' = [Progress EXCEPT ![c].left = Tail(Progress[c].left)]
      BY <2>3, <3>4, <3>6, <3>7
    <3>9. KV!AwaitKey(c)
      BY <2>1, <2>2, <2>3, <2>5, <3>3, <3>8 DEF KV!AwaitKey, Dict, Mortal, Progress
    <3> QED BY <2>1, <3>9, Applies
  <2>6. CASE task' = [task EXCEPT ![c].st = "register"]
    BY <2>1, <2>6, MoveUnseen DEF Busy
  <2> QED BY <1>2, <2>4, <2>5, <2>6 DEF WaitCheck
<1> QED BY <1>1, <1>2

LEMMA NotifyUnseen ==
    ASSUME IInv, NEW c \in Conns, Notify(c)
    PROVE  UNCHANGED KV!vars
<1>1. /\ task'[c] = [st |-> "replied", req |-> task[c].req, res |-> task[c].res]
      /\ \A d \in Conns : d # c =>
            \/ task'[d] = task[d]
            \/ /\ task[d].st = "parked" /\ task[d] \in BusyTask
               /\ task'[d] = [st |-> "serving", req |-> task[d].req, left |-> task[d].left,
                              count |-> task[d].count]
  BY NotifyKeeps
<1>2. task[c].st = "notify" /\ entry' = entry /\ client' = client
  BY DEF Notify, UnchangedButEntry
<1>3. Abstract(task'[c]) = Abstract(task[c])
  <2>1. task'[c].st = "replied" /\ task'[c].res = task[c].res
    BY <1>1
  <2> QED BY <1>2, <2>1, AbstractOver DEF Over
<1>4. ASSUME NEW d \in Conns, d # c
      PROVE  Abstract(task'[d]) = Abstract(task[d])
  <2>1. CASE task'[d] = task[d]
    BY <2>1
  <2>2. CASE /\ task[d].st = "parked"
             /\ task'[d] = [st |-> "serving", req |-> task[d].req, left |-> task[d].left,
                            count |-> task[d].count]
    <3>1. /\ task'[d].st = "serving" /\ task'[d].req = task[d].req
          /\ task'[d].left = task[d].left /\ task'[d].count = task[d].count
      BY <2>2
    <3>2. Abstract(task'[d]) = PendingOf(task[d].req, task[d].left, task[d].count)
      BY <3>1, AbstractBusy DEF Busy
    <3>3. Abstract(task[d]) = PendingOf(task[d].req, task[d].left, task[d].count)
      BY <2>2, AbstractBusy DEF Busy
    <3> QED BY <3>2, <3>3
  <2> QED BY <1>1, <1>4, <2>1, <2>2
<1>5. Progress' = Progress
  BY <1>3, <1>4, AbstractCalls DEF Progress
<1> QED BY <1>2, <1>5, EntrySame, UnseenStutters DEF Unseen

\* A call starts, or fails before it has reached the server.
LEMMA ConnectImplements ==
    ASSUME IInv, NEW c \in Conns, NEW r \in RequestsOf[c], Connect(c, r)
    PROVE  KV!Call(c, r) \/ KV!Fail(c)
<1>1. client[c] = "idle" /\ entry' = entry
  BY DEF Connect
<1>2. Dict' = Dict /\ Mortal' = Mortal
  BY <1>1, EntrySame
<1>3. CASE /\ client' = [client EXCEPT ![c] = "waiting"]
           /\ task' = [task EXCEPT ![c] = [st |-> "queued", req |-> r, left |-> r.keys,
                                            count |-> 0]]
  <2> DEFINE t == [st |-> "queued", req |-> r, left |-> r.keys, count |-> 0]
  <2>1. t.st = "queued" /\ t.req = r /\ t.left = r.keys /\ t.count = 0
    OBVIOUS
  <2>2. TaskOK(t)
    BY ConnAssumption, RequestFacts DEF TaskOK, BusyTask, Busy
  <2> HIDE DEF t
  <2>3. task'[c] = t /\ \A d \in Conns : d # c => task'[d] = task[d]
    BY <1>3, <2>2, TaskStep DEF IInv, t
  <2>4. Abstract(task'[c]) = PendingOf(r, r.keys, 0)
    BY <2>1, <2>3, AbstractBusy DEF Busy
  <2>5. Progress' = [Progress EXCEPT ![c] = PendingOf(r, r.keys, 0)]
    BY <2>3, <2>4, CallStep
  <2> QED BY <1>1, <1>2, <1>3, <2>5 DEF KV!Call, KV!Pending, PendingOf, Dict, Mortal, Progress
<1>4. CASE client' = [client EXCEPT ![c] = "error"] /\ UNCHANGED task
  <2>1. Progress' = Progress
    BY <1>4, AbstractCalls DEF Progress
  <2> QED BY <1>1, <1>2, <1>4, <2>1 DEF KV!Fail, Dict, Mortal, Progress
<1> QED BY <1>3, <1>4 DEF Connect

\* A call that ends: its task is gone.
LEMMA EndsCall ==
    ASSUME IInv, NEW c \in Conns, task' = [task EXCEPT ![c] = NoTask], entry' = entry
    PROVE  /\ Progress' = [Progress EXCEPT ![c] = [st |-> "none"]]
           /\ Dict' = Dict /\ Mortal' = Mortal
<1>1. task'[c] = NoTask /\ \A d \in Conns : d # c => task'[d] = task[d]
  BY EndFacts DEF IInv
<1>2. Abstract(task'[c]) = [st |-> "none"]
  BY <1>1, AbstractNone
<1> QED BY <1>1, <1>2, CallStep, EntrySame

LEMMA ClientImplements ==
    ASSUME IInv, NEW c \in Conns,
           ReadReply(c) \/ TimeOut(c) \/ Reset(c) \/ HangUp(c) \/ Accept(c)
    PROVE  KV!Return(c) \/ KV!Fail(c) \/ KV!Drop(c) \/ UNCHANGED KV!vars
<1>1. Progress[c] = Abstract(task[c])
  BY AbstractCalls DEF Progress
<1>2. task[c].st = "replied" => Progress[c].st = "done"
  BY <1>1, AbstractOver DEF Over, DoneWith
<1>3. task[c].st = "queued" => Progress[c].st = "pending"
  BY <1>1, AbstractBusy DEF Busy, PendingOf
<1>4. CASE ReadReply(c)
  <2>1. /\ client[c] = "waiting" /\ client' = [client EXCEPT ![c] = "ok"]
        /\ Progress[c].st = "done"
    BY <1>2, <1>4 DEF ReadReply
  <2>2. /\ Progress' = [Progress EXCEPT ![c] = [st |-> "none"]]
        /\ Dict' = Dict /\ Mortal' = Mortal
    BY <1>4, EndsCall DEF ReadReply
  <2>3. KV!Return(c)
    BY <2>1, <2>2 DEF KV!Return, KV!NoCall, Dict, Mortal, Progress
  <2> QED BY <2>3
<1>5. CASE TimeOut(c)
  <2>1. client[c] = "waiting" /\ client' = [client EXCEPT ![c] = "error"]
    BY <1>5 DEF TimeOut
  <2>2. Progress' = Progress /\ Dict' = Dict /\ Mortal' = Mortal
    BY <1>5, AbstractCalls, EntrySame DEF TimeOut, Progress
  <2>3. KV!Fail(c)
    BY <2>1, <2>2 DEF KV!Fail, Dict, Mortal, Progress
  <2> QED BY <2>3
<1>6. CASE Reset(c) \/ HangUp(c)
  <2>1. /\ client' = [client EXCEPT ![c] = "error"] /\ Progress[c].st # "none"
    <3>1. CASE Reset(c)
      BY <1>3, <3>1 DEF Reset
    <3>2. CASE HangUp(c)
      <4>1. client' = client /\ client[c] = "error" /\ DOMAIN client = Conns
        BY <3>2 DEF HangUp, IInv, TypeOK
      <4>2. client = [client EXCEPT ![c] = "error"]
        BY <4>1 DEF IInv, TypeOK
      <4> QED BY <1>2, <3>2, <4>1, <4>2 DEF HangUp
    <3> QED BY <1>6, <3>1, <3>2
  <2>2. /\ Progress' = [Progress EXCEPT ![c] = [st |-> "none"]]
        /\ Dict' = Dict /\ Mortal' = Mortal
    BY <1>6, EndsCall DEF Reset, HangUp
  <2>3. KV!Drop(c)
    BY <2>1, <2>2 DEF KV!Drop, KV!NoCall, Dict, Mortal, Progress
  <2> QED BY <2>3
<1>7. CASE Accept(c)
  BY <1>7, MoveUnseen DEF Accept, Busy
<1> QED BY <1>4, <1>5, <1>6, <1>7

\* An entry expires, and is swept.
LEMMA ExpiryImplements ==
    ASSUME IInv, NEW k \in Keys, Cleanup(k) \/ Expire(k)
    PROVE  KV!Lapse(k) \/ KV!Sweep(k)
<1>1. entry[k] \in EntryType /\ entry \in [Keys -> EntryType]
  BY DEF IInv, TypeOK, EntryType
<1>2. task' = task /\ client' = client
  BY DEF Cleanup, Expire
<1>3. Progress' = Progress
  BY <1>2, AbstractCalls DEF Progress
<1>4. CASE Cleanup(k)
  <2>1. Dict[k] = Absent /\ k \in Mortal
    BY <1>4, DictFacts DEF Cleanup
  <2>2. Dict' = [Dict EXCEPT ![k] = Absent] /\ Mortal' = Mortal \ {k}
    BY <1>4, RemoveStep DEF Cleanup
  <2>3. Dict' = Dict
    BY <2>1, <2>2 DEF Dict
  <2>4. KV!Sweep(k)
    BY <1>2, <1>3, <2>1, <2>2, <2>3 DEF KV!Sweep, Dict, Mortal, Progress
  <2> QED BY <2>4
<1>5. CASE Expire(k)
  <2> DEFINE e == [entry[k] EXCEPT !.expiry = "past"]
  <2>1. /\ entry[k] \in [val : Values, expiry : {"none", "ahead", "past"}]
        /\ entry[k].expiry = "ahead"
    BY <1>1, <1>5 DEF Expire, EntryType, NoEntry
  <2>2. Live(k)
    BY <2>1 DEF Live, Exists, IsExpired, NoEntry
  <2>3. k \in Mortal /\ Dict[k] # Absent
    BY <2>1, <2>2, DictFacts DEF Mortal
  <2>4. entry' = [entry EXCEPT ![k] = e]
    BY <1>1, <1>5 DEF Expire
  <2>5. e.expiry = "past"
    BY <2>1
  <2> HIDE DEF e
  <2>6. ValueOf(e) = Absent
    BY <2>5 DEF ValueOf
  <2>7. Dict' = [Dict EXCEPT ![k] = Absent] /\ Mortal' = Mortal
    <3>1. /\ Dict' = [Dict EXCEPT ![k] = Absent]
          /\ Mortal' = IF e.expiry # "none" THEN Mortal \union {k} ELSE Mortal \ {k}
      BY <2>4, <2>6, EntryStep
    <3> QED BY <2>3, <2>5, <3>1
  <2>8. KV!Lapse(k)
    BY <1>2, <1>3, <2>3, <2>7 DEF KV!Lapse, Dict, Mortal, Progress
  <2> QED BY <2>8
<1> QED BY <1>4, <1>5

LEMMA ShutdownUnseen ==
    ASSUME Shutdown \/ UNCHANGED vars
    PROVE  UNCHANGED KV!vars
<1>1. UNCHANGED <<entry, task, client>>
  BY DEF Shutdown, vars
<1>2. Progress' = Progress
  BY <1>1, AbstractCalls DEF Progress
<1> QED BY <1>1, <1>2, EntrySame, UnseenStutters DEF Unseen

LEMMA StepImplements == IInv /\ [Next]_vars => [KV!Next]_(KV!vars)
<1> SUFFICES ASSUME IInv, [Next]_vars PROVE KV!Next \/ UNCHANGED KV!vars
  OBVIOUS
<1>1. ASSUME NEW c \in Conns, ServerStep(c) PROVE KV!Next \/ UNCHANGED KV!vars
  <2>1. KV!Apply(c) \/ UNCHANGED KV!vars
    BY <1>1, QueryImplements, NumKeysImplements, SetImplements, DeleteImplements,
       CompareAndSwapImplements, AddImplements, NotifyUnseen, WaitImplements DEF ServerStep
  <2> QED BY <2>1 DEF KV!Next
<1>2. ASSUME NEW c \in Conns, NEW r \in RequestsOf[c], Connect(c, r) PROVE KV!Next
  <2>1. r \in Requests
    BY ConnAssumption
  <2> QED BY <1>2, <2>1, ConnectImplements DEF KV!Next
<1>3. ASSUME NEW c \in Conns, ReadReply(c) \/ TimeOut(c) \/ Accept(c) \/ Reset(c) \/ HangUp(c)
      PROVE  KV!Next \/ UNCHANGED KV!vars
  <2>1. KV!Return(c) \/ KV!Fail(c) \/ KV!Drop(c) \/ UNCHANGED KV!vars
    BY <1>3, ClientImplements
  <2> QED BY <2>1 DEF KV!Next
<1>4. ASSUME NEW k \in Keys, Cleanup(k) \/ Expire(k) PROVE KV!Next
  BY <1>4, ExpiryImplements DEF KV!Next
<1>5. CASE Shutdown \/ UNCHANGED vars
  BY <1>5, ShutdownUnseen
<1> QED BY <1>1, <1>2, <1>3, <1>4, <1>5 DEF Next

\* The server and its clients, with timeouts, expiry and shutdown, are an
\* atomic key-value store: every operation takes effect at one instant.
THEOREM StoreImplementsKVStore == Spec => ImplementsKVStore
BY InitImplements, StepImplements, StoreInvariant, PTL DEF Spec, ImplementsKVStore, KV!Spec
=============================================================================
