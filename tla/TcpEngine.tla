----------------------------- MODULE TcpEngine -----------------------------
(***************************************************************************)
(* Collective communication over the TCP store.  Every rank has one        *)
(* TcpEngine; a collective gets a tag from the engine's counter of its     *)
(* namespace, posts what the rank contributes under keys derived from the  *)
(* tag and polls the keys of its peers until they are there or a deadline  *)
(* elapses.  Nothing but the tag relates the calls of different ranks, and *)
(* the keys of a collective are never deleted.                             *)
(*                                                                         *)
(* The engine is shared: several tasks of a rank may be inside a           *)
(* collective at once.  Each task runs a program, a sequence of            *)
(* collectives.  The store is the atomic one of KVStore, of which only set *)
(* and get are used here; set answers, or ends in an error and is applied  *)
(* at once, later or never.                                                *)
(***************************************************************************)
EXTENDS Integers, FiniteSets, Sequences

CONSTANTS
    Ranks,      \* the ranks, numbers from 0 in the code
    Master,     \* the rank that runs the store's server
    Groups,     \* namespaces: the world and the communication groups
    World,      \* the namespace of the global group, "" in the code
    Members,    \* the ranks of every group
    Tasks,      \* the tasks that issue collectives
    RankOf,     \* the rank a task runs in
    Program,    \* the collectives a task issues, in order
    OnError,    \* what a task does after an error: "stop", "skip", "retry"
    Faults,     \* of "input", "connect", "post", "timeout", "crash"
    MaxTags     \* bound: a task stops retrying once its counter has reached it

Exchanges == {"all_reduce", "all_gather", "reduce", "barrier"}
Kinds == Exchanges \union {"broadcast", "scatter", "all_to_all"}

\* root is the root of a broadcast, the source of a scatter, the destination
\* of a reduce; buf names the buffer the application passes.
Collective == [kind : Kinds, ns : Groups, root : Ranks, buf : STRING]

ASSUME EngineAssumption ==
    /\ Ranks \subseteq Nat /\ IsFiniteSet(Ranks)
    /\ Master \in Ranks
    /\ World \in Groups
    /\ Members \in [Groups -> SUBSET Ranks]
    /\ RankOf \in [Tasks -> Ranks]
    /\ Program \in [Tasks -> Seq(Collective)]
    /\ OnError \subseteq {"stop", "skip", "retry"}
    /\ Faults \subseteq {"input", "connect", "post", "timeout", "crash"}
    /\ MaxTags \in Nat

VARIABLES
    seqs,       \* TcpEngine.seqs: the next sequence number of every namespace
    connected,  \* the ranks whose OnceCell holds the store
    up,         \* whether the master's server answers
    store,      \* the entries of the store, never two with the same key
    late,       \* entries of sets given up on that the server may yet apply
    at,         \* a task's place in its program
    phase,      \* where the task is in that collective
    mine,       \* the sequence number the task holds, NoSeq if none
    posted,     \* the slots it has posted
    got,        \* the contributions it has polled
    results     \* what the collectives that ended without an error returned

vars == <<seqs, connected, up, store, late, at, phase, mine, posted, got, results>>
-----------------------------------------------------------------------------
(* Tags, keys and payloads.  A key is a tag and a slot: /r0 is the slot      *)
(* <<0, 0>>, /root0 likewise (no operation uses both), /0_to_1 is <<0, 1>>.  *)

NoSeq == -1
Tag == [ns : Groups, op : Kinds, seq : Nat]
Slot == Ranks \X Ranks
Key == [tag : Tag, slot : Slot]

\* What is in a payload is who posted it, for which collective, into which
\* slot.  A contribution is a payload and the slot it was polled for.
Payload == [task : Tasks, at : Nat, slot : Slot]
Contribution == [slot : Slot, val : Payload]
Entry == [key : Key, val : Payload]

Coll(t) == Program[t][at[t]]
HasNext(t) == at[t] \in 1 .. Len(Program[t])
\* Mutant: the tag does not name the group.
TagOfNoGroup(t) == [ns |-> World, op |-> Coll(t).kind, seq |-> mine[t]]

TagOf(t) == [ns |-> Coll(t).ns, op |-> Coll(t).kind, seq |-> mine[t]]
\* Mutants: the key names no rank; a directed key does not name its receiver.
KeyOfNobody(t, s) == [tag |-> TagOf(t), slot |-> <<Master, Master>>]
KeyOfSender(t, s) == [tag |-> TagOf(t), slot |-> <<s[1], s[1]>>]

KeyOf(t, s) == [tag |-> TagOf(t), slot |-> s]
PayloadOf(t, s) == [task |-> t, at |-> at[t], slot |-> s]
EntryOf(t, s) == [key |-> KeyOf(t, s), val |-> PayloadOf(t, s)]

\* Setting a key replaces the entry it had.
Put(entries, e) == {x \in entries : x.key # e.key} \union {e}

\* The slots a rank posts in a collective, and those whose payloads it needs.
PostSlots(c, r) ==
    CASE c.kind \in Exchanges -> {<<r, r>>}
      [] c.kind = "broadcast" -> {<<p, p>> : p \in {r} \intersect {c.root}}
      [] c.kind = "scatter" -> {<<p, p>> : p \in {q \in Members[c.ns] : r = c.root}}
      [] c.kind = "all_to_all" -> {<<r, p>> : p \in Members[c.ns]}

NeedSlots(c, r) ==
    CASE c.kind \in Exchanges -> {<<p, p>> : p \in Members[c.ns]}
      [] c.kind = "broadcast" -> {<<c.root, c.root>>}
      [] c.kind = "scatter" -> {<<r, r>>}
      [] c.kind = "all_to_all" -> {<<p, r>> : p \in Members[c.ns]}

\* A rank has its own payload at hand; the source of a scatter reads it back.
LocalSlots(c, r) == IF c.kind = "scatter" THEN {} ELSE NeedSlots(c, r) \intersect {<<r, r>>}

ToPost(t) == PostSlots(Coll(t), RankOf[t]) \ posted[t]

\* Mutant: a rank polls only those before it.
ToPollBelow(t) ==
    {s \in NeedSlots(Coll(t), RankOf[t]) : s[1] < RankOf[t]} \ {x.slot : x \in got[t]}

ToPoll(t) == (NeedSlots(Coll(t), RankOf[t]) \ LocalSlots(Coll(t), RankOf[t]))
                \ {x.slot : x \in got[t]}

\* The participants are gone through in order.
First(slots) == {s \in slots : \A u \in slots : s[1] + s[2] =< u[1] + u[2]}

\* Mutant: a rank leaves out its own contribution.
ReturnedByOthers(t) == got[t]

\* The caller of a barrier, or of a reduce to another rank, gets nothing.
Returned(t) ==
    IF Coll(t).kind = "barrier" \/ (Coll(t).kind = "reduce" /\ Coll(t).root # RankOf[t])
    THEN {}
    ELSE got[t] \union
         {[slot |-> s, val |-> PayloadOf(t, s)] : s \in LocalSlots(Coll(t), RankOf[t])}

Result(t) == [task |-> t, at |-> at[t], tag |-> TagOf(t), value |-> Returned(t)]
-----------------------------------------------------------------------------
Init ==
    /\ seqs = [r \in Ranks |-> [g \in Groups |-> 0]]
    /\ connected = {} /\ up = FALSE
    /\ store = {} /\ late = {}
    /\ at = [t \in Tasks |-> 1]
    /\ phase = [t \in Tasks |-> "ready"]
    /\ mine = [t \in Tasks |-> NoSeq]
    /\ posted = [t \in Tasks |-> {}]
    /\ got = [t \in Tasks |-> {}]
    /\ results = {}

\* Mutant: the counter is read, not moved.
SameTag(t) ==
    /\ mine' = [mine EXCEPT ![t] = seqs[RankOf[t]][Coll(t).ns]]
    /\ UNCHANGED seqs

\* next_tag: fetch_add on the counter of the namespace.
NextTag(t) ==
    LET r == RankOf[t]
        g == Coll(t).ns
    IN /\ mine' = [mine EXCEPT ![t] = seqs[r][g]]
       /\ seqs' = [seqs EXCEPT ![r][g] = @ + 1]

KeepTag == UNCHANGED <<mine, seqs>>

\* Mutant: every collective looks for the store first.
NeverTagFirst(c) == FALSE

\* An exchange takes its tag before it looks for the store, the others after.
TagFirst(c) == c.kind \in Exchanges

\* Mutant: every collective keeps the backend locked until it ends.
HoldsThroughout(t) == phase[t] \in {"connect", "run"}

\* The global barrier runs under the write lock of the process group's
\* backend; every other collective takes its read lock on the way in.
HoldsBackend(t) ==
    /\ phase[t] \in {"connect", "run"}
    /\ Coll(t).kind = "barrier" /\ Coll(t).ns = World

BackendFree(t) == ~ \E u \in Tasks \ {t} : RankOf[u] = RankOf[t] /\ HoldsBackend(u)

Issues(t) == phase[t] = "ready" /\ HasNext(t)

IsMember(t) == RankOf[t] \in Members[Coll(t).ns]
TakesPart(t) == IsMember(t) /\ Cardinality(Members[Coll(t).ns]) > 1

\* A collective of a group the rank is not in, or is alone in, does nothing;
\* some of them look at the backend all the same.
PassOver(t) ==
    /\ Issues(t) /\ ~TakesPart(t)
    /\ IsMember(t) /\ (Coll(t).ns = World \/ Coll(t).kind = "all_gather") => BackendFree(t)
    /\ at' = [at EXCEPT ![t] = @ + 1]
    /\ UNCHANGED <<seqs, connected, up, store, late, phase, mine, posted, got, results>>

Begin(t) ==
    /\ Issues(t) /\ TakesPart(t) /\ BackendFree(t)
    /\ phase' = [phase EXCEPT ![t] = "connect"]
    /\ IF TagFirst(Coll(t)) THEN NextTag(t) ELSE KeepTag
    /\ UNCHANGED <<connected, up, store, late, at, posted, got, results>>

\* What every error does: the collective returns it, and the application stops
\* the task, goes on to its next collective, or issues this one again.
Error(t) ==
    /\ posted' = [posted EXCEPT ![t] = {}]
    /\ got' = [got EXCEPT ![t] = {}]
    /\ \/ /\ "stop" \in OnError
          /\ phase' = [phase EXCEPT ![t] = "halted"] /\ UNCHANGED at
       \/ /\ "skip" \in OnError
          /\ phase' = [phase EXCEPT ![t] = "ready"]
          /\ at' = [at EXCEPT ![t] = @ + 1]
       \/ /\ "retry" \in OnError
          /\ phase' = [phase EXCEPT ![t] = IF seqs[RankOf[t]][Coll(t).ns] < MaxTags
                                          THEN "ready" ELSE "halted"]
          /\ UNCHANGED at
    /\ UNCHANGED results

\* The arguments are rejected, or the backend is not ready: no tag is taken
\* and nothing reaches the store.
Reject(t) ==
    /\ "input" \in Faults
    /\ Issues(t) /\ TakesPart(t) /\ BackendFree(t)
    /\ Error(t)
    /\ UNCHANGED <<seqs, connected, up, store, late, mine>>

\* ensure_store: the master starts the server, the others find it answering.
Connect(t) ==
    LET r == RankOf[t] IN
    /\ phase[t] = "connect"
    /\ r \in connected \/ r = Master \/ up
    /\ connected' = connected \union {r}
    /\ up' = (up \/ (r = Master /\ r \notin connected))
    /\ phase' = [phase EXCEPT ![t] = "run"]
    /\ IF TagFirst(Coll(t)) THEN KeepTag ELSE NextTag(t)
    /\ UNCHANGED <<store, late, at, posted, got, results>>

\* The server did not answer in time: a tag already taken is spent.
ConnectTimeout(t) ==
    /\ "connect" \in Faults
    /\ phase[t] = "connect" /\ RankOf[t] \notin connected /\ RankOf[t] # Master
    /\ Error(t)
    /\ mine' = [mine EXCEPT ![t] = NoSeq]
    /\ UNCHANGED <<seqs, connected, up, store, late>>

\* store_set of the next slot.
Post(t) ==
    /\ phase[t] = "run" /\ up
    /\ \E s \in First(ToPost(t)) :
          /\ store' = Put(store, EntryOf(t, s))
          /\ posted' = [posted EXCEPT ![t] = @ \union {s}]
    /\ UNCHANGED <<seqs, connected, up, late, at, phase, mine, got, results>>

\* store_set gives up: the server has applied the set, will, or never does.
PostError(t) ==
    /\ "post" \in Faults
    /\ phase[t] = "run"
    /\ \E s \in First(ToPost(t)) :
          \/ up /\ store' = Put(store, EntryOf(t, s)) /\ UNCHANGED late
          \/ up /\ late' = late \union {EntryOf(t, s)} /\ UNCHANGED store
          \/ UNCHANGED <<store, late>>
    /\ Error(t)
    /\ mine' = [mine EXCEPT ![t] = NoSeq]
    /\ UNCHANGED <<seqs, connected, up>>

LateSet(e) ==
    /\ up /\ e \in late
    /\ store' = Put(store, e)
    /\ late' = late \ {e}
    /\ UNCHANGED <<seqs, connected, up, at, phase, mine, posted, got, results>>

\* Mutant: the deadline is looked at only when the store has answered.
PollsWhileUp(t) == phase[t] = "run" /\ ToPost(t) = {} /\ ToPoll(t) # {} /\ up

Polls(t) == phase[t] = "run" /\ ToPost(t) = {} /\ ToPoll(t) # {}

\* poll_get finds the next slot it needs.
Poll(t) ==
    /\ Polls(t) /\ up
    /\ \E s \in First(ToPoll(t)), e \in store :
          /\ e.key = KeyOf(t, s)
          /\ got' = [got EXCEPT ![t] = @ \union {[slot |-> s, val |-> e.val]}]
    /\ UNCHANGED <<seqs, connected, up, store, late, at, phase, mine, posted, results>>

\* poll_get gives up.
PollTimeout(t) ==
    /\ "timeout" \in Faults
    /\ Polls(t)
    /\ Error(t)
    /\ mine' = [mine EXCEPT ![t] = NoSeq]
    /\ UNCHANGED <<seqs, connected, up, store, late>>

Finish(t) ==
    /\ phase[t] = "run" /\ ToPost(t) = {} /\ ToPoll(t) = {}
    /\ results' = results \union {Result(t)}
    /\ phase' = [phase EXCEPT ![t] = "ready"]
    /\ at' = [at EXCEPT ![t] = @ + 1]
    /\ mine' = [mine EXCEPT ![t] = NoSeq]
    /\ posted' = [posted EXCEPT ![t] = {}]
    /\ got' = [got EXCEPT ![t] = {}]
    /\ UNCHANGED <<seqs, connected, up, store, late>>

\* The process of a rank dies, the master's with the server.
Crash(r) ==
    /\ "crash" \in Faults
    /\ \E t \in Tasks : RankOf[t] = r /\ phase[t] # "halted"
    /\ phase' = [t \in Tasks |-> IF RankOf[t] = r THEN "halted" ELSE phase[t]]
    /\ mine' = [t \in Tasks |-> IF RankOf[t] = r THEN NoSeq ELSE mine[t]]
    /\ up' = (up /\ r # Master)
    /\ UNCHANGED <<seqs, connected, store, late, at, posted, got, results>>

TaskStep(t) ==
    \/ PassOver(t) \/ Begin(t) \/ Reject(t) \/ Connect(t) \/ ConnectTimeout(t)
    \/ Post(t) \/ PostError(t) \/ Poll(t) \/ PollTimeout(t) \/ Finish(t)

Next ==
    \/ \E t \in Tasks : TaskStep(t)
    \/ \E e \in late : LateSet(e)
    \/ \E r \in Ranks : Crash(r)

Spec == Init /\ [][Next]_vars

\* The runtime polls every task that can go on, and a deadline, where there is
\* one, elapses in the end; no fault is bound to happen.
FairSpec == Spec /\ \A t \in Tasks : WF_vars(TaskStep(t))
-----------------------------------------------------------------------------
(* Properties.                                                              *)

TypeOK ==
    /\ seqs \in [Ranks -> [Groups -> Nat]]
    /\ connected \subseteq Ranks
    /\ up \in BOOLEAN
    /\ store \subseteq Entry
    /\ late \subseteq Entry
    /\ at \in [Tasks -> Nat]
    /\ phase \in [Tasks -> {"ready", "connect", "run", "halted"}]
    /\ mine \in [Tasks -> Nat \union {NoSeq}]
    /\ posted \in [Tasks -> SUBSET Slot]
    /\ got \in [Tasks -> SUBSET Contribution]
    /\ results \subseteq [task : Tasks, at : Nat, tag : Tag, value : SUBSET Contribution]
    /\ \A t \in Tasks : phase[t] \in {"connect", "run"} => HasNext(t)
    /\ \A t \in Tasks :
          phase[t] = "run" \/ (phase[t] = "connect" /\ Coll(t).kind \in Exchanges)
            => mine[t] \in Nat

Gathering == {"all_reduce", "all_gather", "broadcast", "all_to_all"}
Returns(kinds) == {o \in results : o.tag.op \in kinds}
CollectiveOf(o) == Program[o.task][o.at]

\* The ranks that returned from an all_reduce or all_gather with one tag hold
\* the same contributions, hence the same reduction, whatever failed meanwhile
\* (tcp_backend.rs:500-590: the keys of a tag are written once).
TagAgreement ==
    \A o1, o2 \in Returns({"all_reduce", "all_gather"}) :
        o1.tag = o2.tag => o1.value = o2.value

\* What a collective returns holds one contribution for every participant it
\* needs one of, posted by that participant into the slot it is taken from.
EachContributesOnce ==
    \A o \in Returns(Gathering) :
        LET needed == NeedSlots(CollectiveOf(o), RankOf[o.task]) IN
        /\ \A s \in needed : \E x \in o.value :
              x.slot = s /\ x.val.slot = s /\ RankOf[x.val.task] = s[1]
        /\ \A x, y \in o.value : x.slot = y.slot => x = y
        /\ {x.slot : x \in o.value} = needed

\* A rank leaves an exchange, so a barrier, only when every participant has
\* entered the one with its tag.
NobodyLeavesEarly ==
    \A o \in Returns(Exchanges) :
        \A r \in Members[o.tag.ns] : seqs[r][o.tag.ns] > o.tag.seq

\* A key that was there stays, with the value it had: what one participant
\* has read every other will read.
KeysAreWrittenOnce ==
    [][\A e \in store : e.key.tag.op # "scatter" => e \in store']_vars

(* Why they hold.  Every part but the first is about what a task, a key or   *)
(* a result says of the counters and the store; scatter, whose source posts  *)
(* under the other ranks' slots, is left out.                                *)

Sent == {e \in store \union late : e.key.tag.op # "scatter"}

\* A task holds a sequence number only inside a collective.
Tagged(t) == mine[t] # NoSeq
TaggedIsInside ==
    \A t \in Tasks :
        /\ Tagged(t) => phase[t] \in {"connect", "run"}
        /\ phase[t] \in {"ready", "connect"} => posted[t] = {} /\ got[t] = {}

\* The counter is past every number handed out, and no two tasks of a rank
\* hold the same number of a namespace.
NumbersAreFresh ==
    \A t \in Tasks : Tagged(t) =>
        /\ mine[t] < seqs[RankOf[t]][Coll(t).ns]
        /\ \A u \in Tasks \ {t} :
              Tagged(u) /\ RankOf[u] = RankOf[t] /\ Coll(u).ns = Coll(t).ns
                => mine[u] # mine[t]

\* A key is written by the rank its slot names, with a number that rank took.
KeysAreOwned ==
    \A e \in Sent :
        /\ e.val.slot = e.key.slot
        /\ RankOf[e.val.task] = e.key.slot[1]
        /\ e.key.tag.seq < seqs[e.key.slot[1]][e.key.tag.ns]

\* A key has one value, and has none before its task posts it.
KeysAreUnique == \A d, e \in Sent : d.key = e.key => d = e
UnpostedAreFree ==
    \A t \in Tasks : Tagged(t) => \A s \in ToPost(t), e \in Sent : e.key # KeyOf(t, s)

\* What a task has posted and polled is in the store under its tag.
Backed(tag, x) == [key |-> [tag |-> tag, slot |-> x.slot], val |-> x.val] \in store
InHandIsStored ==
    \A t \in Tasks : Tagged(t) /\ phase[t] = "run" /\ Coll(t).kind # "scatter" =>
        /\ \A s \in posted[t] : EntryOf(t, s) \in store
        /\ \A x \in got[t] : Backed(TagOf(t), x) /\ x.slot \in NeedSlots(Coll(t), RankOf[t])

\* So is what a collective returned, and it is complete.
ResultsAreStored ==
    \A o \in Returns(Gathering) :
        /\ CollectiveOf(o) \in Collective
        /\ o.tag.op = CollectiveOf(o).kind /\ o.tag.ns = CollectiveOf(o).ns
        /\ {x.slot : x \in o.value} = NeedSlots(CollectiveOf(o), RankOf[o.task])
        /\ \A x \in o.value : Backed(o.tag, x)

IInv ==
    /\ TypeOK /\ TaggedIsInside /\ NumbersAreFresh /\ KeysAreOwned /\ KeysAreUnique
    /\ UnpostedAreFree /\ InHandIsStored /\ ResultsAreStored /\ NobodyLeavesEarly
-----------------------------------------------------------------------------
(* Properties that do not hold of every program.                            *)

Buffer(task, place) == Program[task][place].buf

\* tcp_backend.rs:24-31, the contract: every rank issues the same collectives in
\* the same order.  In a group that is one task of a rank, which stops after an
\* error; and the collectives whose turn in the group is the same are one.
Turn(t, i) == Cardinality({j \in 1 .. i - 1 : Program[t][j].ns = Program[t][i].ns})
KeepsContract ==
    /\ OnError \subseteq {"stop"}
    /\ \A t, u \in Tasks : \A i \in DOMAIN Program[t], j \in DOMAIN Program[u] :
          Program[t][i].ns = Program[u][j].ns =>
              /\ t = u \/ RankOf[t] # RankOf[u]
              /\ Turn(t, i) = Turn(u, j) => Buffer(t, i) = Buffer(u, j)

\* tcp_backend.rs:24-31: the contributions a collective returns were made for
\* the same buffer; a rank out of step "waits on a key that never appears and
\* fails with an operation_timeout".
BuffersMatch ==
    \A o \in Returns(Kinds) : \A x \in o.value :
        Buffer(x.val.task, x.val.at) = Buffer(o.task, o.at)

\* tcp_backend.rs:24-31 again: a collective ends, if need be in an error,
\* "rather than hanging forever".
NothingHangs ==
    \A t \in Tasks : phase[t] \in {"connect", "run"} ~> phase[t] \in {"ready", "halted"}

\* As long as nobody fails, tasks that keep to the contract get through their
\* programs: neither the groups nor the lock of the barrier block them.
Failed == \E t \in Tasks : phase[t] = "halted"
AllFinish == <>(Failed \/ \A t \in Tasks : phase[t] = "ready" /\ ~HasNext(t))
=============================================================================
