------------------------------ MODULE DdpSync ------------------------------
(***************************************************************************)
(* DistributedDataParallel: every rank trains a replica of one model, and  *)
(* after a backward pass the gradients of the replicas are averaged.       *)
(* sync_gradients does it in the rank's main task, bucket by bucket, or    *)
(* parameter by parameter when there are no buckets.  With overlap, the    *)
(* backward pass also registers every gradient with a worker task, which   *)
(* spawns one more task per bucket that is complete.                       *)
(*                                                                         *)
(* All of them call all_reduce on the global group.  What the engine       *)
(* promises of it (TcpEngine) is all that is used here: the k-th call of a *)
(* rank meets the k-th call of every other rank, whatever those are about. *)
(***************************************************************************)
EXTENDS Integers, FiniteSets, Sequences, SequencesExt

CONSTANTS
    Ranks,      \* the processes
    Params,     \* the names of the parameters
    Setups,     \* what a program may be configured with, and its model be like
    Faults,     \* of "timeout": whether the engine's deadline may elapse
    MaxSteps    \* bound: the backward passes of a rank

\* The orders in which a program may go through the parameters.
Orders == {o \in [1 .. Cardinality(Params) -> Params] :
              /\ \A i, j \in DOMAIN o : o[i] = o[j] => i = j
              /\ \A p \in Params : \E i \in DOMAIN o : o[i] = p}

\* cap is the size a bucket may have, hash the order in which a rank's hash
\* map yields the parameters, arrival the order in which its backward pass
\* registers gradients, sync whether the program calls sync_gradients; steps
\* is how many backward passes it runs, and useSets the sets of parameters to
\* which one may give gradients.
Setup == [bucketed : BOOLEAN, overlap : BOOLEAN, sync : BOOLEAN, permits : Nat,
          size : [Params -> Nat \ {0}], cap : Nat,
          hash : [Ranks -> Orders], arrival : [Ranks -> Orders],
          steps : 0 .. MaxSteps, useSets : SUBSET SUBSET Params]

ASSUME DdpAssumption ==
    /\ IsFiniteSet(Ranks) /\ Cardinality(Ranks) > 1
    /\ IsFiniteSet(Params) /\ Params # {}
    /\ Setups \subseteq Setup
    /\ Faults \subseteq {"timeout"}
    /\ MaxSteps \in Nat

VARIABLES
    setup,      \* never changes
    buckets,    \* gradient_buckets and param_to_bucket of every rank
    uses,       \* the gradients that every backward pass of the rank gave
    pc,         \* idle, in backward, or in sync_gradients
    todo,       \* gradients the backward pass has yet to register
    queue,      \* what sync_gradients has yet to end, the first first
    mainTag,    \* the call the main task waits for, NoTag if none
    ok,         \* whether the last sync_gradients returned without an error
    grad,       \* the gradients of the parameters
    channel,    \* gradients the worker has not received yet
    pending,    \* pending_gradients of the worker, by bucket
    reductions, \* the tasks spawned for complete buckets, in that order
    calls,      \* the all_reduce calls of a rank, in the order of their tags
    clean       \* no call of sync_gradients has failed

vars == <<setup, buckets, uses, pc, todo, queue, mainTag, ok, grad, channel, pending, reductions,
          calls, clean>>
mainVars == <<uses, pc, todo, queue, ok, grad, clean>>

NoTag == 0
Ended == -1

\* A gradient is what it is made of: whose it is, of which parameter and
\* which backward pass.  The average of gradients is the union.
Gradient == SUBSET (Ranks \X Params \X (1 .. MaxSteps))
Named == [name : Params, grad : Gradient]
None == {}

\* Who calls is the main task, 0, or the reduction of that number; step is
\* the backward pass of the main task.
Call == [by : Nat, step : Nat, parts : Seq(Named)]
-----------------------------------------------------------------------------
(* Buckets.                                                                 *)

\* Mutant: the sort by size is left out.
AsHashed(s, r) == s.hash[r]

\* By size, the largest first; a stable sort, so equals stay as they are.
SortedBySize(s, r) ==
    CHOOSE o \in Orders :
        \A i, j \in DOMAIN o : i < j =>
            \/ s.size[o[i]] > s.size[o[j]]
            \/ /\ s.size[o[i]] = s.size[o[j]]
               /\ \E k, l \in DOMAIN o : k < l /\ s.hash[r][k] = o[i] /\ s.hash[r][l] = o[j]

BucketSize(s, b) == FoldLeft(LAMBDA n, p : n + s.size[p], 0, b)

\* A parameter goes to the last bucket, or to a new one if that would exceed
\* the cap; a new one takes any size.
AddToBuckets(s, bs, p) ==
    IF bs = <<>> \/ BucketSize(s, Last(bs)) + s.size[p] > s.cap
    THEN Append(bs, <<p>>)
    ELSE [bs EXCEPT ![Len(bs)] = Append(@, p)]

\* One parameter after the other, in the given order.
Filled(s, order) ==
    LET bs[n \in 0 .. Len(order)] ==
            IF n = 0 THEN <<>> ELSE AddToBuckets(s, bs[n - 1], order[n])
    IN bs[Len(order)]

Buckets(s, r) == IF s.bucketed THEN Filled(s, SortedBySize(s, r)) ELSE <<>>

\* A name that no bucket has goes to the first.
BucketOf(r, p) ==
    IF \E b \in DOMAIN buckets[r] : p \in ToSet(buckets[r][b])
    THEN CHOOSE b \in DOMAIN buckets[r] : p \in ToSet(buckets[r][b])
    ELSE 1

ExpectedCount(r, b) == IF b \in DOMAIN buckets[r] THEN Len(buckets[r][b]) ELSE 0

\* Mutant: one gradient too late.
ReadyLate(r, b, n) == n > ExpectedCount(r, b) /\ ExpectedCount(r, b) > 0

\* With how many gradients a bucket is ready: one that does not exist never is.
Ready(r, b, n) == n >= ExpectedCount(r, b) /\ ExpectedCount(r, b) > 0

\* Mutant: the entry of a bucket outlives its reduction.
AllLeftPending(got) == got

\* What stays pending of a bucket that is reduced.
LeftPending(got) == <<>>
-----------------------------------------------------------------------------
(* all_reduce.                                                              *)

NamesOf(parts) == [i \in DOMAIN parts |-> parts[i].name]

\* Where the part after the i-th begins in the flat tensor, for every i.
Offsets(names) ==
    LET off[i \in 0 .. Len(names)] == IF i = 0 THEN 0 ELSE off[i - 1] + setup.size[names[i]]
    IN off

LengthOf(parts) == Offsets(NamesOf(parts))[Len(parts)]

\* The part that an element of the flat tensor is of.
PartAt(off, e) == CHOOSE i \in DOMAIN off \ {0} : off[i - 1] < e /\ e <= off[i]

\* The gradients of a call, one entry per element.
Flattened(parts) ==
    LET off == Offsets(NamesOf(parts))
    IN [e \in 1 .. LengthOf(parts) |-> parts[PartAt(off, e)].grad]

Met(k) == \A q \in Ranks : Len(calls[q]) >= k
SameLength(k) == \A q, r \in Ranks : LengthOf(calls[q][k].parts) = LengthOf(calls[r][k].parts)

Succeeds(k) == Met(k) /\ SameLength(k)

\* Mutant: no deadline.
FailsOnLength(k) == Met(k) /\ ~SameLength(k)

\* A rank that got every contribution finds that two differ in length, or the
\* deadline elapses first.
Fails(k) == (Met(k) /\ ~SameLength(k)) \/ "timeout" \in Faults

\* Mutant: every part is taken from the start of the flat result.
AveragedFromStart(r, k, i) ==
    UNION {Flattened(calls[q][k].parts)[e] :
              q \in Ranks, e \in 1 .. setup.size[calls[r][k].parts[i].name]}

\* The i-th part of the k-th call of r, cut out of the flat result.
Averaged(r, k, i) ==
    LET off == Offsets(NamesOf(calls[r][k].parts))
    IN UNION {Flattened(calls[q][k].parts)[e] : q \in Ranks, e \in off[i - 1] + 1 .. off[i]}

Post(r, by, step, parts) ==
    calls' = [calls EXCEPT ![r] = Append(@, [by |-> by, step |-> step, parts |-> parts])]
-----------------------------------------------------------------------------
Init ==
    /\ setup \in Setups
    /\ buckets = [r \in Ranks |-> Buckets(setup, r)]
    /\ uses = [r \in Ranks |-> <<>>]
    /\ pc = [r \in Ranks |-> "idle"]
    /\ todo = [r \in Ranks |-> <<>>]
    /\ queue = [r \in Ranks |-> <<>>]
    /\ mainTag = [r \in Ranks |-> NoTag]
    /\ ok = [r \in Ranks |-> FALSE]
    /\ grad = [r \in Ranks |-> [p \in Params |-> None]]
    /\ channel = [r \in Ranks |-> <<>>]
    /\ pending = [r \in Ranks |-> [b \in 1 .. Cardinality(Params) |-> <<>>]]
    /\ reductions = [r \in Ranks |-> <<>>]
    /\ calls = [r \in Ranks |-> <<>>]
    /\ clean = TRUE

Step(r) == Len(uses[r])

\* Those of the names that are in S, in the same order.
Among(names, S) ==
    LET kept[n \in 0 .. Len(names)] ==
            IF n = 0 THEN <<>>
            ELSE IF names[n] \in S THEN Append(kept[n - 1], names[n]) ELSE kept[n - 1]
    IN kept[Len(names)]

\* The program zeroes the gradients and runs a backward pass; parameters that
\* took no part in the loss get none.
Backward(r) ==
    /\ pc[r] = "idle" /\ Step(r) < setup.steps
    /\ \E use \in setup.useSets :
          /\ uses' = [uses EXCEPT ![r] = Append(@, use)]
          /\ grad' = [grad EXCEPT ![r] = [p \in Params |->
                        IF p \in use THEN {<<r, p, Step(r) + 1>>} ELSE None]]
          /\ todo' = [todo EXCEPT ![r] =
                        IF setup.overlap THEN Among(setup.arrival[r], use) ELSE <<>>]
    /\ pc' = [pc EXCEPT ![r] = "backward"]
    /\ UNCHANGED <<setup, buckets, queue, mainTag, ok, channel, pending, reductions,
                   calls, clean>>

\* register_gradient_async
Register(r) ==
    /\ pc[r] = "backward" /\ todo[r] # <<>>
    /\ LET p == Head(todo[r]) IN
       channel' = [channel EXCEPT ![r] = Append(@, [name |-> p, grad |-> grad[r][p]])]
    /\ todo' = [todo EXCEPT ![r] = Tail(@)]
    /\ UNCHANGED <<setup, buckets, uses, pc, queue, mainTag, ok, grad, pending, reductions,
                   calls, clean>>

\* The backward pass is over and the program does not sync by itself.
EndBackward(r) ==
    /\ pc[r] = "backward" /\ todo[r] = <<>> /\ ~setup.sync
    /\ pc' = [pc EXCEPT ![r] = "idle"]
    /\ UNCHANGED <<setup, buckets, uses, todo, queue, mainTag, ok, grad, channel, pending,
                   reductions, calls, clean>>

HasGrad(r, p) == grad[r][p] # None

\* What sync_gradients goes through: every bucket, or every parameter by itself
\* in whatever order a new hash map yields them.
ByBucket(r) == [b \in DOMAIN buckets[r] |-> [names |-> buckets[r][b], fallback |-> TRUE]]
OneByOne(names) == [i \in DOMAIN names |-> [names |-> <<names[i]>>, fallback |-> FALSE]]

\* sync_gradients
BeginSync(r) ==
    /\ pc[r] = "backward" /\ todo[r] = <<>> /\ setup.sync
    /\ pc' = [pc EXCEPT ![r] = "sync"]
    /\ ok' = [ok EXCEPT ![r] = TRUE]
    /\ \/ /\ buckets[r] # <<>>
          /\ queue' = [queue EXCEPT ![r] = ByBucket(r)]
       \/ /\ buckets[r] = <<>>
          /\ \E o \in Orders :
                queue' = [queue EXCEPT ![r] = OneByOne(o)]
    /\ UNCHANGED <<setup, buckets, uses, todo, mainTag, grad, channel, pending, reductions,
                   calls, clean>>

\* The parameters of the first in the queue that have a gradient.
Reducible(r) == Among(Head(queue[r]).names, {p \in Params : HasGrad(r, p)})

\* A bucket, or a parameter, without a gradient is passed over.
MainSkips(r) ==
    /\ pc[r] = "sync" /\ queue[r] # <<>> /\ mainTag[r] = NoTag
    /\ Reducible(r) = <<>>
    /\ queue' = [queue EXCEPT ![r] = Tail(@)]
    /\ UNCHANGED <<setup, buckets, uses, pc, todo, mainTag, ok, grad, channel, pending,
                   reductions, calls, clean>>

\* The gradients of the named parameters as they are now.
PartsOf(r, names) == [i \in DOMAIN names |-> [name |-> names[i], grad |-> grad[r][names[i]]]]

\* All of a bucket goes into one collective.
MainReduce(r) ==
    /\ pc[r] = "sync" /\ queue[r] # <<>> /\ mainTag[r] = NoTag
    /\ Reducible(r) # <<>>
    /\ Post(r, 0, Step(r), PartsOf(r, Reducible(r)))
    /\ mainTag' = [mainTag EXCEPT ![r] = Len(calls[r]) + 1]
    /\ UNCHANGED <<setup, buckets, channel, pending, reductions>> /\ UNCHANGED mainVars

MainReduced(r) ==
    /\ mainTag[r] # NoTag /\ Succeeds(mainTag[r])
    /\ LET parts == calls[r][mainTag[r]].parts IN
       grad' = [grad EXCEPT ![r] = [p \in Params |->
                  IF \E i \in DOMAIN parts : parts[i].name = p
                  THEN Averaged(r, mainTag[r], CHOOSE i \in DOMAIN parts : parts[i].name = p)
                  ELSE @[p]]]
    /\ queue' = [queue EXCEPT ![r] = Tail(@)]
    /\ mainTag' = [mainTag EXCEPT ![r] = NoTag]
    /\ UNCHANGED <<setup, buckets, uses, pc, todo, ok, channel, pending, reductions,
                   calls, clean>>

\* A bucket that fails is reduced again, parameter by parameter; the error of
\* a parameter ends sync_gradients.
MainFails(r) ==
    /\ mainTag[r] # NoTag /\ Fails(mainTag[r])
    /\ LET c == Head(queue[r]) IN
       /\ queue' = [queue EXCEPT ![r] =
                      IF c.fallback THEN OneByOne(Reducible(r)) \o Tail(@) ELSE <<>>]
       /\ ok' = [ok EXCEPT ![r] = c.fallback]
    /\ clean' = FALSE
    /\ mainTag' = [mainTag EXCEPT ![r] = NoTag]
    /\ UNCHANGED <<setup, buckets, uses, pc, todo, grad, channel, pending, reductions, calls>>

\* Mutant: sync_gradients does not wait for what it began.
EndSyncEarly(r) ==
    /\ pc[r] = "sync"
    /\ pc' = [pc EXCEPT ![r] = "idle"]
    /\ UNCHANGED <<setup, buckets, uses, todo, queue, mainTag, ok, grad, channel, pending,
                   reductions, calls, clean>>

EndSync(r) ==
    /\ pc[r] = "sync" /\ queue[r] = <<>>
    /\ pc' = [pc EXCEPT ![r] = "idle"]
    /\ UNCHANGED <<setup, buckets, uses, todo, queue, mainTag, ok, grad, channel, pending,
                   reductions, calls, clean>>

\* The worker files a gradient under its bucket, in the order of arrival; a
\* bucket that is ready is handed to a task of its own.  The permit is given
\* back at once, so one is always free.
WorkerReceive(r) ==
    /\ channel[r] # <<>> /\ setup.permits > 0
    /\ LET g == Head(channel[r])
           b == BucketOf(r, g.name)
           got == Append(pending[r][b], g)
       IN IF Ready(r, b, Len(got))
          THEN /\ reductions' =
                    [reductions EXCEPT ![r] = Append(@, [parts |-> got, tag |-> NoTag])]
               /\ pending' = [pending EXCEPT ![r][b] = LeftPending(got)]
          ELSE /\ pending' = [pending EXCEPT ![r][b] = got]
               /\ UNCHANGED reductions
    /\ channel' = [channel EXCEPT ![r] = Tail(@)]
    /\ UNCHANGED <<setup, buckets, mainTag, calls>> /\ UNCHANGED mainVars

\* No permit comes within the timeout: the gradient is dropped.
WorkerDrop(r) ==
    /\ channel[r] # <<>> /\ setup.permits = 0
    /\ channel' = [channel EXCEPT ![r] = Tail(@)]
    /\ UNCHANGED <<setup, buckets, mainTag, pending, reductions, calls>> /\ UNCHANGED mainVars

\* The spawned tasks run side by side: any of them takes its tag first.
ReductionStart(r, n) ==
    /\ n \in DOMAIN reductions[r] /\ reductions[r][n].tag = NoTag
    /\ Post(r, n, 0, reductions[r][n].parts)
    /\ reductions' = [reductions EXCEPT ![r][n].tag = Len(calls[r]) + 1]
    /\ UNCHANGED <<setup, buckets, mainTag, channel, pending>> /\ UNCHANGED mainVars

\* The averages, or the error, are logged and go no further.
ReductionEnd(r, n) ==
    /\ n \in DOMAIN reductions[r] /\ reductions[r][n].tag > NoTag
    /\ Succeeds(reductions[r][n].tag) \/ Fails(reductions[r][n].tag)
    /\ reductions' = [reductions EXCEPT ![r][n].tag = Ended]
    /\ UNCHANGED <<setup, buckets, mainTag, channel, pending, calls>> /\ UNCHANGED mainVars

InBackward(r) == Register(r) \/ EndBackward(r) \/ BeginSync(r)
InSync(r) == MainSkips(r) \/ MainReduce(r) \/ MainReduced(r) \/ MainFails(r) \/ EndSync(r)
WorkerStep(r) == WorkerReceive(r) \/ WorkerDrop(r)
ReductionStep(r) == \E n \in DOMAIN reductions[r] : ReductionStart(r, n) \/ ReductionEnd(r, n)

Next == \E r \in Ranks :
    Backward(r) \/ InBackward(r) \/ InSync(r) \/ WorkerStep(r) \/ ReductionStep(r)

Spec == Init /\ [][Next]_vars

\* Tasks run, and the engine's deadline sees to it that a call ends.
FairSpec ==
    Spec /\ \A r \in Ranks : /\ WF_vars(InBackward(r)) /\ WF_vars(InSync(r))
                             /\ WF_vars(WorkerStep(r)) /\ WF_vars(ReductionStep(r))
-----------------------------------------------------------------------------
(* Properties.                                                              *)

TypeOK ==
    /\ setup \in Setups
    /\ buckets \in [Ranks -> Seq(Seq(Params))]
    /\ uses \in [Ranks -> Seq(SUBSET Params)]
    /\ pc \in [Ranks -> {"idle", "backward", "sync"}]
    /\ todo \in [Ranks -> Seq(Params)]
    /\ queue \in [Ranks -> Seq([names : Seq(Params), fallback : BOOLEAN])]
    /\ mainTag \in [Ranks -> Nat]
    /\ ok \in [Ranks -> BOOLEAN]
    /\ grad \in [Ranks -> [Params -> Gradient]]
    /\ channel \in [Ranks -> Seq(Named)]
    /\ pending \in [Ranks -> [1 .. Cardinality(Params) -> Seq(Named)]]
    /\ reductions \in [Ranks -> Seq([parts : Seq(Named), tag : Nat \union {Ended}])]
    /\ calls \in [Ranks -> Seq(Call)]
    /\ clean \in BOOLEAN
    /\ \A r \in Ranks : pc[r] # "sync" => queue[r] = <<>> /\ mainTag[r] = NoTag

DistinctSizes == \A p, q \in Params : setup.size[p] = setup.size[q] => p = q
SameUses ==
    \A q, r \in Ranks : \A i \in DOMAIN uses[q] \intersect DOMAIN uses[r] : uses[q][i] = uses[r][i]
AllUsed == \A r \in Ranks : \A i \in DOMAIN uses[r] : uses[r][i] = Params

\* The calls that meet are about the same: the same bucket or parameter, of
\* the same step.
Paired ==
    \A q, r \in Ranks : \A k \in DOMAIN calls[q] \intersect DOMAIN calls[r] :
        /\ calls[q][k].by = calls[r][k].by /\ calls[q][k].step = calls[r][k].step
        /\ NamesOf(calls[q][k].parts) = NamesOf(calls[r][k].parts)

\* When calls that meet are paired and sync_gradients returns without an
\* error, every gradient is the average of that gradient over all ranks: what
\* flattening, cutting out and the fallback to single parameters must keep.
AveragesRight ==
    Paired =>
        \A r \in Ranks : pc[r] = "idle" /\ ok[r] /\ setup.sync =>
            \A p \in Params : HasGrad(r, p) =>
                grad[r][p] = {<<q, p, Step(r)>> : q \in Ranks}

\* A gradient that a rank holds is of one parameter: its own of the last
\* backward pass, or the average of that parameter's over all ranks, of
\* whatever pass each of the others is in.
OfItself(r, p) ==
    \/ grad[r][p] \in {None, {<<r, p, Step(r)>>}}
    \/ \E pass \in [Ranks -> 1 .. MaxSteps] :
          pass[r] = Step(r) /\ grad[r][p] = {<<q, p, pass[q]>> : q \in Ranks}

\* No gradient is mixed with one of another parameter: an all_reduce that pairs
\* the wrong buffers fails and does not return their sum.
NothingMixed == \A r \in Ranks, p \in Params : OfItself(r, p)

\* The length of a flat tensor tells which parameters are in it.
Lists == {names \in UNION {[1 .. n -> Params] : n \in 1 .. Cardinality(Params)} :
             \A i, j \in DOMAIN names : names[i] = names[j] => i = j}
SizesTell ==
    \A these, those \in Lists :
        Offsets(these)[Len(these)] = Offsets(those)[Len(those)] => ToSet(these) = ToSet(those)

\* That the lengths agree is all that all_reduce checks, and nothing else
\* keeps the buffers apart once a fallback, a left-out gradient or the order of
\* a hash map has put ranks out of step: sync_gradients mixes gradients of
\* different parameters only where sizes fail to tell them.
LengthsKeepApart == ~setup.overlap /\ ~NothingMixed => ~SizesTell

\* Ranks whose parameters all differ in size, that give gradients to the same
\* parameters and reduce them with sync_gradients alone, bucket by bucket,
\* stay paired as long as no call fails, whatever the order of their hash maps.
InStep ==
    setup.bucketed /\ ~setup.overlap /\ DistinctSizes /\ SameUses /\ clean => Paired

\* Overlapped reductions stay paired if, besides, every rank's backward pass
\* registers the gradients in the same order, and none overtakes another.
StartedInOrder(r) ==
    \A k \in DOMAIN calls[r] : calls[r][k].by = k

OverlapInStep ==
    /\ setup.overlap /\ ~setup.sync /\ DistinctSizes /\ SameUses
    /\ \A q, r \in Ranks : setup.arrival[q] = setup.arrival[r]
    /\ \A r \in Ranks : StartedInOrder(r)
    => Paired

\* A reduction holds every gradient of its bucket exactly once, all from one
\* backward pass, if every pass registers every gradient: however far the
\* worker lags behind and in whatever order they arrive.
WholeBuckets ==
    AllUsed =>
        \A r \in Ranks : \A n \in DOMAIN reductions[r] :
            LET parts == reductions[r][n].parts IN
            \E b \in DOMAIN buckets[r], i \in 1 .. MaxSteps :
                /\ Len(parts) = Len(buckets[r][b])
                /\ ToSet(parts) = {[name |-> p, grad |-> {<<r, p, i>>}] :
                                      p \in ToSet(buckets[r][b])}

\* sync_gradients returns, even if a rank reduces more than the others and
\* meets nobody any more.
SyncReturns == \A r \in Ranks : pc[r] = "sync" ~> pc[r] # "sync"

\* What the worker was sent does not lie about: every gradient is reduced,
\* unless there are no buckets or no permits, or a pass leaves some out.
Settled(r) ==
    /\ channel[r] = <<>> /\ \A b \in DOMAIN pending[r] : pending[r][b] = <<>>
    /\ \A n \in DOMAIN reductions[r] : reductions[r][n].tag = Ended

WorkerCatchesUp ==
    \A r \in Ranks :
        channel[r] # <<>> /\ setup.bucketed /\ setup.permits > 0 ~> Settled(r) \/ ~AllUsed
=============================================================================
