--------------------------- MODULE BatchIterator ---------------------------
(***************************************************************************)
(* MultiProcessIterator: the batches of a sampler, loaded by a WorkerPool  *)
(* and handed out in the sampler's order although the workers finish them  *)
(* in any order.  The iterator borrows its pool: when it is dropped, after *)
(* the last batch or before, the next one uses the same workers and        *)
(* channels, and counts its tasks from zero again.                         *)
(***************************************************************************)
EXTENDS WorkerPool

CONSTANTS
    MaxPending, \* max_pending
    Batches,    \* how many batches the sampler yields
    Epochs      \* bound: how many iterators the program makes

ASSUME IteratorAssumption == MaxPending \in Nat /\ Batches \in Nat /\ Epochs \in Nat \ {0}

VARIABLES
    epoch,      \* the number of the iterator
    pc,         \* outside next(), in its loop, or done submitting
    nextTask,   \* next_task_id, which is also the sampler's position
    expected,   \* next_expected_id
    pending,    \* pending_tasks, the ids
    buffer,     \* result_buffer, never two results of one id
    emitted,    \* the results that next() has returned in this epoch
    over,       \* whether next() has returned None
    clean       \* no iterator was dropped while a task of it was pending

iterVars == <<epoch, pc, nextTask, expected, pending, buffer, emitted, over, clean>>
vars == <<tasks, worker, results, epoch, pc, nextTask, expected, pending, buffer, emitted, over,
          clean>>

Buffered == {r.id : r \in buffer}
Outstanding == Cardinality(pending) + Cardinality(buffer)
-----------------------------------------------------------------------------
Init ==
    /\ PoolInit
    /\ epoch = 1 /\ pc = "outside"
    /\ nextTask = 0 /\ expected = 0
    /\ pending = {} /\ buffer = {} /\ emitted = <<>>
    /\ over = FALSE /\ clean = TRUE

CallNext ==
    /\ pc = "outside" /\ ~over
    /\ pc' = "loop"
    /\ UNCHANGED <<tasks, worker, results, epoch, nextTask, expected, pending, buffer, emitted,
                   over, clean>>

\* Mutant: whatever has arrived is returned.
EmitAny ==
    /\ pc = "loop"
    /\ \E r \in buffer : buffer' = buffer \ {r} /\ emitted' = Append(emitted, r)
    /\ expected' = expected + 1
    /\ pc' = "outside"
    /\ UNCHANGED <<tasks, worker, results, epoch, nextTask, pending, over, clean>>

\* The batch whose turn it is has arrived.
Emit ==
    /\ pc = "loop"
    /\ \E r \in buffer :
          /\ r.id = expected
          /\ buffer' = buffer \ {r}
          /\ emitted' = Append(emitted, r)
    /\ expected' = expected + 1
    /\ pc' = "outside"
    /\ UNCHANGED <<tasks, worker, results, epoch, nextTask, pending, over, clean>>

\* Mutant: only tasks in flight count against the cap.
HasRoomInFlight == Cardinality(pending) < MaxPending

HasRoom == Outstanding < MaxPending

\* submit_tasks, one turn of its loop.
MaySubmit == pc = "loop" /\ expected \notin Buffered /\ HasRoom /\ nextTask < Batches

\* Mutant: the counter of the ids stands still.
SubmitSameId ==
    /\ MaySubmit
    /\ Send([id |-> nextTask, of |-> epoch])
    /\ pending' = pending \union {nextTask}
    /\ UNCHANGED <<worker, results, epoch, pc, nextTask, expected, buffer, emitted, over, clean>>

Submit ==
    /\ MaySubmit
    /\ Send([id |-> nextTask, of |-> epoch])
    /\ nextTask' = nextTask + 1
    /\ pending' = pending \union {nextTask}
    /\ UNCHANGED <<worker, results, epoch, pc, expected, buffer, emitted, over, clean>>

\* No worker is left: the sampler's batch and its id are lost.
SubmitFails ==
    /\ MaySubmit /\ AllDead
    /\ nextTask' = nextTask + 1
    /\ pc' = "wait"
    /\ UNCHANGED <<tasks, worker, results, epoch, expected, pending, buffer, emitted, over, clean>>

Waits ==
    \/ pc = "wait"
    \/ pc = "loop" /\ expected \notin Buffered /\ ~(HasRoom /\ nextTask < Batches)

\* Mutant: what is in flight is not asked after.
ExhaustedEarly ==
    /\ Waits /\ buffer = {}
    /\ pc' = "outside" /\ over' = TRUE
    /\ UNCHANGED <<tasks, worker, results, epoch, nextTask, expected, pending, buffer, emitted,
                   clean>>

\* next() returns None.
Exhausted ==
    /\ Waits /\ pending = {} /\ buffer = {}
    /\ pc' = "outside" /\ over' = TRUE
    /\ UNCHANGED <<tasks, worker, results, epoch, nextTask, expected, pending, buffer, emitted,
                   clean>>

\* Mutants: the id stays pending; a result is filed next to one of its id.
ReceiveKeepsPending ==
    /\ Waits /\ ~(pending = {} /\ buffer = {})
    /\ results # <<>>
    /\ results' = Tail(results)
    /\ buffer' = {r \in buffer : r.id # Head(results).id} \union {Head(results)}
    /\ pc' = "loop"
    /\ UNCHANGED <<tasks, worker, epoch, nextTask, expected, pending, emitted, over, clean>>
ReceiveBeside ==
    /\ Waits /\ ~(pending = {} /\ buffer = {})
    /\ results # <<>>
    /\ results' = Tail(results)
    /\ pending' = pending \ {Head(results).id}
    /\ buffer' = buffer \union {Head(results)}
    /\ pc' = "loop"
    /\ UNCHANGED <<tasks, worker, epoch, nextTask, expected, emitted, over, clean>>

\* get_result, and round the loop again.
Receive ==
    /\ Waits /\ ~(pending = {} /\ buffer = {})
    /\ results # <<>>
    /\ results' = Tail(results)
    /\ pending' = pending \ {Head(results).id}
    /\ buffer' = {r \in buffer : r.id # Head(results).id} \union {Head(results)}
    /\ pc' = "loop"
    /\ UNCHANGED <<tasks, worker, epoch, nextTask, expected, emitted, over, clean>>

\* The last worker has taken the sending end of the results with it: next()
\* returns an error, and will again.
Disconnected ==
    /\ Waits /\ ~(pending = {} /\ buffer = {})
    /\ results = <<>> /\ AllDead
    /\ pc' = "outside"
    /\ UNCHANGED <<tasks, worker, results, epoch, nextTask, expected, pending, buffer, emitted,
                   over, clean>>

\* The program drops the iterator, at the end or before, and makes another.
NewIterator ==
    /\ pc = "outside" /\ epoch < Epochs
    /\ clean' = (clean /\ pending = {})
    /\ epoch' = epoch + 1
    /\ nextTask' = 0 /\ expected' = 0
    /\ pending' = {} /\ buffer' = {} /\ emitted' = <<>>
    /\ over' = FALSE
    /\ UNCHANGED <<tasks, worker, results, pc>>

\* What next() does once it was called.
InNext == Emit \/ Submit \/ SubmitFails \/ Exhausted \/ Receive \/ Disconnected

WorkerStep(w) == (Take(w) \/ Process(w)) /\ UNCHANGED iterVars

Next ==
    \/ CallNext \/ InNext \/ NewIterator
    \/ \E w \in Workers : WorkerStep(w) \/ (Panic(w) /\ UNCHANGED iterVars)

Spec == Init /\ [][Next]_vars

\* Threads run; nothing makes a program call next() or a dataset panic.
FairSpec == Spec /\ WF_vars(InNext) /\ \A w \in Workers : WF_vars(WorkerStep(w))
-----------------------------------------------------------------------------
(* Properties.                                                              *)

TypeOK ==
    /\ PoolTypeOK
    /\ epoch \in Nat /\ pc \in {"outside", "loop", "wait"}
    /\ nextTask \in Nat /\ expected \in Nat
    /\ pending \subseteq Nat
    /\ buffer \subseteq Result /\ \A r, q \in buffer : r.id = q.id => r = q
    /\ emitted \in Seq(Result)
    /\ over \in BOOLEAN /\ clean \in BOOLEAN

\* The batches of an epoch are its own and come in the sampler's order, in
\* whatever order the workers finish, fail or die (the reorder buffer of
\* next), as long as no earlier iterator left a task behind: a task left
\* behind comes back under the id of another batch.
InOrder ==
    clean => \A i \in 1 .. Len(emitted) : emitted[i].id = i - 1 /\ emitted[i].of = epoch

\* None is the end of the data: next() does not return it before every batch
\* of the sampler was handed out (the two conditions next checks for it).  A
\* pool of no workers, or a cap of zero, ends every epoch empty.
NoneMeansAll ==
    clean /\ over /\ MaxPending > 0 /\ Workers # {} => Len(emitted) = Batches

\* Backpressure: a slow first batch does not let finished ones pile up; what
\* is anywhere between the sampler and the caller is bounded by max_pending.
Backpressure ==
    clean => Len(tasks) + Cardinality({w \in Workers : Busy(w)}) + Len(results)
                + Cardinality(buffer) =< MaxPending

\* next() returns, whatever the workers' speed and errors, unless a worker
\* died and others live, who keep the channel open, or a task was left behind.
NextReturns ==
    pc # "outside" ~> \/ pc = "outside"
                      \/ ~clean
                      \/ (\E w \in Workers : worker[w] = Dead) /\ ~AllDead
-----------------------------------------------------------------------------
(* The inductive invariant of the proofs.                                   *)

\* While clean, every id in flight is pending, and is in one place.
OwnAndPending(m) == m.of = epoch /\ m.id \in pending

InFlightPending ==
    clean =>
        /\ \A i \in 1 .. Len(tasks) : OwnAndPending(tasks[i])
        /\ \A w \in Workers : Busy(w) => OwnAndPending(worker[w])
        /\ \A i \in 1 .. Len(results) : OwnAndPending(results[i])

NoneTwice ==
    clean =>
        /\ \A i, j \in 1 .. Len(tasks) : i # j => tasks[i].id # tasks[j].id
        /\ \A i \in 1 .. Len(tasks), w \in Workers : Busy(w) => tasks[i].id # worker[w].id
        /\ \A i \in 1 .. Len(tasks), j \in 1 .. Len(results) : tasks[i].id # results[j].id
        /\ \A v, w \in Workers : v # w /\ Busy(v) /\ Busy(w) => worker[v].id # worker[w].id
        /\ \A w \in Workers, j \in 1 .. Len(results) : Busy(w) => worker[w].id # results[j].id
        /\ \A i, j \in 1 .. Len(results) : i # j => results[i].id # results[j].id

\* The task a worker died with stays pending for good.
InFlight(id) ==
    \/ \E i \in 1 .. Len(tasks) : tasks[i].id = id
    \/ \E w \in Workers : Busy(w) /\ worker[w].id = id
    \/ \E i \in 1 .. Len(results) : results[i].id = id

LostStaysPending ==
    clean /\ (\E w \in Workers : worker[w] = Dead) => \E id \in pending : ~InFlight(id)

\* Every id given out was handed out, is buffered or is pending.
Accounted ==
    clean =>
        /\ \A id \in pending \union Buffered : id < nextTask
        /\ \A r \in buffer : r.of = epoch
        /\ expected =< nextTask /\ nextTask =< Batches
        /\ ~AllDead => \A id \in 0 .. nextTask - 1 : id < expected \/ id \in pending \union Buffered

Control ==
    /\ Len(emitted) = expected
    /\ over => pc = "outside"
    /\ pc = "wait" => AllDead

IInv ==
    /\ TypeOK /\ InFlightPending /\ NoneTwice /\ LostStaysPending /\ Accounted /\ Control
    /\ InOrder /\ NoneMeansAll
=============================================================================
