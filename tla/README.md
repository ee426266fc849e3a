# ToRSh distributed training, in TLA+

ToRSh is a Rust machine-learning framework of some thirty crates. Most of them
are sequential numerics. What several processes or threads do together is in
`crates/torsh-distributed` and in the data loader of `crates/torsh-data`, and
that is what this project models: the key-value store through which ranks meet,
the collective communication that moves data across it, the averaging of
gradients on top of that, checkpoints and elastic training with the circuit
breaker under them, and the worker threads that load batches. Paths below are
relative to `src/crates/torsh-distributed/src/` unless they say otherwise.

## The system

| Part | State | Operations | Interacts with |
| --- | --- | --- | --- |
| Store interface, `store/store_trait.rs` | a dictionary | set, get, wait, delete, num_keys, contains, set_with_expiry, compare_and_swap, add | implemented by four stores |
| TCP store, `store/tcp.rs` | a concurrent map of entries with an expiry, a concurrent map of waiters, the flag `running` | a server task for each connection; a connection for each client call; cleanup task; shutdown | every rank, over TCP |
| Memory, file and Redis stores, `store/*.rs` | a map; a map cached from a file; an external server | the same interface | tests, single-node runs |
| TCP collective engine, `tcp_backend.rs` | a counter for each namespace, the store once connected | all_reduce, all_gather, broadcast, reduce, scatter, all_to_all, barrier, send, recv | the TCP store; shared by the tasks of a rank |
| Collectives, `collectives.rs`, and process groups, `process_group.rs` | the backend behind a read-write lock, communication groups | the collectives above for the world and for groups, and derived ones | the engine |
| Distributed data parallel, `ddp.rs` | buckets, a queue of gradients, a semaphore | synchronise gradients, in the foreground or by a background worker | the collectives |
| Error recovery, `error_recovery.rs` | breaker state and counters, health of ranks | allow, record, retry | wraps the reads and writes of checkpoints |
| Checkpoints and elastic training, `fault_tolerance.rs` | checkpoint history and files, worker registry, scaling state | save, load, clean up, scale | files, heartbeats |
| Data loading workers, `torsh-data/src/dataloader/workers.rs` | a channel of tasks, a channel of results, pending ids, a reorder buffer | submit, receive, emit; next iterator | datasets, the training loop |
| RPC, `rpc.rs` | connections, pending requests, remote references | call, remote, delete, shutdown | TCP between workers |
| Parameter server, `parameter_server.rs` | parameters, momentum, version, statistics | push, pull | RPC |
| Communication scheduler and connections, `communication_scheduler.rs`, `communication/` | priority queue, semaphore, pool | submit, complete | the collectives |
| Parallelism strategies, integrations, monitoring | plans, statistics | sequential orchestration | the collectives |

What is hard here:

* **Interleaving.** The server runs a task for each connection over two shared
  maps with no lock across them. A rank runs several tasks over one engine.
* **Failure.** A client that times out does not recall its request. A set may be
  applied late, never, or before the client was told it failed. Ranks and the
  master die.
* **Ordering.** Nothing but a counter relates the calls of different ranks.
* **Locks across awaits.** The global barrier keeps the backend's write lock
  while it waits for its peers. Conversely scaling takes and leaves a lock for
  each variable it reads or writes, and other tasks run in between.
* **Local order.** Buckets are built from a hash map and reduced by tasks that
  are spawned side by side, although the engine matches calls by their order.
* **Files.** A write empties a file before it fills it; a process may stop
  between the two, between the write and the bookkeeping, or between two steps
  of a cleanup.

What makes each part correct, in one line: the store is *atomic*, a wait is
*answered*; a collective *returns one contribution of each participant*, ranks
*agree*, a barrier *holds until all are there*, nothing *hangs*; gradient
buckets *match across ranks*; a breaker *closes only when tested*; the latest
checkpoint *is on disk*; the world size *counts a worker once* and is fixed while
training; batches come *in the sampler's order and all of them*.
`PROJECT.json` lists every hazard at its line and the properties that cover it.

## Modules

```
StoreRequests         keys, values, requests
  KVStore             the abstract store: one atomic effect for each call
  TcpStore            server tasks, clients, expiry, waiters   implements KVStore
    MCTcpStore        instances for TLC
    TcpStoreProofs    types, sleepers, the refinement
Mailbox               what send and recv promise with one message in flight
  TcpP2P              send and recv over an atomic store       implements Mailbox
    MCTcpP2P          instances for TLC
    TcpP2PProofs      the theorems
TcpEngine             tags, keys, collectives over an atomic store
  MCTcpEngine         instances for TLC
  TcpEngineProofs     the theorems of every program, and of the SPMD contract
DdpSync               buckets, worker, sync_gradients over all_reduce
  MCDdpSync           instances for TLC
  DdpDataProofs       what its operators compute: orders, buckets, offsets
    DdpSyncProofs     types, who waits for which call, the averages
      DdpReductionProofs whole buckets, ranks in step, what is mixed
CircuitBreaker        the breaker
  Checkpoints         retries, files, history, restart
    Elastic           trainer, monitor and administrator over both
      MCElastic       instances for TLC
      ElasticProofs   the theorems
WorkerPool            worker threads and their channels
  BatchIterator       the iterator over the pool
    MCBatchIterator   instances for TLC
    BatchIteratorProofs the theorems
```

### StoreRequests and KVStore

`KVStore` is what callers may rely on: a call is `pending`, takes effect at one
instant (`Apply`), and is `done`; its caller is told the result (`Return`) or an
error (`Fail`), after which the call may still take effect, or is dropped
(`Drop`). `wait` and `num_keys` visit their keys one after the other. Keys with a
time to live lapse. Two clauses are weaker than the one-line comments of the
trait, because the TCP server is: `compare_and_swap` may leave an empty key
behind, and a lapsed key that has not been swept refuses to be created and
swallows increments. Both are explicit disjuncts.

### TcpStore

State: `entry` is the `DashMap` of `StoreEntry`, `waiters` the `DashMap` of
`Notify`, `running` the flag of the server, `listening` the life of the
listener, `task[c]` the server's side of connection `c` and `client[c]` the
client's. A connection carries one request, as `send_message` opens one each
time.

A step of a server task is what it does between two accesses to shared state.
`set` is an insert (`Set`) followed by a lookup of the waiters and
`notify_waiters` (`Notify`); `wait` is a check (`WaitCheck`), the lookup or
insertion of the `Notify` (`WaitRegister`) and the creation of its future
(`WaitPark`), after which `notify_waiters` reaches it. `compare_and_swap` and
`add` change the entry under the lock of the map's entry, in one step.
`Accept`, `Reset` and `Shutdown` model the accept loop, which looks at `running`
only after an accept. `Cleanup` removes one expired entry, since `retain` locks
one shard at a time.

Data is abstracted: a value is a counter (eight bytes) or a blob (any other
length); 64-bit wrapping is modulo `Modulus`. Time is abstracted: an entry
expires and a timeout elapses at any moment. The wire encoding is the record.

Refinement: `ImplementsKVStore` maps an entry to its value if it is live,
`mortal` to the entries with an expiry, and a task to a pending call until its
effect and to a finished one after it.

### TcpEngine

State: `seqs` are the counters of `TcpEngine.seqs`, `connected` the ranks whose
`OnceCell` holds the store, `up` whether the master's server answers, `store` the
entries, `late` the sets whose client gave up and that the server may yet apply.
For each task: `at`, its place in its program; `phase`; `mine`, the number it
holds; `posted` and `got`, the slots it has set and the contributions it has read;
`results` collects what the collectives returned.

A collective is `Begin`, `Connect` (`ensure_store`), `Post` for each key it sets
in the order of the participants, `Poll` for each key it needs, `Finish`. The
exchanges (all_reduce, all_gather, reduce, barrier) take their tag in `Begin`,
the others in `Connect`: the order of the code, and the reason why a failed
connection costs some collectives a number and others none. `PassOver` is a
group the rank is not in or is alone in; `Reject` an error before anything
happened; `ConnectTimeout`, `PostError` and `PollTimeout` are the errors after.
After an error the task stops, goes on to its next collective or issues the same
one again: `OnError` says which of these an instance allows. `HoldsBackend` is
the write lock of the global barrier.

What is in a payload is who posted it, for which collective, into which slot; a
contribution is a payload and the slot it was read from. The reduction of equal
sets of contributions is equal, so the numbers are left out. The store is the
atomic one of `KVStore`; of its operations only set, get and the ping of
`ensure_store` are used. The retries inside `store_set` and `poll_get` are
stutters: they repeat the same set or get until it is answered or the deadline
elapses. `Program` is a constant, so the theorems are about every program, those
that break the SPMD contract included.

The wrappers in `collectives.rs` repeat one pattern (early returns, backend
lookup, engine call, write back) for each collective and for each group variant.
The map names one instance of it for each action. Of `impl Backend for
TcpBackend`, which delegates to the engine too, only the barrier is called from
`collectives.rs`.

### Mailbox and TcpP2P

`send` sets the key of its source, destination and tag; `recv` polls it and
deletes it in a second call. `Mailbox` is the promise: a channel holds at most
one message, `Send` needs it empty, `Receive` empties it. In `TcpP2P` every
channel has a sender (`BeginSend`, `Post`) and a receiver (`BeginRecv`, `Get`,
`Delete`); a message is its channel and the number of the send. A call of the
store that fails (`PostAgain`, `GiveUpSend`, `DeleteFails`) was applied, will be
(`LateWrite`) or never is. Retries are steps here, unlike in `TcpEngine`: a
message set again after it was consumed is another message. `Acked` names the
channels whose callers keep to the documented constraint, `Faults` what may fail
on each. The rendezvous is left out: an error of `ensure_store` changes nothing.
`Get` takes the key's message into the receiver's hand, where `ImplementsMailbox`
counts it as in flight until the delete. A message whose type or shape the caller
rejects was consumed all the same. The group variants translate the ranks and
share the keys.

### DdpSync

State of every rank: `buckets`, the gradients `grad`, the program's place `pc`,
the collectives that `sync_gradients` has yet to end (`queue`, `mainTag`), the
`channel` to the worker, its `pending` gradients by bucket, the spawned
`reductions`, and `calls`, its all_reduce calls in the order of their tags. A
`setup` is a configuration and a model: sizes, cap, hash order and order of
arrival of each rank, which parameters a pass may leave without a gradient.

`Buckets` sorts by size, stably, from the order of the rank's hash map, and fills
buckets greedily. `BeginSync` queues the buckets, or every parameter in an
arbitrary order if there are none. What is first in the queue and has no gradient
is passed over (`MainSkips`); `MainReduce`, `MainReduced` and `MainFails` are one
all_reduce of the gradients it has (`Reducible`), its end and the fallback to
single parameters. `Register`
sends a gradient to the worker; `WorkerReceive` files it and hands a complete
bucket to a task, `ReductionStart` and `ReductionEnd`; those tasks run in any
order.

A gradient is the set of what it was averaged from (rank, parameter, pass), one
copy for each element, so that flattening, meeting and cutting out are done
element by element; the average is the union. Of `TcpEngine` the module uses
that the k-th call of a rank meets the k-th call of every other; one that meets
nobody ends by the deadline.

### CircuitBreaker, Checkpoints and Elastic

`CircuitBreaker` has the state and the counters where the code looks at them,
and `streak`, a history variable. `Checkpoints` has the state of every path
(`none`, `torn`, `whole`), the `latest` step, the `history`, and for each task
`op`, where it is in saving or loading. A save is `BeginSave`, `WriteBegin`
(the file is emptied), `WriteEnd`, `Read` (`verify_after_save`), `Commit`,
`Prune`; failures go through `Retry` and the breaker. Where I/O is `faulty` the
file may not be opened, written, read or removed, and the directory not be listed.
A clean-up lists the files, removes them one by one (`CleanFile`), and then
forgets the history and the latest. `StorageRestart` keeps the files and forgets
the rest. A checkpoint is its step; `dropped` is whether a file of the newest
acknowledged step was removed.

`Elastic` adds the manager: `scaling`, `world`, `registry`, `known`, `events`
have locks of their own, and a caller (`does`) takes one at a time. The monitor's
`check_scaling_needs` is `Look`, `DetectFailed`, `ReadRegistry`, `ExtendKnown`,
`Elapsed`, `ReadExpected`, `ToSynchronizing`, `ReadTarget`, `SetWorld`,
`SetStable`; `initiate_scaling`, which the administrator's `scale_to` calls too,
is `SaveFirst`, `SavedFirst`, `Announce`. Subtracting more failed workers than
the world has wraps modulo `Word` in a release build and panics in a debug build
(`AnnouncePanics`). `Crash` restarts the process. Nothing ever leaves the
registry, as in the code. The initial world is a part of `limits`: the constructor
checks it against neither bound, nor the bounds against each other.

### WorkerPool and BatchIterator

`tasks` and `results` are the two channels, `worker` what each thread processes.
`Take` is the receipt under the mutex, `Process` the batch or its error, `Panic`
a dataset that takes its thread with it. The iterator has `nextTask`, `expected`,
`pending` and `buffer`; `next()` is `CallNext` and then steps of one loop:
`Emit`, `Submit`, `SubmitFails`, `Exhausted`, `Receive`, `Disconnected`.
`NewIterator` drops the iterator, at its end or before, and makes another over
the same pool: tasks left behind come back under the ids of the next epoch, and
`clean` says that none was.

## Runs

| Run | Checks | Shows |
| --- | --- | --- |
| `store` | `TypeOK`, `SleepersAreRegistered`, `ImplementsKVStore`, `SleepersAreWoken` | every interleaving of the server's tasks is a behaviour of the atomic store; no write slips past a task asleep |
| `store_wait` | `WaitIsAnswered`, violated | a set between the check and the future is lost |
| `engine` | `IInv`, `TypeOK`, `TagAgreement`, `EachContributesOnce`, `NobodyLeavesEarly` | three ranks, every fault but a rejected argument: results agree and are complete; the inductive invariant holds |
| `engine_faults` | `KeysAreWrittenOnce`, `NothingHangs` | all faults: keys are write-once, every collective ends |
| `engine_spmd` | `BuffersMatch`, `EachContributesOnce`, `AllFinish` | ranks within the contract, two tasks each, three groups: nothing is mixed up and all get through |
| `engine_desync` | `BuffersMatch`, violated | a rank out of step mixes buffers silently |
| `p2p` | `PInv`, `TakenWasSent`, `InOrder`, `ImplementsMailbox`, `Delivered` | a channel used as documented is a mailbox and delivers; a burst loses messages but repeats none; none strays, even among late and failing calls |
| `p2p_burst` | `NewestIsThere`, violated | a send that overtakes the delete of the recv before it is deleted unread |
| `loader` | `IInv`, `TypeOK`, `InOrder`, `NoneMeansAll`, `Backpressure`, `NextReturns` | workers that finish in any order, fail or die: batches stay in order and complete, memory bounded, and next returns |
| `ddp` | `TypeOK`, `AveragesRight`, `InStep`, `OverlapInStep`, `WholeBuckets`, `LengthsKeepApart`, `SyncReturns`, `WorkerCatchesUp` | when ranks average the right gradients with each other, and what that takes; gradients of different parameters mix only where lengths do not tell them apart; buckets are reduced whole |
| `ddp_fallback` | `NothingMixed`, violated | after a bucket that failed on one rank only, its fallback takes the sum of other parameters for its own |
| `training` | `TypeOK`, `LatestKept`, `JoinsCounted`, `LoadedNotOlder`, `ClosesTested`, `WorldFixedWhileTraining`, `ScalingEnds` | the latest checkpoint survives pruning and restarts, scaling counts joins once and ends, the breaker closes only when tested |

Bounds and why they are enough:

* `store`: two keys, two counters (so that one increment wraps), a blob besides
  the empty value, three connections. One connection waits on both keys, one
  writes (plain, mortal, deleting, creating, swapping), one writes or queries.
  The races of the code are between two tasks on one key, with a third that
  expires or notifies; a wait on two keys exercises its loop. Identities of
  connections are not symmetric, because their requests differ.
* `engine`: three ranks, the fewest for which a result holds two contributions
  from elsewhere that two other ranks must agree on. `MaxTags` bounds retries: a
  task that would retry stops once its counter has reached it, so each rank can
  be one number ahead of its peers.
* `engine_faults`: two ranks, since liveness and overwriting need a poster and a
  reader, and one collective of each way of taking a tag.
* `engine_spmd`: two ranks of two tasks, the fewest for which tasks of a rank
  race and the lock of the barrier can be contended; the kinds the other two runs
  do not have: all_gather, barrier, scatter and all_to_all.
* `p2p`: three channels whose keys differ in the tag, or in the direction, only;
  `MaxCalls` is two, enough for a second message to meet the recv of the first,
  and bounds what a channel takes, since a message that is never deleted could be
  taken forever. Of equal late writes one is kept.
* `p2p_burst`: one channel and two sends.
* `loader`: two workers, the fewest that can finish out of order; a cap of three,
  above the number of workers, and four batches, above the cap; two epochs, so
  that a second iterator meets what the first left behind. Any worker may fail or
  panic at any batch.
* `ddp`: two ranks, and three parameters that make a bucket of one and a bucket
  of two, with all sizes different or two equal. The twelve setups are
  those in which the configuration takes another way through the code: with
  buckets and without, with overlap, with sync_gradients, with both, without
  permits; in one bucket and in two; with the same arrivals and with opposite
  ones; and with a parameter that may be left out. Two passes where a bucket could
  mix them. Three setups have sizes of which no two sums are equal, which is what
  `LengthsKeepApart` is about, with every way of getting out of step.
* `ddp_fallback`: one of these setups, whose two buckets are of one length.
* `training`: ten scenarios (`Limits`), each with the few actors whose steps can
  disturb one another: scaling by joins, failures and a request; a world with room
  for two joins; an initial world of zero, below the minimum; scaling again
  between two steps; monitor and administrator saving at once; failing I/O with a
  restart, and with scaling; a restart while trainer and monitor save; a clean-up
  in between, of all files or of those that can be removed. Two checkpoints kept
  of three steps, two attempts, thresholds of two failures and three successes,
  and bounds of one to three, so that both clamps and the wrap-around occur.
* `CHECK_DEADLOCK FALSE` throughout: programs end, tasks halt after an error,
  every connection is used once. That nobody is stuck before that is what
  `AllFinish`, `NothingHangs` and `SleepersAreWoken` check.

Fairness. The runtime polls every task that can go on, so `FairSpec` has weak
fairness for each server task (`ServerStep`), for accepting a connection, and
for each task of a rank (`TaskStep`, `SendStep`, `RecvStep`). The same holds for
worker threads and for `next()` once it was called (`InNext`); for a rank's
backward pass, `sync_gradients`, worker and reductions in `DdpSync`; for the
monitor, which calls `check_scaling_needs` for ever, for its saves, and for the
scaling timeout in `Elastic`. Elapsing timeouts are among the steps of a rank's
task, since `ensure_store`, `store_set` and `poll_get` have deadlines;
`AllFinish` is checked without timeouts among the faults, so that waiting is the
only way on. No fairness is assumed of clients, faults, late sets, expiry,
shutdown, calls of `next()`, steps of the trainer, heartbeats, requests or
restarts. Two things about the runtime are assumed: it has worker threads enough
that a task blocked on the backend's lock does not stop the others (on a
single-threaded one the barrier's lock stops everything), and `notify_waiters`
reaches every future created before it.

Some properties have a premise, which is what the code needs for them and does
not check. `InStep` and `OverlapInStep` say which: parameters of different sizes
(equal ones keep the order of a hash map), the same parameters used on every rank,
and with overlap the same order of arrival and reductions that do not overtake
each other. `InOrder`, `NoneMeansAll` and `Backpressure` need that no iterator was
dropped with tasks in flight, `NextReturns` that workers die all or none: while
one lives the channel stays open and next waits for the result of a dead one.
`LatestKept` needs saves one at a time, `JoinsCounted` an initial world within its
bounds. `LengthsKeepApart` says what is left where `InStep` has no premise to rest
on: `all_reduce` checks that lengths agree, so gradients of different parameters
are mixed only if some two lists of parameters are of one length. Each premise is met and each
is missed in the run that checks it; what happens then is under `hazards`.

What the findings say: a wait can sleep on a key that is there (`store_wait`);
a rank out of step is not always told so (`engine_desync`); a message may be lost
although send answered Ok (`p2p_burst`); the fallback of a bucket that failed on
one rank may replace its gradients by those of other parameters
(`ddp_fallback`).

## Proofs

`TcpEngineProofs` proves, for all ranks, tasks, groups, programs and faults, from
`EngineAssumption` alone:

* `TypeCorrect`: `Spec => []TypeOK`
* `Invariance`: `Spec => []IInv`
* `Agreement`: `Spec => []TagAgreement`
* `Contributions`: `Spec => []EachContributesOnce`
* `BarrierSafety`: `Spec => []NobodyLeavesEarly`
* `WriteOnce`: `Spec => KeysAreWrittenOnce`

Why an invariant of its own is needed: `TagAgreement` speaks of results only, and
a result says nothing of the keys it was read from. `IInv` supplies the chain.
Counters are past every number handed out and no two tasks of a rank hold the
same one (`NumbersAreFresh`); so a key is written by the rank its slot names, with
a number that rank took (`KeysAreOwned`), and before its task posts it nobody has
written it (`UnpostedAreFree`); so a key has one value, among the late sets too
(`KeysAreUnique`); so what a task holds is in the store under its tag and stays
there (`InHandIsStored`), and so does what it returned (`ResultsAreStored`). Two
results with one tag are then read from the same entries. A barrier is left only
with everybody's key at hand, and a key's owner has taken its number
(`NobodyLeavesEarly`, part of the invariant).

The proof has a lemma for each part of the invariant, split by the actions that
can disturb it (`TypeStep`, `NumbersStep`, `KeysStep`, `InHandStep`,
`ResultsStep`), over lemmas on what a step may do to counters and store
(`CountersGrow`, `StoreGrows`, `PostingAdds`, `LateSetKeeps`). Scatter is left
out of the invariant and of these theorems: its source posts under the slots of
the others, which makes its keys written by one rank and named for another.

The same module proves `ContractKeepsBuffers`: programs that keep to the
contract of `tcp_backend.rs:24-31` (`KeepsContract`) satisfy `BuffersMatch`,
whatever fails, scatter included. The contract is that in a group one task of a
rank issues the collectives, that it stops at an error, and that collectives
with the same turn in the group are the same. The argument is that a task's
number is its turn (`TurnOK`: the counter of a group is the number of collectives
before the place of the one task that uses it), so every entry is under the turn
of the collective it was posted for (`EntriesInTurn`), and what is polled was
posted for the same turn (`HandInTurn`, `ResultsInTurn`). `MCTcpEngine` assumes of
its programs that one keeps the contract and the one that mixes buffers does not.

`TcpP2PProofs` proves, from `P2PAssumption` alone:

* `P2PInvariance`: `Spec => []PInv`
* `Provenance`: `Spec => []TakenWasSent`
* `Order`: `Spec => []InOrder`
* `MailboxRefinement`: `Spec => ImplementsMailbox`

`PInv` is a conjunction over the channels (`ChannelInv`), and a step of one leaves
the others alone (`SameKeeps`), because a key names its channel
(`KeysNameChannels`). For the channel that steps: everything under its key, late
or in hand was sent on it (`ValuesWereSent`); where calls are answered nothing is
late and the number under the key is above those taken (`NumbersGrow`); where the
constraint is kept the number sent is at most one ahead of the number taken, and
that one message is being posted, under the key, or in hand (`OneInFlight`). The
refinement has a lemma for `Post`, one for `Delete`, and one for the steps that
leave what is in flight alone.

`TcpStoreProofs` proves, from the assumptions of `StoreRequests` and `TcpStore`:

* `StoreTypeCorrect`: `Spec => []TypeOK`
* `SleepersRegistered`: `Spec => []SleepersAreRegistered`
* `StoreImplementsKVStore`: `Spec => ImplementsKVStore`

The invariant adds to both the shape of a task (`TasksOK`: none, on its way, or
with a result), without which the refinement mapping cannot be computed. The
refinement goes step by step: connecting is `Call` or `Fail`, reading the reply
`Return`, a timeout `Fail`, a reset `Drop`, the clean-up `Sweep`, expiry `Lapse`;
the one step of each operation that touches the entry, or sees the last key of a
`wait` or `num_keys`, is `Apply`; accepting, registering, parking, notifying and
shutting down are stutters.

`BatchIteratorProofs` proves, for any workers, cap, batches and epochs:

* `IteratorInvariant`, `IteratorTypeCorrect`: `Spec => []IInv`, `Spec => []TypeOK`
* `BatchesComeInOrder`: `Spec => []InOrder`
* `NoneComesLast`: `Spec => []NoneMeansAll`
* `NothingPilesUp`: `Spec => []Backpressure`

While clean, what is in flight is pending, in one place (`InFlightPending`,
`NoneTwice`), and every id given out was emitted, is buffered or is pending
(`Accounted`); the task a worker died with stays pending (`LostStaysPending`),
which is why None is not returned then. For `Backpressure` it counts: what is in
flight is no more than what is pending (`Counted`).

`ElasticProofs` proves, for any thresholds, attempts, retention, workers, bounds
and limits:

* `ElasticTypeCorrect`: `Spec => []TypeOK`, so the world, wherever it started, is
  within its bounds once it changed
* `LatestIsKept`: `Spec => []LatestKept`
* `JoinsAreCounted`: `Spec => []JoinsCounted`
* `LoadsNothingOlder`: `Spec => LoadedNotOlder`
* `WorldChangesWhileScaling`: `Spec => WorldFixedWhileTraining`
* `BreakerClosesTested`: `Spec => ClosesTested`

`IInv` has a part for each component. Breaker: the successes it counted were in a
row (`CountedInARow`). Storage: the newest acknowledged step has a file unless one
was dropped, and what may be pruned is not newer (`AckedHasFile`); saves are of
steps that were done (`SavesArePast`); while nothing disturbs them they are in
order and the last one is whole (`OneByOne`). Scaling: what a caller carries from
lock to lock is in bounds (`Carried`), nobody makes the state stable behind the
monitor's back (`NotStableYet`), and joins not yet in the world are on their way
there (`JoinsOnTheirWay`). A step of one component leaves the invariants of the
others alone (`BreakerStep`, `StorageNext`, `ScalingNext`, `JoinsNext`).

`DdpSyncProofs` and `DdpReductionProofs` prove, for any ranks, parameters, setups
and numbers of passes, from `DdpAssumption` alone:

* `Types`: `Spec => []TypeOK`
* `SyncAverages`: `Spec => []AveragesRight`
* `WholeReductions`: `Spec => []WholeBuckets`
* `SyncInStep`: `Spec => []InStep`
* `OverlappedInStep`: `Spec => []OverlapInStep`
* `LengthsTell`: `Spec => []LengthsKeepApart`

They rest on what the recursive functions of `DdpSync` compute for every input,
which `DdpDataProofs` establishes. A sort exists and, when all sizes differ, is
the same from every hash order (`SortedOrder`, `SortedAlike`); filling keeps every
parameter in one place of one bucket, so no rank loses or repeats one (`FilledIsPartition`);
`Offsets` rises by the sizes of the parts, so an element of the flat tensor is of
one part and each part has its own (`PartAtFacts`); `Among` keeps the names in a set in
their order (`AmongFacts`). Induction is over a subset of the naturals (`InductionIn`), and a
function defined by recursion is shown to exist (`RecursionExists`) before its
equation is used.

The invariants build on each other:

* `TInv`: types; buckets are a partition of the parameters; no name is queued
  twice. The last is why a gradient is averaged once, the fallback included.
* `CInv`: the number a task waits for is that of a call it made.
* `AInv`: while a pass is synchronised, what is queued still has the rank's own
  gradient of this pass, what the main task waits for was posted with it, and
  what is neither is averaged, if calls met their like. `AveragesRight` looks only
  at the end, so it says nothing of the way there.
* `WInv`: of the gradients of a bucket in a pass all are on their way (to be
  registered, in the channel, or pending) or none is (`Closed`); what the channel
  and each bucket hold is in the order of the passes; no bucket is full. Without
  the order, a bucket could fill up with gradients of two passes.
* `PInv`: the calls of a rank are those of the buckets its main task has taken up,
  in order, a bucket without gradients left out (`Listing`). Two such lists over
  equal buckets agree wherever both have a call (`Agree`, `NotAhead`), by induction on the
  number of the call.
* `OInv`: what a worker was sent is the gradients of its passes in the order of
  arrival up to some point (`Sent`, `Enumerates`), and what it has pending and has
  handed to tasks is a function of the names it received (`History`). Two workers
  that received the same names have handed out the same buckets, and of two that
  did not, one is behind the other.
* `MInv`: every call of the main task is of some parameters of one bucket, in the
  order of the bucket, or of one parameter (`Cut`), and where lengths tell them
  apart, a gradient is the rank's own or the average of that parameter
  (`OneOfEach`). Two calls that meet are of one length, so of the same parameters,
  so in the same order (`SameCut`), whatever put the ranks out of step.

The premises of `InStep` and `OverlapInStep` are used where one would expect:
different sizes make the buckets equal, equal uses and arrivals what is sent, and
the order of the reductions ties the number of a call to the bucket.

Every invariant and every action property that a passing run checks is a theorem,
and so are both refinements. Only model-checked is liveness (`SleepersAreWoken`,
`NothingHangs`, `AllFinish`, `Delivered`, `NextReturns`, `SyncReturns`,
`WorkerCatchesUp`, `ScalingEnds`), which needs fairness and ENABLED and is out of
the prover's reach.

## Not modelled

* The numeric reduction, payload encoding and errors after the exchange for
  shapes or types that differ: floating point, and local to a rank.
* A server that fails to bind, which `start` does not report.
* Restart of a rank or of the master while the others go on. A restart of the
  training process, with its files, is in `Elastic`.
* Group management, derived collectives.
* The memory and file stores. Their faults (a swap of two steps, a lock taken
  twice, a cache written back whole) are each visible in one place and are listed
  as hazards.
* DDP's statistics, tracker of unused parameters, `check_gradient_consistency`
  (called by hand) and `set_bucketing_enabled`.
* The health checker and automatic scaling, which influence nothing; the trimming
  of the event list at a hundred entries.
* The persistent worker pool, which is the same loop with a message that ends it.
* `DeviceBarrier` of `torsh-core`: two threads in their first use block, whatever
  the schedule, so a model has nothing to explore.
* RPC, whose client never reads its stream, the parameter server, the
  communication scheduler and the connection pool, which no collective uses.
* The rest of the repository, well over a million lines: sequential numerics on
  floating-point data, analysis tools, benchmarks, examples and bindings, where
  nothing is shared, ordered or retried. Of the files that are
  modelled about two fifths of the lines are mapped; the others are tests,
  statistics, formatting and variants of one pattern for each element type.

## Plan

Done: `StoreRequests`, `KVStore`, `TcpStore`, `TcpEngine`, `Mailbox`, `TcpP2P`,
`DdpSync`, `CircuitBreaker`, `Checkpoints`, `Elastic`, `WorkerPool`,
`BatchIterator`, and the proofs above. Left, in this order:

1. `Rejoin`: a restarted rank in `TcpEngine`, whose counter starts over while the
   keys of its former life are in the store.
2. `MemoryStore` and `FileStore`, step by step, against `KVStore` where they
   implement it and with a finding where they do not.
3. `Rpc`, once its client reads replies, and `ParameterServer`, once the functions
   it registers reach its state.
