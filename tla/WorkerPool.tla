----------------------------- MODULE WorkerPool -----------------------------
(***************************************************************************)
(* The threads of a data loader's WorkerPool.  A channel takes tasks to    *)
(* the workers, which share its receiving end behind a mutex; another      *)
(* channel takes results back in the order in which they were finished.    *)
(*                                                                         *)
(* A task is a task_id and the indices of a batch.  What counts about the  *)
(* indices is which batch they are: that of this task_id in the epoch of   *)
(* the iterator that submitted the task.                                   *)
(***************************************************************************)
EXTENDS Integers, FiniteSets, Sequences

CONSTANTS
    Workers,    \* the worker threads
    Faults      \* of "error", "panic": what the dataset may do with a batch

VARIABLES
    tasks,      \* the channel of tasks
    worker,     \* the task a worker processes, NoTask, or Dead
    results     \* the channel of results

poolVars == <<tasks, worker, results>>

Task == [id : Nat, of : Nat]
Result == [id : Nat, of : Nat, ok : BOOLEAN]

\* A worker that waits for a task, and a thread that has ended.
NoTask == [id |-> -1, of |-> 0]
Dead == [id |-> -2, of |-> 0]

ASSUME PoolAssumption ==
    /\ IsFiniteSet(Workers)
    /\ Faults \subseteq {"error", "panic"}

PoolInit ==
    /\ tasks = <<>>
    /\ worker = [w \in Workers |-> NoTask]
    /\ results = <<>>

Busy(w) == worker[w] \notin {NoTask, Dead}
AllDead == \A w \in Workers : worker[w] = Dead

\* The receiving end of the tasks goes with the last worker.
Send(task) == ~AllDead /\ tasks' = Append(tasks, task)

\* A worker takes the mutex, waits on the channel and leaves the mutex: one
\* at a time waits, and the first task goes to any of them.
Take(w) ==
    /\ worker[w] = NoTask /\ tasks # <<>>
    /\ worker' = [worker EXCEPT ![w] = Head(tasks)]
    /\ tasks' = Tail(tasks)
    /\ UNCHANGED results

\* process_batch, and the result or its error is sent back.
Process(w) ==
    /\ Busy(w)
    /\ \E ok \in BOOLEAN :
          /\ ok \/ "error" \in Faults
          /\ results' = Append(results, [id |-> worker[w].id, of |-> worker[w].of, ok |-> ok])
    /\ worker' = [worker EXCEPT ![w] = NoTask]
    /\ UNCHANGED tasks

\* The dataset or the collate function panics: the thread ends and nothing is
\* sent.  The mutex is not held then, so the other workers go on.
Panic(w) ==
    /\ "panic" \in Faults
    /\ Busy(w)
    /\ worker' = [worker EXCEPT ![w] = Dead]
    /\ UNCHANGED <<tasks, results>>

PoolTypeOK ==
    /\ tasks \in Seq(Task)
    /\ worker \in [Workers -> Task \union {NoTask, Dead}]
    /\ results \in Seq(Result)
=============================================================================
