------------------------ MODULE BatchIteratorProofs ------------------------
(***************************************************************************)
(* The batches of an epoch come in order, and None comes last: proofs for  *)
(* every number of workers, batches and pending tasks.                     *)
(***************************************************************************)
EXTENDS BatchIterator, FiniteSetTheorems, TLAPS

\* What Append and Tail do to a sequence.
LEMMA AppendFacts ==
    ASSUME NEW S, NEW s \in Seq(S), NEW x \in S
    PROVE  /\ Append(s, x) \in Seq(S)
           /\ Len(s) \in Nat
           /\ Len(Append(s, x)) = Len(s) + 1
           /\ \A i \in 1 .. Len(s) : Append(s, x)[i] = s[i]
           /\ Append(s, x)[Len(s) + 1] = x
OBVIOUS

LEMMA TailFacts ==
    ASSUME NEW S, NEW s \in Seq(S), s # <<>>
    PROVE  /\ Tail(s) \in Seq(S)
           /\ Len(s) \in Nat /\ Len(s) > 0
           /\ Head(s) = s[1] /\ Head(s) \in S
           /\ Len(Tail(s)) = Len(s) - 1
           /\ \A i \in 1 .. Len(s) - 1 : Tail(s)[i] = s[i + 1]
OBVIOUS

\* The initial state.
LEMMA InitIInv == Init => IInv
  <1> SUFFICES ASSUME Init PROVE IInv
    OBVIOUS
  <1>1. TypeOK
    <2>1. PoolTypeOK
      BY DEF Init, PoolInit, PoolTypeOK
    <2>2. emitted \in Seq(Result) /\ pending \subseteq Nat
      BY DEF Init
    <2>3. buffer \subseteq Result /\ \A r, q \in buffer : r.id = q.id => r = q
      BY DEF Init
    <2> QED
      BY <2>1, <2>2, <2>3 DEF Init, TypeOK
  <1>2. InFlightPending /\ NoneTwice
    BY DEF Init, PoolInit, InFlightPending, NoneTwice, Busy, NoTask
  <1>3. LostStaysPending
    BY DEF Init, PoolInit, LostStaysPending, NoTask, Dead
  <1>4. Accounted
    BY IteratorAssumption DEF Init, PoolInit, Accounted, Buffered
  <1>5. Control /\ InOrder /\ NoneMeansAll
    BY DEF Init, PoolInit, Control, InOrder, NoneMeansAll
  <1> QED
    BY <1>1, <1>2, <1>3, <1>4, <1>5 DEF IInv

\* A worker takes the first task: it changes place, not more.
LEMMA TakeIInv ==
    ASSUME IInv, NEW w \in Workers, Take(w), UNCHANGED iterVars
    PROVE  IInv'
  <1> USE DEF iterVars
  <1>0. TypeOK /\ PoolTypeOK /\ tasks \in Seq(Task) /\ tasks # <<>> /\ worker[w] = NoTask
    BY DEF IInv, TypeOK, PoolTypeOK, Take
  <1>1. /\ Len(tasks) \in Nat /\ Len(tasks) > 0
        /\ Head(tasks) = tasks[1] /\ Head(tasks) \in Task /\ Tail(tasks) \in Seq(Task)
        /\ Len(Tail(tasks)) = Len(tasks) - 1
        /\ \A i \in 1 .. Len(tasks) - 1 : Tail(tasks)[i] = tasks[i + 1]
    BY <1>0, TailFacts
  <1>2. tasks' = Tail(tasks) /\ results' = results
        /\ worker' = [worker EXCEPT ![w] = Head(tasks)]
    BY DEF Take
  <1>3. Busy(w)' /\ ~Busy(w) /\ worker'[w] = tasks[1]
    BY <1>0, <1>1, <1>2 DEF Busy, TypeOK, PoolTypeOK, Task, NoTask, Dead
  <1>4. \A v \in Workers : v # w => worker'[v] = worker[v] /\ Busy(v)' = Busy(v)
    BY <1>0, <1>2 DEF Busy, TypeOK, PoolTypeOK
  <1>5. TypeOK'
    BY <1>0, <1>1, <1>2 DEF TypeOK, PoolTypeOK
  <1>6. InFlightPending'
    BY <1>1, <1>2, <1>3, <1>4 DEF IInv, InFlightPending, OwnAndPending
  <1>7. NoneTwice'
    BY <1>0, <1>1, <1>2, <1>3, <1>4 DEF IInv, NoneTwice, TypeOK, PoolTypeOK
  <1>8. \A id : InFlight(id)' => InFlight(id)
    BY <1>1, <1>2, <1>3, <1>4 DEF InFlight
  <1>9. (\E v \in Workers : worker'[v] = Dead) => \E v \in Workers : worker[v] = Dead
    BY <1>0, <1>3, <1>4 DEF Busy
  <1>10. LostStaysPending'
    BY <1>8, <1>9 DEF IInv, LostStaysPending
  <1>11. AllDead' = AllDead
    BY <1>0, <1>3, <1>4 DEF AllDead, Busy, Dead, NoTask
  <1>12. Accounted' /\ Control' /\ InOrder' /\ NoneMeansAll'
    BY <1>11 DEF IInv, Accounted, Control, InOrder, NoneMeansAll, Buffered
  <1> QED
    BY <1>5, <1>6, <1>7, <1>10, <1>12 DEF IInv

\* A worker sends the result of its task: it changes place, not more.
LEMMA ProcessIInv ==
    ASSUME IInv, NEW w \in Workers, Process(w), UNCHANGED iterVars
    PROVE  IInv'
  <1> USE DEF iterVars
  <1>0. TypeOK /\ PoolTypeOK /\ results \in Seq(Result) /\ Busy(w) /\ worker[w] \in Task
    BY DEF IInv, TypeOK, PoolTypeOK, Process, Busy
  <1>1. PICK ok \in BOOLEAN :
            results' = Append(results, [id |-> worker[w].id, of |-> worker[w].of, ok |-> ok])
    BY DEF Process
  <1> DEFINE r == [id |-> worker[w].id, of |-> worker[w].of, ok |-> ok]
  <1>2. r \in Result
    BY <1>0 DEF Task, Result
  <1>3. /\ results' \in Seq(Result)
        /\ Len(results) \in Nat /\ Len(results') = Len(results) + 1
        /\ \A i \in 1 .. Len(results) : results'[i] = results[i]
        /\ results'[Len(results) + 1].id = worker[w].id
        /\ results'[Len(results) + 1].of = worker[w].of
    BY <1>0, <1>1, <1>2, AppendFacts
  <1>4. tasks' = tasks /\ worker' = [worker EXCEPT ![w] = NoTask]
    BY DEF Process
  <1>5. ~Busy(w)' /\ worker'[w] = NoTask
    BY <1>0, <1>4 DEF Busy, TypeOK, PoolTypeOK
  <1>6. \A v \in Workers : v # w => worker'[v] = worker[v] /\ Busy(v)' = Busy(v)
    BY <1>0, <1>4 DEF Busy, TypeOK, PoolTypeOK
  <1>7. TypeOK'
    BY <1>0, <1>3, <1>4 DEF TypeOK, PoolTypeOK
  <1>8. InFlightPending'
    BY <1>0, <1>3, <1>4, <1>5, <1>6 DEF IInv, InFlightPending, OwnAndPending
  <1>9. NoneTwice'
    <2> SUFFICES ASSUME clean PROVE NoneTwice'
      BY DEF NoneTwice
    <2> DEFINE last == Len(results) + 1
    <2>1. /\ NoneTwice /\ clean' /\ tasks' = tasks
          /\ \A j \in 1 .. Len(results') : j = last \/ j \in 1 .. Len(results)
      BY <1>3, <1>4 DEF IInv
    <2>2. \A i \in 1 .. Len(tasks), j \in 1 .. Len(results') : tasks[i].id # results'[j].id
      BY <1>0, <1>3, <2>1 DEF NoneTwice
    <2>3. \A v \in Workers, j \in 1 .. Len(results') :
              Busy(v)' => worker'[v].id # results'[j].id
      BY <1>0, <1>3, <1>5, <1>6, <2>1 DEF NoneTwice
    <2>4. \A i, j \in 1 .. Len(results') : i # j => results'[i].id # results'[j].id
      BY <1>0, <1>3, <2>1 DEF NoneTwice
    <2> QED
      BY <1>5, <1>6, <2>1, <2>2, <2>3, <2>4 DEF NoneTwice
  <1>10. \A id : InFlight(id)' => InFlight(id)
    BY <1>0, <1>3, <1>4, <1>5, <1>6 DEF InFlight
  <1>11. (\E v \in Workers : worker'[v] = Dead) => \E v \in Workers : worker[v] = Dead
    BY <1>5, <1>6 DEF NoTask, Dead
  <1>12. LostStaysPending'
    BY <1>10, <1>11 DEF IInv, LostStaysPending
  <1>13. AllDead' = AllDead
    BY <1>0, <1>5, <1>6 DEF AllDead, Busy, Dead, NoTask
  <1>14. Accounted' /\ Control' /\ InOrder' /\ NoneMeansAll'
    BY <1>13 DEF IInv, Accounted, Control, InOrder, NoneMeansAll, Buffered
  <1> QED
    BY <1>7, <1>8, <1>9, <1>12, <1>14 DEF IInv

\* A worker dies with its task, whose id no longer is anywhere but pending.
LEMMA PanicIInv ==
    ASSUME IInv, NEW w \in Workers, Panic(w), UNCHANGED iterVars
    PROVE  IInv'
  <1> USE DEF iterVars
  <1>0. TypeOK /\ PoolTypeOK /\ Busy(w) /\ worker[w] \in Task
    BY DEF IInv, TypeOK, PoolTypeOK, Panic, Busy
  <1>1. tasks' = tasks /\ results' = results /\ worker' = [worker EXCEPT ![w] = Dead]
    BY DEF Panic
  <1>2. ~Busy(w)' /\ worker'[w] = Dead
    BY <1>0, <1>1 DEF Busy, TypeOK, PoolTypeOK
  <1>3. \A v \in Workers : v # w => worker'[v] = worker[v] /\ Busy(v)' = Busy(v)
    BY <1>0, <1>1 DEF Busy, TypeOK, PoolTypeOK
  <1>4. TypeOK'
    BY <1>0, <1>1 DEF TypeOK, PoolTypeOK
  <1>5. InFlightPending'
    BY <1>1, <1>2, <1>3 DEF IInv, InFlightPending, OwnAndPending
  <1>6. NoneTwice'
    BY <1>1, <1>2, <1>3 DEF IInv, NoneTwice
  <1> PICK lost : lost = worker[w].id
    OBVIOUS
  <1>7. clean => lost \in pending /\ ~InFlight(lost)'
    BY <1>0, <1>1, <1>2, <1>3 DEF IInv, InFlightPending, OwnAndPending, NoneTwice, InFlight
  <1>8. LostStaysPending'
    BY <1>7 DEF LostStaysPending
  <1>9. Accounted' /\ Control' /\ InOrder' /\ NoneMeansAll'
    <2>1. AllDead => AllDead'
      BY <1>0, <1>2, <1>3 DEF AllDead
    <2> QED
      BY <2>1 DEF IInv, Accounted, Control, InOrder, NoneMeansAll, Buffered
  <1> QED
    BY <1>4, <1>5, <1>6, <1>8, <1>9 DEF IInv

-----------------------------------------------------------------------------
(* The calls of next().                                                     *)

\* What a step that leaves the pool alone may take for granted.
LEMMA SamePool ==
    ASSUME UNCHANGED poolVars
    PROVE  /\ tasks' = tasks /\ worker' = worker /\ results' = results
           /\ AllDead' = AllDead
           /\ \A w \in Workers : Busy(w)' = Busy(w)
           /\ \A id : InFlight(id)' = InFlight(id)
  BY DEF poolVars, AllDead, Busy, InFlight

LEMMA CallNextIInv ==
    ASSUME IInv, CallNext
    PROVE  IInv'
  <1>1. UNCHANGED poolVars
    BY DEF CallNext, poolVars
  <1>2. TypeOK'
    BY <1>1, SamePool DEF IInv, TypeOK, PoolTypeOK, CallNext
  <1>3. InFlightPending' /\ NoneTwice' /\ LostStaysPending'
    BY <1>1, SamePool
    DEF IInv, InFlightPending, OwnAndPending, NoneTwice, LostStaysPending, CallNext
  <1>4. Accounted' /\ Control' /\ InOrder' /\ NoneMeansAll'
    BY <1>1, SamePool DEF IInv, Accounted, Control, InOrder, NoneMeansAll, Buffered, CallNext
  <1> QED
    BY <1>2, <1>3, <1>4 DEF IInv

\* The batch that is returned is the one of its place.
LEMMA EmitIInv ==
    ASSUME IInv, Emit
    PROVE  IInv'
  <1>1. UNCHANGED poolVars
    BY DEF Emit, poolVars
  <1>2. PICK r \in buffer :
            r.id = expected /\ buffer' = buffer \ {r} /\ emitted' = Append(emitted, r)
    BY DEF Emit
  <1>3. /\ expected' = expected + 1 /\ pc' = "outside" /\ pc = "loop"
        /\ UNCHANGED <<epoch, nextTask, pending, over, clean>>
    BY DEF Emit
  <1>4. TypeOK /\ r \in Result /\ emitted \in Seq(Result) /\ expected \in Nat /\ nextTask \in Nat
    BY <1>2 DEF IInv, TypeOK
  <1>5. /\ emitted' \in Seq(Result) /\ Len(emitted) \in Nat /\ Len(emitted') = Len(emitted) + 1
        /\ \A i \in 1 .. Len(emitted) : emitted'[i] = emitted[i]
        /\ emitted'[Len(emitted) + 1] = r
    BY <1>2, <1>4, AppendFacts
  <1>6. TypeOK'
    BY <1>1, <1>2, <1>3, <1>4, <1>5, SamePool DEF TypeOK, PoolTypeOK
  <1>7. InFlightPending' /\ NoneTwice' /\ LostStaysPending'
    BY <1>1, <1>3, SamePool DEF IInv, InFlightPending, OwnAndPending, NoneTwice, LostStaysPending
  <1>8. Accounted'
    <2> SUFFICES ASSUME clean PROVE Accounted'
      BY <1>3 DEF Accounted
    <2>1. Accounted /\ r.id \in Buffered /\ r.id < nextTask
      BY <1>2 DEF IInv, Accounted, Buffered
    <2>2. \A id \in Buffered' : id \in Buffered
      BY <1>2 DEF Buffered
    <2>3. \A id \in Buffered : id # expected => id \in Buffered'
      BY <1>2 DEF Buffered
    <2>4. expected' =< nextTask
      BY <1>2, <1>3, <1>4, <2>1
    <2>5. ~AllDead => \A id \in 0 .. nextTask - 1 :
            id < expected' \/ id \in pending \union Buffered'
      BY <1>2, <1>3, <1>4, <2>1, <2>3 DEF Accounted
    <2> QED
      BY <1>1, <1>2, <1>3, <2>1, <2>2, <2>4, <2>5, SamePool DEF Accounted
  <1>9. Control'
    BY <1>1, <1>3, <1>4, <1>5 DEF IInv, Control
  <1>10. InOrder'
    <2> SUFFICES ASSUME clean PROVE InOrder'
      BY <1>3 DEF InOrder
    <2>1. r.of = epoch /\ InOrder /\ Len(emitted) = expected
      BY <1>2 DEF IInv, Accounted, Control
    <2> QED
      BY <1>2, <1>3, <1>4, <1>5, <2>1 DEF InOrder
  <1>11. NoneMeansAll'
    BY <1>3 DEF IInv, Control, NoneMeansAll
  <1> QED
    BY <1>6, <1>7, <1>8, <1>9, <1>10, <1>11 DEF IInv

\* The id given out is a new one.
LEMMA SubmitIInv ==
    ASSUME IInv, Submit
    PROVE  IInv'
  <1> DEFINE task == [id |-> nextTask, of |-> epoch]
  <1>1. /\ tasks' = Append(tasks, task) /\ ~AllDead /\ pc = "loop" /\ nextTask < Batches
        /\ UNCHANGED <<worker, results, epoch, pc, expected, buffer, emitted, over, clean>>
        /\ nextTask' = nextTask + 1 /\ pending' = pending \union {nextTask}
    BY DEF Submit, Send, MaySubmit
  <1>2. TypeOK /\ tasks \in Seq(Task) /\ nextTask \in Nat /\ epoch \in Nat /\ task \in Task
    BY DEF IInv, TypeOK, PoolTypeOK, Task
  <1>3. /\ tasks' \in Seq(Task) /\ Len(tasks) \in Nat /\ Len(tasks') = Len(tasks) + 1
        /\ \A i \in 1 .. Len(tasks) : tasks'[i] = tasks[i]
        /\ tasks'[Len(tasks) + 1] = task
    BY <1>1, <1>2, AppendFacts
  <1>4. \A w \in Workers : Busy(w)' = Busy(w) /\ worker'[w] = worker[w]
    BY <1>1 DEF Busy
  <1>5. AllDead' = AllDead /\ Buffered' = Buffered
    BY <1>1 DEF AllDead, Buffered
  <1>6. TypeOK'
    BY <1>1, <1>2, <1>3 DEF TypeOK, PoolTypeOK
  <1>7. clean => \A id \in pending : id # nextTask
    BY <1>2 DEF IInv, Accounted
  <1>8. InFlightPending'
    BY <1>1, <1>3, <1>4 DEF IInv, InFlightPending, OwnAndPending
  <1>9. NoneTwice'
    <2> SUFFICES ASSUME clean PROVE NoneTwice'
      BY <1>1 DEF NoneTwice
    <2>1. NoneTwice /\ InFlightPending /\ clean'
      BY <1>1 DEF IInv
    <2>2. \A i \in 1 .. Len(tasks') : i \in 1 .. Len(tasks) \/ tasks'[i].id = nextTask
      BY <1>3
    <2>3. \A i, j \in 1 .. Len(tasks') : i # j => tasks'[i].id # tasks'[j].id
      BY <1>3, <1>7, <2>1 DEF NoneTwice, InFlightPending, OwnAndPending
    <2>4. \A i \in 1 .. Len(tasks'), w \in Workers : Busy(w)' => tasks'[i].id # worker'[w].id
      BY <1>3, <1>4, <1>7, <2>1, <2>2 DEF NoneTwice, InFlightPending, OwnAndPending
    <2>5. \A i \in 1 .. Len(tasks'), j \in 1 .. Len(results') : tasks'[i].id # results'[j].id
      BY <1>1, <1>3, <1>7, <2>1, <2>2 DEF NoneTwice, InFlightPending, OwnAndPending
    <2> QED
      BY <1>1, <1>4, <2>1, <2>3, <2>4, <2>5 DEF NoneTwice
  <1>10. LostStaysPending'
    <2> SUFFICES ASSUME clean, NEW w \in Workers, worker[w] = Dead
                 PROVE  \E id \in pending' : ~InFlight(id)'
      BY <1>1 DEF LostStaysPending
    <2>1. PICK id \in pending : ~InFlight(id)
      BY DEF IInv, LostStaysPending
    <2>2. id # nextTask
      BY <1>7
    <2>3. ~InFlight(id)'
      BY <1>1, <1>3, <1>4, <2>1, <2>2 DEF InFlight
    <2> QED
      BY <1>1, <2>3
  <1>11. Accounted'
    <2> SUFFICES ASSUME clean PROVE Accounted'
      BY <1>1 DEF Accounted
    <2>1. Accounted /\ expected \in Nat
      BY DEF IInv, TypeOK
    <2>2. /\ \A id \in pending \union Buffered : id < nextTask
          /\ \A id \in pending \union Buffered : id \in Nat
          /\ expected =< nextTask
      BY <1>2, <2>1 DEF Accounted, TypeOK, Buffered, Result
    <2> QED
      BY <1>1, <1>2, <1>5, <2>1, <2>2, IteratorAssumption DEF Accounted
  <1>12. Control' /\ InOrder' /\ NoneMeansAll'
    BY <1>1, <1>5 DEF IInv, Control, InOrder, NoneMeansAll
  <1> QED
    BY <1>6, <1>8, <1>9, <1>10, <1>11, <1>12 DEF IInv

\* A failed submission loses an id, but only when no worker is left.
LEMMA SubmitFailsIInv ==
    ASSUME IInv, SubmitFails
    PROVE  IInv'
  <1>1. UNCHANGED poolVars /\ AllDead
    BY DEF SubmitFails, poolVars
  <1>2. /\ nextTask' = nextTask + 1 /\ pc = "loop" /\ pc' = "wait" /\ nextTask < Batches
        /\ UNCHANGED <<epoch, expected, pending, buffer, emitted, over, clean>>
    BY DEF SubmitFails, MaySubmit
  <1>3. TypeOK /\ nextTask \in Nat /\ expected \in Nat
    BY DEF IInv, TypeOK
  <1>4. TypeOK'
    BY <1>1, <1>2, <1>3, SamePool DEF TypeOK, PoolTypeOK
  <1>5. InFlightPending' /\ NoneTwice' /\ LostStaysPending'
    BY <1>1, <1>2, SamePool DEF IInv, InFlightPending, OwnAndPending, NoneTwice, LostStaysPending
  <1>6. Accounted'
    <2>1. \A id \in pending \union Buffered : id \in Nat
      BY <1>3 DEF TypeOK, Buffered, Result
    <2>2. Buffered' = Buffered
      BY <1>2 DEF Buffered
    <2> QED
      BY <1>1, <1>2, <1>3, <2>1, <2>2, SamePool, IteratorAssumption DEF IInv, Accounted
  <1>7. Control' /\ InOrder' /\ NoneMeansAll'
    BY <1>1, <1>2, SamePool DEF IInv, Control, InOrder, NoneMeansAll
  <1> QED
    BY <1>4, <1>5, <1>6, <1>7 DEF IInv

\* None: with nothing pending no worker has died with a task, so the sampler
\* has no more batches and each of them was handed out.
LEMMA ExhaustedIInv ==
    ASSUME IInv, Exhausted
    PROVE  IInv'
  <1>1. UNCHANGED poolVars /\ Waits /\ pending = {} /\ buffer = {}
    BY DEF Exhausted, poolVars
  <1>2. /\ pc' = "outside" /\ over'
        /\ UNCHANGED <<epoch, nextTask, expected, pending, buffer, emitted, clean>>
    BY DEF Exhausted
  <1>3. TypeOK'
    BY <1>1, <1>2, SamePool DEF Exhausted, IInv, TypeOK, PoolTypeOK
  <1>4. InFlightPending' /\ NoneTwice' /\ LostStaysPending'
    BY <1>1, <1>2, SamePool DEF IInv, InFlightPending, OwnAndPending, NoneTwice, LostStaysPending
  <1>5. Accounted' /\ Control' /\ InOrder'
    BY <1>1, <1>2, SamePool DEF IInv, Accounted, Control, InOrder, Buffered
  <1>6. NoneMeansAll'
    <2> SUFFICES ASSUME clean, MaxPending > 0, Workers # {} PROVE Len(emitted) = Batches
      BY <1>2 DEF NoneMeansAll
    <2>1. ~AllDead
      BY <1>1 DEF IInv, LostStaysPending, AllDead
    <2>2. ~(HasRoom /\ nextTask < Batches)
      BY <1>1, <2>1 DEF Waits, IInv, Control
    <2>3. HasRoom
      BY <1>1, FS_EmptySet, IteratorAssumption DEF HasRoom, Outstanding
    <2>4. nextTask \in Nat /\ expected \in Nat /\ nextTask = Batches /\ expected =< nextTask
      BY <2>2, <2>3, IteratorAssumption DEF IInv, TypeOK, Accounted
    <2>5. \A id \in 0 .. nextTask - 1 : id < expected
      BY <1>1, <2>1 DEF IInv, Accounted, Buffered
    <2>6. expected = nextTask
      BY <2>4, <2>5
    <2> QED
      BY <2>4, <2>6 DEF IInv, Control
  <1> QED
    BY <1>3, <1>4, <1>5, <1>6 DEF IInv

\* A result moves from the channel to the buffer.
LEMMA ReceiveIInv ==
    ASSUME IInv, Receive
    PROVE  IInv'
  <1> DEFINE r == Head(results)
  <1>1. /\ results # <<>> /\ results' = Tail(results) /\ pending' = pending \ {r.id}
        /\ buffer' = {q \in buffer : q.id # r.id} \union {r}
        /\ pc' = "loop"
        /\ UNCHANGED <<tasks, worker, epoch, nextTask, expected, emitted, over, clean>>
    BY DEF Receive
  <1>2. TypeOK /\ results \in Seq(Result)
    BY DEF IInv, TypeOK, PoolTypeOK
  <1>3. /\ Len(results) \in Nat /\ Len(results) > 0 /\ results[1] = r /\ r \in Result
        /\ results' \in Seq(Result) /\ Len(results') = Len(results) - 1
        /\ \A i \in 1 .. Len(results') : results'[i] = results[i + 1] /\ i + 1 \in 1 .. Len(results)
    BY <1>1, <1>2, TailFacts
  <1>4. AllDead' = AllDead /\ \A w \in Workers : Busy(w)' = Busy(w) /\ worker'[w] = worker[w]
    BY <1>1 DEF AllDead, Busy
  <1>5. TypeOK'
    BY <1>1, <1>2, <1>3 DEF TypeOK, PoolTypeOK
  <1>6. InFlightPending'
    <2> SUFFICES ASSUME clean PROVE InFlightPending'
      BY <1>1 DEF InFlightPending
    <2>1. NoneTwice /\ InFlightPending /\ 1 \in 1 .. Len(results)
      BY <1>3 DEF IInv
    <2>2. \A i \in 1 .. Len(tasks') : OwnAndPending(tasks[i])'
      BY <1>1, <1>3, <2>1 DEF NoneTwice, InFlightPending, OwnAndPending
    <2>3. \A w \in Workers : Busy(w)' => OwnAndPending(worker[w])'
      BY <1>1, <1>3, <1>4, <2>1 DEF NoneTwice, InFlightPending, OwnAndPending
    <2>4. \A i \in 1 .. Len(results') : OwnAndPending(results[i])'
      BY <1>1, <1>3, <2>1 DEF NoneTwice, InFlightPending, OwnAndPending
    <2> QED
      BY <2>2, <2>3, <2>4 DEF InFlightPending
  <1>7. NoneTwice'
    BY <1>1, <1>3, <1>4 DEF IInv, NoneTwice
  <1>8. InFlight(r.id) /\ \A id : InFlight(id)' => InFlight(id)
    BY <1>1, <1>3, <1>4 DEF InFlight
  <1>9. LostStaysPending'
    <2> SUFFICES ASSUME clean, NEW w \in Workers, worker[w] = Dead
                 PROVE  \E id \in pending' : ~InFlight(id)'
      BY <1>1 DEF LostStaysPending
    <2>1. PICK id \in pending : ~InFlight(id)
      BY DEF IInv, LostStaysPending
    <2>2. id # r.id /\ ~InFlight(id)'
      BY <1>8, <2>1
    <2> QED
      BY <1>1, <2>1, <2>2
  <1>10. Accounted'
    <2> SUFFICES ASSUME clean PROVE Accounted'
      BY <1>1 DEF Accounted
    <2>1. r.of = epoch /\ r.id \in pending
      BY <1>3 DEF IInv, InFlightPending, OwnAndPending
    <2>2. Buffered' = Buffered \union {r.id}
      BY <1>1 DEF Buffered
    <2>3. pending' \union Buffered' = pending \union Buffered
      BY <1>1, <2>1, <2>2
    <2>4. \A q \in buffer' : q.of = epoch
      BY <1>1, <2>1 DEF IInv, Accounted
    <2> QED
      BY <1>1, <1>4, <2>3, <2>4 DEF IInv, Accounted
  <1>11. Control'
    <2>1. ~over
      BY DEF IInv, Control, Receive, Waits
    <2> QED
      BY <1>1, <2>1 DEF IInv, Control
  <1>12. InOrder' /\ NoneMeansAll'
    BY <1>1 DEF IInv, InOrder, NoneMeansAll
  <1> QED
    BY <1>5, <1>6, <1>7, <1>9, <1>10, <1>11, <1>12 DEF IInv

LEMMA DisconnectedIInv ==
    ASSUME IInv, Disconnected
    PROVE  IInv'
  <1>1. UNCHANGED poolVars
    BY DEF Disconnected, poolVars
  <1>2. TypeOK'
    BY <1>1, SamePool DEF IInv, TypeOK, PoolTypeOK, Disconnected
  <1>3. InFlightPending' /\ NoneTwice' /\ LostStaysPending'
    BY <1>1, SamePool
    DEF IInv, InFlightPending, OwnAndPending, NoneTwice, LostStaysPending, Disconnected
  <1>4. Accounted' /\ Control' /\ InOrder' /\ NoneMeansAll'
    BY <1>1, SamePool DEF IInv, Accounted, Control, InOrder, NoneMeansAll, Buffered, Disconnected
  <1> QED
    BY <1>2, <1>3, <1>4 DEF IInv

\* A clean iterator leaves a pool with nothing in flight and nobody dead.
LEMMA NewIteratorIInv ==
    ASSUME IInv, NewIterator
    PROVE  IInv'
  <1>1. UNCHANGED poolVars
    BY DEF NewIterator, poolVars
  <1>2. /\ clean' = (clean /\ pending = {}) /\ epoch' = epoch + 1 /\ pc = "outside" /\ pc' = pc
        /\ nextTask' = 0 /\ expected' = 0 /\ pending' = {} /\ buffer' = {} /\ emitted' = <<>>
        /\ over' = FALSE
    BY DEF NewIterator
  <1>3. TypeOK'
    <2>1. emitted' \in Seq(Result) /\ pending' \subseteq Nat
      BY <1>2
    <2>2. buffer' \subseteq Result /\ \A r, q \in buffer' : r.id = q.id => r = q
      BY <1>2
    <2>3. PoolTypeOK'
      BY <1>1, SamePool DEF IInv, TypeOK, PoolTypeOK
    <2>4. clean' \in BOOLEAN /\ over' \in BOOLEAN
      BY <1>2
    <2>5. /\ epoch' \in Nat /\ pc' \in {"outside", "loop", "wait"}
          /\ nextTask' \in Nat /\ expected' \in Nat
      BY <1>2 DEF IInv, TypeOK
    <2> QED
      BY <2>1, <2>2, <2>3, <2>4, <2>5 DEF TypeOK
  <1>4. clean' => /\ Len(tasks) = 0 /\ Len(results) = 0
                  /\ \A w \in Workers : ~Busy(w) /\ worker[w] # Dead
    <2> SUFFICES ASSUME clean' PROVE /\ Len(tasks) = 0 /\ Len(results) = 0
                                     /\ \A w \in Workers : ~Busy(w) /\ worker[w] # Dead
      OBVIOUS
    <2>1. clean /\ pending = {}
      BY <1>2
    <2>2. Len(tasks) \in Nat /\ Len(results) \in Nat
      BY DEF IInv, TypeOK, PoolTypeOK
    <2> QED
      BY <2>1, <2>2 DEF IInv, InFlightPending, OwnAndPending, LostStaysPending
  <1>5. InFlightPending' /\ NoneTwice' /\ LostStaysPending'
    BY <1>1, <1>4, SamePool DEF InFlightPending, NoneTwice, LostStaysPending
  <1>6. Accounted'
    BY <1>2, IteratorAssumption DEF Accounted, Buffered
  <1>7. Control' /\ InOrder' /\ NoneMeansAll'
    BY <1>2 DEF Control, InOrder, NoneMeansAll
  <1> QED
    BY <1>3, <1>5, <1>6, <1>7 DEF IInv

-----------------------------------------------------------------------------
(* The theorems.                                                            *)

LEMMA StepIInv == IInv /\ [Next]_vars => IInv'
  <1> SUFFICES ASSUME IInv, [Next]_vars PROVE IInv'
    OBVIOUS
  <1>1. CASE UNCHANGED vars
    <2>1. UNCHANGED poolVars
      BY <1>1 DEF vars, poolVars
    <2>2. TypeOK' /\ Accounted' /\ Control' /\ InOrder' /\ NoneMeansAll'
      BY <1>1, <2>1, SamePool
      DEF vars, IInv, TypeOK, PoolTypeOK, Accounted, Control, InOrder, NoneMeansAll, Buffered
    <2>3. InFlightPending' /\ NoneTwice' /\ LostStaysPending'
      BY <1>1, <2>1, SamePool
      DEF vars, IInv, InFlightPending, OwnAndPending, NoneTwice, LostStaysPending
    <2> QED
      BY <2>2, <2>3 DEF IInv
  <1>2. CASE CallNext \/ NewIterator
    BY <1>2, CallNextIInv, NewIteratorIInv
  <1>3. CASE InNext
    BY <1>3, EmitIInv, SubmitIInv, SubmitFailsIInv, ExhaustedIInv, ReceiveIInv, DisconnectedIInv
    DEF InNext
  <1>4. CASE \E w \in Workers : WorkerStep(w) \/ (Panic(w) /\ UNCHANGED iterVars)
    BY <1>4, TakeIInv, ProcessIInv, PanicIInv DEF WorkerStep
  <1> QED
    BY <1>1, <1>2, <1>3, <1>4 DEF Next

\* The inductive invariant holds in every behaviour.
THEOREM IteratorInvariant == Spec => []IInv
  BY InitIInv, StepIInv, PTL DEF Spec

\* The variables of an iterator and its pool keep their types, and no id has
\* two results in the buffer.
THEOREM IteratorTypeCorrect == Spec => []TypeOK
  <1>1. IInv => TypeOK
    BY DEF IInv
  <1> QED
    BY <1>1, IteratorInvariant, PTL

\* Batches come in the sampler's order, of their own epoch (the reorder
\* buffer), for every number of workers and every cap.
THEOREM BatchesComeInOrder == Spec => []InOrder
  <1>1. IInv => InOrder
    BY DEF IInv
  <1> QED
    BY <1>1, IteratorInvariant, PTL

\* None is returned only after the last batch, although batches fail and
\* workers die.
THEOREM NoneComesLast == Spec => []NoneMeansAll
  <1>1. IInv => NoneMeansAll
    BY DEF IInv
  <1> QED
    BY <1>1, IteratorInvariant, PTL
-----------------------------------------------------------------------------
(* Backpressure: what is in flight is no more than what is pending.         *)

BusyWorkers == {w \in Workers : Busy(w)}
InFlightCount == Len(tasks) + Cardinality(BusyWorkers) + Len(results)

Counted ==
    /\ IsFiniteSet(pending) /\ IsFiniteSet(buffer)
    /\ clean => Outstanding =< MaxPending /\ InFlightCount =< Cardinality(pending)

\* All of the counts are numbers.
LEMMA CountTypes ==
    ASSUME TypeOK, Counted
    PROVE  /\ Len(tasks) \in Nat /\ Len(results) \in Nat
           /\ IsFiniteSet(BusyWorkers) /\ Cardinality(BusyWorkers) \in Nat
           /\ Cardinality(pending) \in Nat /\ Cardinality(buffer) \in Nat
           /\ MaxPending \in Nat
  <1>1. Len(tasks) \in Nat /\ Len(results) \in Nat
    BY DEF TypeOK, PoolTypeOK
  <1>2. BusyWorkers \in SUBSET Workers
    BY DEF BusyWorkers
  <1>3. IsFiniteSet(BusyWorkers)
    BY <1>2, PoolAssumption, FS_Subset
  <1> QED
    BY <1>1, <1>3, FS_CardinalityType, IteratorAssumption DEF Counted

LEMMA InitCounted == Init => Counted
  <1> SUFFICES ASSUME Init PROVE Counted
    OBVIOUS
  <1>1. \A w \in Workers : ~Busy(w)
    BY DEF Init, PoolInit, Busy
  <1>2. BusyWorkers = {}
    BY <1>1 DEF BusyWorkers
  <1>3. pending = {} /\ buffer = {} /\ Len(tasks) = 0 /\ Len(results) = 0
    BY DEF Init, PoolInit
  <1>4. IsFiniteSet({}) /\ Cardinality({}) = 0
    BY FS_EmptySet
  <1> QED
    BY <1>2, <1>3, <1>4, IteratorAssumption DEF Counted, Outstanding, InFlightCount

\* A worker more, or a worker less, that is busy.
LEMMA OneMoreBusy ==
    ASSUME IInv, Counted, NEW w \in Workers, NEW t \in Task, worker[w] = NoTask,
           worker' = [worker EXCEPT ![w] = t]
    PROVE  Cardinality(BusyWorkers') = Cardinality(BusyWorkers) + 1
  <1>1. ~Busy(w) /\ Busy(w)'
    BY DEF Busy, IInv, TypeOK, PoolTypeOK, Task, NoTask, Dead
  <1>2. \A v \in Workers \ {w} : Busy(v)' <=> Busy(v)
    BY DEF Busy, IInv, TypeOK, PoolTypeOK
  <1>3. BusyWorkers' = BusyWorkers \union {w} /\ w \notin BusyWorkers
    BY <1>1, <1>2 DEF BusyWorkers
  <1> QED
    BY <1>3, CountTypes, FS_AddElement DEF IInv

LEMMA OneLessBusy ==
    ASSUME IInv, Counted, NEW w \in Workers, NEW t \in {NoTask, Dead}, Busy(w),
           worker' = [worker EXCEPT ![w] = t]
    PROVE  Cardinality(BusyWorkers') = Cardinality(BusyWorkers) - 1
  <1>1. ~Busy(w)'
    BY DEF Busy, IInv, TypeOK, PoolTypeOK
  <1>2. \A v \in Workers \ {w} : Busy(v)' <=> Busy(v)
    BY DEF Busy, IInv, TypeOK, PoolTypeOK
  <1>3. BusyWorkers' = BusyWorkers \ {w} /\ w \in BusyWorkers
    BY <1>1, <1>2 DEF BusyWorkers
  <1> QED
    BY <1>3, CountTypes, FS_RemoveElement DEF IInv

\* The workers pass on what is in flight, and drop it when they panic.
LEMMA WorkersCounted ==
    ASSUME IInv, Counted, NEW w \in Workers, WorkerStep(w) \/ (Panic(w) /\ UNCHANGED iterVars)
    PROVE  Counted'
  <1>1. UNCHANGED <<pending, buffer, clean>>
    BY DEF WorkerStep, iterVars
  <1>2. InFlightCount' =< InFlightCount
    <2>1. CASE Take(w)
      <3>1. /\ Head(tasks) \in Task /\ Len(tasks') = Len(tasks) - 1 /\ worker[w] = NoTask
            /\ worker' = [worker EXCEPT ![w] = Head(tasks)] /\ results' = results
        BY <2>1, TailFacts DEF Take, IInv, TypeOK, PoolTypeOK
      <3>2. Cardinality(BusyWorkers') = Cardinality(BusyWorkers) + 1
        BY <3>1, OneMoreBusy
      <3> QED
        BY <3>1, <3>2, CountTypes DEF IInv, InFlightCount
    <2>2. CASE Process(w)
      <3>1. PICK ok \in BOOLEAN :
              results' = Append(results, [id |-> worker[w].id, of |-> worker[w].of, ok |-> ok])
        BY <2>2 DEF Process
      <3>2. /\ Len(results') = Len(results) + 1 /\ tasks' = tasks
            /\ Busy(w) /\ worker' = [worker EXCEPT ![w] = NoTask]
        BY <2>2, <3>1 DEF Process, IInv, TypeOK, PoolTypeOK
      <3>3. Cardinality(BusyWorkers') = Cardinality(BusyWorkers) - 1
        BY <3>2, OneLessBusy
      <3> QED
        BY <3>2, <3>3, CountTypes DEF IInv, InFlightCount
    <2>3. CASE Panic(w)
      <3>1. /\ Busy(w) /\ worker' = [worker EXCEPT ![w] = Dead]
            /\ tasks' = tasks /\ results' = results
        BY <2>3 DEF Panic
      <3>2. Cardinality(BusyWorkers') = Cardinality(BusyWorkers) - 1
        BY <3>1, OneLessBusy
      <3> QED
        BY <3>1, <3>2, CountTypes DEF IInv, InFlightCount
    <2> QED
      BY <2>1, <2>2, <2>3 DEF WorkerStep
  <1>3. InFlightCount \in Int /\ InFlightCount' \in Int
    <2>1. Len(tasks') \in Nat /\ Len(results') \in Nat
      BY StepIInv DEF IInv, TypeOK, PoolTypeOK, Next
    <2>2. TypeOK' /\ IsFiniteSet(BusyWorkers')
      <3>1. IInv'
        BY StepIInv DEF Next
      <3>2. BusyWorkers' \in SUBSET Workers
        BY DEF BusyWorkers
      <3> QED
        BY <3>1, <3>2, PoolAssumption, FS_Subset DEF IInv
    <2> QED
      BY <2>1, <2>2, CountTypes, FS_CardinalityType DEF IInv, InFlightCount
  <1> QED
    BY <1>1, <1>2, <1>3, CountTypes DEF IInv, Counted, Outstanding

\* A task more is an id more, and there was room for it.
LEMMA SubmitCounted ==
    ASSUME IInv, Counted, Submit
    PROVE  Counted'
  <1>1. /\ Len(tasks') = Len(tasks) + 1 /\ pending' = pending \union {nextTask}
        /\ UNCHANGED <<worker, results, buffer, clean>> /\ HasRoom
    BY DEF Submit, MaySubmit, Send, IInv, TypeOK, PoolTypeOK
  <1>2. BusyWorkers' = BusyWorkers
    BY <1>1 DEF BusyWorkers, Busy
  <1>3. clean => nextTask \notin pending
    BY DEF IInv, Accounted, TypeOK
  <1>4. /\ IsFiniteSet(pending')
        /\ nextTask \notin pending => Cardinality(pending') = Cardinality(pending) + 1
    BY <1>1, FS_AddElement DEF Counted
  <1> QED
    BY <1>1, <1>2, <1>3, <1>4, CountTypes
    DEF IInv, Counted, Outstanding, HasRoom, InFlightCount

\* A result moves from the channel to the buffer, and its id is not pending
\* any more.
LEMMA ReceiveCounted ==
    ASSUME IInv, Counted, Receive
    PROVE  Counted'
  <1> DEFINE r == Head(results)
             others == {q \in buffer : q.id # r.id}
  <1>1. /\ results # <<>> /\ results' = Tail(results) /\ pending' = pending \ {r.id}
        /\ buffer' = others \union {r} /\ UNCHANGED <<tasks, worker, clean>>
    BY DEF Receive
  <1>2. /\ Len(results') = Len(results) - 1 /\ Len(results) > 0 /\ r = results[1]
    BY <1>1, TailFacts DEF IInv, TypeOK, PoolTypeOK
  <1>3. BusyWorkers' = BusyWorkers
    BY <1>1 DEF BusyWorkers, Busy
  <1>4. clean => r.id \in pending
    BY <1>2, CountTypes DEF IInv, InFlightPending, OwnAndPending
  <1>5. /\ IsFiniteSet(pending')
        /\ r.id \in pending => Cardinality(pending') = Cardinality(pending) - 1
    BY <1>1, FS_RemoveElement DEF Counted
  <1>6. /\ IsFiniteSet(others) /\ Cardinality(others) =< Cardinality(buffer)
        /\ Cardinality(others) \in Nat
    <2>1. others \in SUBSET buffer
      OBVIOUS
    <2> QED
      BY <2>1, FS_Subset, FS_CardinalityType DEF Counted
  <1>7. /\ IsFiniteSet(buffer') /\ Cardinality(buffer') \in Nat
        /\ Cardinality(buffer') =< Cardinality(buffer) + 1
    <2> HIDE DEF others, r
    <2>1. /\ IsFiniteSet(others \union {r})
          /\ Cardinality(others \union {r}) =
                IF r \in others THEN Cardinality(others) ELSE Cardinality(others) + 1
      BY <1>6, FS_AddElement
    <2> QED
      BY <1>1, <1>6, <2>1, CountTypes DEF IInv
  <1> HIDE DEF r, others
  <1> QED
    BY <1>1, <1>2, <1>3, <1>4, <1>5, <1>7, CountTypes
    DEF IInv, Counted, Outstanding, InFlightCount

\* The batch handed out makes room.
LEMMA EmitCounted ==
    ASSUME IInv, Counted, Emit
    PROVE  Counted'
  <1>1. PICK r \in buffer : buffer' = buffer \ {r}
    BY DEF Emit
  <1>2. UNCHANGED <<tasks, worker, results, pending, clean>>
    BY DEF Emit
  <1>3. IsFiniteSet(buffer') /\ Cardinality(buffer') = Cardinality(buffer) - 1
    BY <1>1, FS_RemoveElement DEF Counted
  <1>4. BusyWorkers' = BusyWorkers
    BY <1>2 DEF BusyWorkers, Busy
  <1> QED
    BY <1>2, <1>3, <1>4, CountTypes DEF IInv, Counted, Outstanding, InFlightCount

\* A new iterator has nothing pending; only if the old one had nothing pending
\* either is it clean, and then nothing is in flight.
LEMMA NewIteratorCounted ==
    ASSUME IInv, Counted, NewIterator
    PROVE  Counted'
  <1>1. /\ pending' = {} /\ buffer' = {} /\ clean' = (clean /\ pending = {})
        /\ UNCHANGED <<tasks, worker, results>>
    BY DEF NewIterator
  <1>2. IsFiniteSet({}) /\ Cardinality({}) = 0
    BY FS_EmptySet
  <1>3. BusyWorkers' = BusyWorkers
    BY <1>1 DEF BusyWorkers, Busy
  <1>4. IsFiniteSet(pending') /\ IsFiniteSet(buffer') /\ Outstanding' =< MaxPending
    BY <1>1, <1>2, IteratorAssumption DEF Outstanding
  <1>5. ASSUME clean' PROVE InFlightCount' =< Cardinality(pending')
    <2>1. InFlightCount =< Cardinality(pending) /\ pending = {}
      BY <1>1, <1>5 DEF Counted
    <2> QED
      BY <1>1, <1>2, <1>3, <2>1, CountTypes DEF IInv, InFlightCount
  <1> QED
    BY <1>4, <1>5 DEF Counted

LEMMA StepCounted == IInv /\ Counted /\ [Next]_vars => Counted'
  <1> SUFFICES ASSUME IInv, Counted, [Next]_vars PROVE Counted'
    OBVIOUS
  <1>1. CASE UNCHANGED <<tasks, worker, results, pending, buffer, clean>>
    <2>1. BusyWorkers' = BusyWorkers
      BY <1>1 DEF BusyWorkers, Busy
    <2> QED
      BY <1>1, <2>1 DEF Counted, Outstanding, InFlightCount
  <1>2. CASE UNCHANGED vars \/ CallNext \/ SubmitFails \/ Exhausted \/ Disconnected
    BY <1>1, <1>2 DEF vars, CallNext, SubmitFails, Exhausted, Disconnected
  <1>3. CASE Submit \/ Receive \/ Emit \/ NewIterator
    BY <1>3, SubmitCounted, ReceiveCounted, EmitCounted, NewIteratorCounted
  <1>4. CASE \E w \in Workers : WorkerStep(w) \/ (Panic(w) /\ UNCHANGED iterVars)
    BY <1>4, WorkersCounted
  <1> QED
    BY <1>2, <1>3, <1>4 DEF Next, InNext

\* What is between the sampler and the caller never exceeds max_pending,
\* however slow a batch is, for every number of workers.
THEOREM NothingPilesUp == Spec => []Backpressure
  <1>1. IInv /\ Counted => Backpressure
    <2> SUFFICES ASSUME IInv, Counted, clean
                 PROVE  InFlightCount + Cardinality(buffer) =< MaxPending
      BY DEF Backpressure, InFlightCount, BusyWorkers
    <2> QED
      BY CountTypes DEF IInv, Counted, Outstanding, InFlightCount
  <1>2. Spec => []Counted
    BY InitCounted, StepCounted, IteratorInvariant, PTL DEF Spec
  <1> QED
    BY <1>1, <1>2, IteratorInvariant, PTL
=============================================================================
