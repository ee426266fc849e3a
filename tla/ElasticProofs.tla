--------------------------- MODULE ElasticProofs ---------------------------
(***************************************************************************)
(* Proofs about Elastic, for any bounds, thresholds, retention and faults: *)
(* what checkpoints survive, and what the world size and the breaker do.   *)
(***************************************************************************)
EXTENDS Elastic, FiniteSetTheorems, TLAPS

-----------------------------------------------------------------------------
(* The inductive invariant.                                                 *)

\* The successes that a half-open breaker has counted were in a row.
CountedInARow == breaker = "half_open" => successes =< streak

\* What a caller carries from one lock to the next.
Carried ==
    /\ \A t \in Callers :
          /\ does[t].pc \in {"to_sync", "set_world"} => does[t].arg \in Sizes
          /\ does[t].pc = "extend" => does[t].ids \subseteq registry
          /\ does[t].pc \in {"initiate", "saving", "announce"} => does[t].event \in Events
    /\ does["admin"].event # "join"

\* Nobody but the monitor makes the state stable again.
NotStableYet == does["monitor"].pc = "set_world" => scaling # Stable

\* Only a trainer that has not booted loads, and nobody saves before it has.
LoadsFirst ==
    /\ ~booted => latest = NoStep /\ \A t \in Tasks : ~Saving(t)
    /\ \A t \in Tasks : op[t].pc = "load" => t = "trainer" /\ ~booted

\* The newest acknowledged checkpoint has a file, and what is being loaded is
\* at least as new, unless such a file was removed.
AckedHasFile ==
    /\ acked # NoStep => dropped \/ \E p \in Path : p[1] = acked /\ files[p] # "none"
    /\ \A t \in Tasks : op[t].pc = "load" => op[t].path[1] >= acked \/ dropped

\* Nobody saves a step that the trainer has not done.
SavesArePast ==
    /\ booted => latest =< trained
    /\ \A t \in Tasks : Saving(t) => op[t].path[1] =< trained
    /\ Saving("trainer") => op["trainer"].path[1] = trained

\* While nothing disturbs the saves they come one by one, each at least as new
\* as the one before, and the last one is whole.
Sorted ==
    /\ \A i, j \in 1 .. Len(history) : i =< j => history[i][1] =< history[j][1]
    /\ \A i \in 1 .. Len(history) : history[i][1] =< latest

OneByOne ==
    calm =>
        /\ \A t, u \in Tasks : Saving(t) /\ Saving(u) => t = u
        /\ \A t \in Tasks : op[t].pc \notin Cleaning
        /\ Sorted
        /\ \A t \in Tasks : Saving(t) => op[t].path[1] >= latest
        /\ \A t \in Tasks : op[t].pc \in {"verify", "commit", "prune"} =>
              files[op[t].path] = "whole"
        /\ \A t \in Tasks : op[t].pc = "prune" => op[t].path[1] = latest

\* Where the count of the workers is while nothing but joins happened: in the
\* world, or on its way there.
Capped(n) == IF n > MaxWorkers THEN MaxWorkers ELSE n
Everyone == limits.world + Cardinality(known)
Joining ==
    does["monitor"].pc \in {"initiate", "saving", "announce"} /\ does["monitor"].event = "join"

JoinsOnTheirWay ==
    /\ limits.world \in MinWorkers .. MaxWorkers
    /\ \A i \in 1 .. Len(events) : events[i] = "join"
    /\ ~refused
    =>
        /\ does["monitor"].pc \in {"detect", "new", "extend", "initiate", "saving", "announce"} =>
              scaling = Stable
        /\ Joining => /\ does["monitor"].arg =< Cardinality(known)
                      /\ world = Capped(Everyone - does["monitor"].arg)
        /\ ~Joining => IF scaling = Stable THEN world = Capped(Everyone)
                       ELSE scaling.workers = Capped(Everyone)
        /\ does["monitor"].pc \in {"to_sync", "set_world"} =>
              scaling # Stable /\ does["monitor"].arg = Capped(Everyone)
        /\ does["monitor"].pc = "set_stable" => scaling # Stable /\ world = Capped(Everyone)

IInv ==
    /\ TypeOK /\ Carried /\ CountedInARow /\ NotStableYet
    /\ LoadsFirst /\ AckedHasFile /\ SavesArePast /\ OneByOne /\ LatestKept
    /\ JoinsOnTheirWay
-----------------------------------------------------------------------------
(* The breaker.                                                             *)

BreakerInv == BreakerTypeOK /\ CountedInARow

LEMMA InitKeepsBreaker == BreakerInit => BreakerInv
<1> SUFFICES ASSUME BreakerInit PROVE BreakerInv
  OBVIOUS
<1>1. cooled \in BOOLEAN
  BY DEF BreakerInit
<1>2. breaker = "closed" /\ failures = 0 /\ successes = 0 /\ streak = 0
  BY DEF BreakerInit
<1> QED BY <1>1, <1>2, BreakerAssumption DEF BreakerInv, BreakerTypeOK, CountedInARow

LEMMA SuccessKeepsBreaker ==
    ASSUME BreakerInv, RecordSuccess
    PROVE  BreakerInv'
<1> USE BreakerAssumption DEF BreakerInv, BreakerTypeOK, CountedInARow
<1>1. /\ streak' \in 0 .. SuccessThreshold /\ cooled' \in BOOLEAN
      /\ streak' = SuccessThreshold \/ streak' = streak + 1
  BY DEF RecordSuccess
<1>2. CASE breaker = "closed" /\ failures' = 0 /\ UNCHANGED <<breaker, successes>>
  BY <1>1, <1>2
<1>3. CASE breaker' = "half_open" /\ successes' = 1 /\ UNCHANGED failures
  BY <1>1, <1>3
<1>4. CASE breaker = "open" /\ UNCHANGED <<breaker, failures, successes>>
  BY <1>1, <1>4
<1>5. CASE breaker' = "closed" /\ failures' = 0 /\ successes' = 0
  BY <1>1, <1>5
<1>6. CASE /\ breaker = "half_open" /\ ~Enough(successes + 1)
           /\ successes' = successes + 1 /\ UNCHANGED <<breaker, failures>>
  BY <1>1, <1>6 DEF Enough
<1> QED BY <1>2, <1>3, <1>4, <1>5, <1>6 DEF RecordSuccess

LEMMA FailureKeepsBreaker ==
    ASSUME BreakerInv, RecordFailure
    PROVE  BreakerInv'
<1>1. cooled' \in BOOLEAN
  BY DEF RecordFailure
<1>2. streak' = 0 /\ breaker' \in {"closed", "open"}
  BY DEF RecordFailure, BreakerInv, BreakerTypeOK
<1>3. failures' \in 0 .. FailureThreshold /\ successes' \in 0 .. SuccessThreshold
  BY BreakerAssumption DEF RecordFailure, BreakerInv, BreakerTypeOK
<1>4. streak' \in 0 .. SuccessThreshold
  BY <1>2, BreakerAssumption
<1> QED BY <1>1, <1>2, <1>3, <1>4 DEF BreakerInv, BreakerTypeOK, CountedInARow

\* What a step may do to the breaker.
BreakerMove ==
    \/ RecordSuccess \/ RecordFailure \/ CoolDown
    \/ (Crash /\ BreakerInit') \/ UNCHANGED breakerVars

LEMMA StorageStepsMoveBreaker ==
    ASSUME NEW t \in Tasks, StorageStep(t)
    PROVE  BreakerMove
<1>1. CASE Refused(t) \/ WriteBegin(t) \/ Commit(t) \/ Prune(t)
           \/ CleanFile(t) \/ CleanHistory(t) \/ CleanLatest(t)
  BY <1>1 DEF BreakerMove, Refused, WriteBegin, Commit, Prune, CleanFile, CleanHistory, CleanLatest
<1>2. CASE WriteEnd(t) \/ Read(t)
  BY <1>2 DEF BreakerMove, WriteEnd, Read
<1>3. CASE WriteFails(t) \/ ReadFails(t)
  BY <1>3 DEF BreakerMove, WriteFails, ReadFails, Retry
<1> QED BY <1>1, <1>2, <1>3 DEF StorageStep

LEMMA StepsMoveBreaker ==
    ASSUME Next
    PROVE  BreakerMove
<1>1. CASE TrainerStep
  BY <1>1 DEF BreakerMove, TrainerStep, Boot, Booted, Train, Trained
<1>2. ASSUME NEW t \in Callers, InitiateStep(t)
      PROVE  BreakerMove
  BY <1>2 DEF BreakerMove, InitiateStep, SaveFirst, NothingToSave, SavedFirst, Announce,
              AnnouncePanics, Own
<1>3. CASE MonitorStep
  <2>1. CASE InitiateStep("monitor")
    BY <1>2, <2>1 DEF Callers
  <2>2. CASE ~InitiateStep("monitor")
    BY <1>3, <2>2 DEF BreakerMove, MonitorStep, Look, DetectFailed, ReadRegistry, ExtendKnown,
                      Elapsed, ReadExpected, ToSynchronizing, ReadTarget, SetWorld, SetStable, Own
  <2> QED BY <2>1, <2>2
<1>4. CASE AdminStep
  BY <1>2, <1>4 DEF BreakerMove, AdminStep, CleanedUp, Callers
<1>5. CASE Request \/ RequestCleanUp \/ TimePasses
  BY <1>5 DEF BreakerMove, Request, RequestCleanUp, TimePasses, Own
<1>6. CASE \E t \in Tasks : TaskStep(t)
  BY <1>6, StorageStepsMoveBreaker DEF TaskStep
<1>7. CASE \E w \in limits.workers : Heartbeat(w) \/ FallSilent(w)
  BY <1>7 DEF BreakerMove, Heartbeat, FallSilent
<1>8. CASE Cooling
  BY <1>8 DEF BreakerMove, Cooling
<1>9. CASE Crash
  BY <1>9 DEF BreakerMove, Crash, BreakerInit
<1> QED BY <1>1, <1>3, <1>4, <1>5, <1>6, <1>7, <1>8, <1>9 DEF Next

LEMMA BreakerStep ==
    ASSUME BreakerInv, [Next]_vars
    PROVE  BreakerInv'
<1>1. CASE BreakerMove
  <2>1. CASE CoolDown \/ UNCHANGED breakerVars
    <3>1. cooled' \in BOOLEAN
      BY <2>1 DEF CoolDown, breakerVars, BreakerInv, BreakerTypeOK
    <3> QED BY <2>1, <3>1
            DEF CoolDown, breakerVars, BreakerInv, BreakerTypeOK, CountedInARow
  <2>2. CASE RecordSuccess
    BY <2>2, SuccessKeepsBreaker
  <2>3. CASE RecordFailure
    BY <2>3, FailureKeepsBreaker
  <2>4. CASE BreakerInit'
    <3>1. cooled' \in BOOLEAN
      BY <2>4 DEF BreakerInit
    <3>2. breaker' = "closed" /\ failures' = 0 /\ successes' = 0 /\ streak' = 0
      BY <2>4 DEF BreakerInit
    <3> QED BY <3>1, <3>2, BreakerAssumption DEF BreakerInv, BreakerTypeOK, CountedInARow
  <2> QED BY <1>1, <2>1, <2>2, <2>3, <2>4 DEF BreakerMove
<1>2. CASE UNCHANGED vars
  BY <1>2 DEF vars, BreakerInv, BreakerTypeOK, CountedInARow
<1> QED BY <1>1, <1>2, StepsMoveBreaker
-----------------------------------------------------------------------------
(* The checkpoints, one lemma for every step.                               *)

StorageInv ==
    /\ StorageTypeOK /\ trained \in Steps \union {NoStep}
    /\ LoadsFirst /\ AckedHasFile /\ SavesArePast /\ OneByOne /\ LatestKept

OpPcs == {"idle", "load"} \union SavePcs \union Cleaning \union Ended
OpType == [pc : OpPcs, path : Path \union {<<>>}, attempt : 0 .. MaxAttempts - 1,
           left : SUBSET Path]

\* What a task does leaves the operations of the others alone.
LEMMA GotoFacts ==
    ASSUME StorageTypeOK, NEW t \in Tasks, NEW pc \in OpPcs, Goto(t, pc),
           pc \in SavePcs \union {"load"} => op[t].path \in Path
    PROVE  /\ op' \in [Tasks -> OpType]
           /\ \A u \in Tasks : op'[u].pc \in SavePcs \union {"load"} => op'[u].path \in Path
           /\ op'[t].pc = pc /\ op'[t].path = op[t].path
           /\ \A u \in Tasks : u # t => op'[u] = op[u]
<1>1. op' = [op EXCEPT ![t] = [op[t] EXCEPT !.pc = pc, !.attempt = 0]]
  BY DEF Goto, StorageTypeOK
<1>2. 0 \in 0 .. MaxAttempts - 1
  BY CheckpointsAssumption
<1> QED BY <1>1, <1>2 DEF StorageTypeOK, OpPcs, OpType

LEMMA WriteBeginKeeps ==
    ASSUME StorageInv, NEW t \in Tasks, WriteBegin(t), UNCHANGED trainerVars
    PROVE  StorageInv'
<1> USE DEF StorageInv, trainerVars
<1>1. /\ op[t].pc = "write" /\ op[t].path \in Path /\ Saving(t)
      /\ op' = [op EXCEPT ![t].pc = "writing"]
      /\ files' = [files EXCEPT ![op[t].path] = "torn"]
      /\ UNCHANGED <<faulty, latest, history, loaded, acked, dropped, calm>>
  BY DEF WriteBegin, StorageTypeOK, SavePcs, Saving
<1>2. /\ op'[t].pc = "writing" /\ op'[t].path = op[t].path
      /\ \A u \in Tasks : u # t => op'[u] = op[u]
      /\ files'[op[t].path] = "torn"
      /\ \A p \in Path : p # op[t].path => files'[p] = files[p]
  BY <1>1 DEF StorageTypeOK
<1>3. StorageTypeOK'
  <2>1. op' \in [Tasks -> OpType]
    BY <1>1 DEF StorageTypeOK, OpPcs, OpType, SavePcs
  <2>2. files' \in [Path -> {"none", "torn", "whole"}]
    BY <1>1 DEF StorageTypeOK
  <2>3. \A u \in Tasks : op'[u].pc \in SavePcs \union {"load"} => op'[u].path \in Path
    BY <1>1, <1>2 DEF StorageTypeOK
  <2> QED BY <1>1, <2>1, <2>2, <2>3 DEF StorageTypeOK, OpPcs, OpType
<1>4. \A u \in Tasks : Saving(u)' = Saving(u)
  BY <1>1, <1>2 DEF Saving, SavePcs
<1>5. LoadsFirst'
  BY <1>1, <1>2, <1>4 DEF LoadsFirst
<1>6. AckedHasFile'
  BY <1>1, <1>2 DEF AckedHasFile, StorageTypeOK, SavePcs
<1>7. SavesArePast'
  BY <1>1, <1>2, <1>4, ElasticAssumption DEF SavesArePast
<1>8. OneByOne'
  BY <1>1, <1>2, <1>4 DEF OneByOne, Sorted, SavePcs, Cleaning, Saving
<1>9. LatestKept'
  BY <1>1, <1>4 DEF LatestKept
<1> QED BY <1>1, <1>3, <1>5, <1>6, <1>7, <1>8, <1>9

LEMMA WriteEndKeeps ==
    ASSUME StorageInv, NEW t \in Tasks, WriteEnd(t), UNCHANGED trainerVars
    PROVE  StorageInv'
<1> USE DEF StorageInv, trainerVars
<1>1. /\ op[t].pc = "writing" /\ op[t].path \in Path /\ Saving(t)
      /\ Goto(t, "verify")
      /\ files' = [files EXCEPT ![op[t].path] = "whole"]
      /\ UNCHANGED <<faulty, latest, history, loaded, acked, dropped, calm>>
  BY DEF WriteEnd, StorageTypeOK, SavePcs, Saving
<1>2. /\ op' \in [Tasks -> OpType]
      /\ \A u \in Tasks : op'[u].pc \in SavePcs \union {"load"} => op'[u].path \in Path
      /\ op'[t].pc = "verify" /\ op'[t].path = op[t].path
      /\ \A u \in Tasks : u # t => op'[u] = op[u]
  BY <1>1, GotoFacts DEF OpPcs, OpType, SavePcs
<1>3. /\ files'[op[t].path] = "whole"
      /\ \A p \in Path : p # op[t].path => files'[p] = files[p]
  BY <1>1 DEF StorageTypeOK
<1>4. StorageTypeOK'
  BY <1>1, <1>2 DEF StorageTypeOK, OpPcs, OpType
<1>5. \A u \in Tasks : Saving(u)' = Saving(u)
  BY <1>1, <1>2 DEF Saving, SavePcs
<1>6. LoadsFirst'
  BY <1>1, <1>2, <1>5 DEF LoadsFirst
<1>7. AckedHasFile'
  BY <1>1, <1>2, <1>3 DEF AckedHasFile, StorageTypeOK, SavePcs
<1>8. SavesArePast'
  BY <1>1, <1>2, <1>5, ElasticAssumption DEF SavesArePast
<1>9. OneByOne'
  <2>1. SUFFICES ASSUME calm PROVE OneByOne'
    BY <1>1 DEF OneByOne
  <2>2. \A u \in Tasks : u # t => ~Saving(u)
    BY <1>1, <2>1 DEF OneByOne
  <2>3. \A u \in Tasks : op'[u].pc \in {"verify", "commit", "prune"} => u = t
    BY <1>2, <2>2 DEF Saving, SavePcs
  <2>4. \A u \in Tasks : op'[u].pc \notin Cleaning
    BY <1>2, <2>1 DEF OneByOne, Cleaning
  <2> QED BY <1>1, <1>2, <1>3, <1>5, <2>1, <2>3, <2>4 DEF OneByOne, Sorted
<1>10. LatestKept'
  BY <1>1, <1>5 DEF LatestKept
<1> QED BY <1>1, <1>4, <1>6, <1>7, <1>8, <1>9, <1>10

\* A task goes on, or gives up, and nothing else changes.
LEMMA MoveKeeps ==
    ASSUME StorageInv, NEW t \in Tasks,
           op' \in [Tasks -> OpType],
           \A u \in Tasks : u # t => op'[u] = op[u],
           op'[t].pc \in SavePcs \union {"load"} =>
               op'[t].path = op[t].path /\ op[t].path \in Path,
           Saving(t)' => Saving(t),
           Saving(t) /\ ~Saving(t)' => ~calm',
           op'[t].pc = "load" => op[t].pc = "load",
           op'[t].pc \in Cleaning => ~calm',
           op'[t].pc \in {"verify", "commit"} => op[t].pc \in {"verify", "commit"},
           op'[t].pc # "prune",
           UNCHANGED <<faulty, files, latest, history, acked, dropped>>, UNCHANGED trainerVars,
           loaded' \in Steps \union {NoStep},
           calm' \in BOOLEAN, calm' => calm
    PROVE  StorageInv'
<1> USE DEF StorageInv, trainerVars
<1>1. \A u \in Tasks : op'[u].pc \in SavePcs \union {"load"} =>
          op'[u].path \in Path /\ op'[u].path = op[u].path
  BY DEF StorageTypeOK
<1>2. StorageTypeOK'
  BY <1>1 DEF StorageTypeOK, OpPcs, OpType
<1>3. \A u \in Tasks : Saving(u)' => Saving(u) /\ op'[u].path = op[u].path
  BY <1>1 DEF Saving
<1>4. LoadsFirst'
  BY <1>3 DEF LoadsFirst
<1>5. AckedHasFile'
  <2>1. \A u \in Tasks : op'[u].pc = "load" => op[u].pc = "load" /\ op'[u].path = op[u].path
    BY <1>1
  <2> QED BY <2>1 DEF AckedHasFile
<1>6. SavesArePast'
  BY <1>3, ElasticAssumption DEF SavesArePast
<1>7. OneByOne'
  <2>1. SUFFICES ASSUME calm' PROVE OneByOne'
    BY DEF OneByOne
  <2>2. calm /\ Sorted'
    BY <2>1 DEF OneByOne, Sorted
  <2>3. \A u \in Tasks : op'[u].pc \in {"verify", "commit", "prune"} =>
            op[u].pc \in {"verify", "commit", "prune"} /\ op'[u].path = op[u].path
    BY <1>1 DEF SavePcs
  <2>4. \A u \in Tasks : op'[u].pc = "prune" => op[u].pc = "prune" /\ op'[u].path = op[u].path
    BY <1>1 DEF SavePcs
  <2>5. \A u \in Tasks : op'[u].pc \notin Cleaning
    BY <2>1, <2>2 DEF OneByOne
  <2> QED BY <1>3, <2>2, <2>3, <2>4, <2>5 DEF OneByOne
<1>8. LatestKept'
  <2>1. SUFFICES ASSUME calm', \A u \in Tasks : ~Saving(u)' PROVE LatestKept'
    BY DEF LatestKept
  <2>2. \A u \in Tasks : ~Saving(u)
    BY <2>1 DEF Saving
  <2> QED BY <2>1, <2>2 DEF LatestKept
<1> QED BY <1>2, <1>4, <1>5, <1>6, <1>7, <1>8

LEMMA RefusedKeeps ==
    ASSUME StorageInv, NEW t \in Tasks, Refused(t), UNCHANGED trainerVars
    PROVE  StorageInv'
<1>1. /\ Goto(t, "failed") /\ ~calm' /\ calm' \in BOOLEAN
      /\ UNCHANGED <<faulty, files, latest, history, acked, dropped>>
      /\ loaded' \in Steps \union {NoStep} /\ StorageTypeOK
  BY DEF Refused, StorageInv, StorageTypeOK
<1>2. /\ op' \in [Tasks -> OpType]
      /\ op'[t].pc = "failed"
      /\ \A u \in Tasks : u # t => op'[u] = op[u]
  BY <1>1, GotoFacts DEF OpPcs, OpType, SavePcs, Ended
<1> QED BY <1>1, <1>2, MoveKeeps DEF Saving, SavePcs, Cleaning

LEMMA RetryKeeps ==
    ASSUME StorageInv, NEW t \in Tasks, NEW pc \in {"write", "verify", "load"}, Retry(t, pc),
           op[t].pc = pc \/ (pc = "write" /\ op[t].pc = "writing"),
           UNCHANGED <<faulty, files, latest, history, loaded, acked, dropped>>,
           UNCHANGED trainerVars
    PROVE  StorageInv'
<1>1. StorageTypeOK /\ loaded' \in Steps \union {NoStep}
  BY DEF StorageInv, StorageTypeOK
<1>2. CASE op[t].attempt + 1 < MaxAttempts
  <2>1. op' = [op EXCEPT ![t] = [op[t] EXCEPT !.pc = pc, !.attempt = @ + 1]] /\ calm' = calm
    BY <1>1, <1>2 DEF Retry, StorageTypeOK
  <2>2. op[t].attempt + 1 \in 0 .. MaxAttempts - 1 /\ op[t].path \in Path /\ pc \in OpPcs
    BY <1>1, <1>2, CheckpointsAssumption DEF StorageTypeOK, OpPcs, OpType, SavePcs
  <2>3. /\ op' \in [Tasks -> OpType]
        /\ op'[t].pc = pc /\ op'[t].path = op[t].path
        /\ \A u \in Tasks : u # t => op'[u] = op[u]
    BY <1>1, <2>1, <2>2 DEF StorageTypeOK, OpPcs, OpType
  <2>4. calm' \in BOOLEAN /\ (calm' => calm)
    BY <1>1, <2>1 DEF StorageTypeOK
  <2> QED BY <1>1, <2>2, <2>3, <2>4, MoveKeeps DEF Saving, SavePcs, Cleaning
<1>3. CASE ~(op[t].attempt + 1 < MaxAttempts)
  <2>1. Goto(t, "failed") /\ ~calm' /\ calm' \in BOOLEAN
    BY <1>3 DEF Retry
  <2>2. /\ op' \in [Tasks -> OpType]
        /\ op'[t].pc = "failed"
        /\ \A u \in Tasks : u # t => op'[u] = op[u]
    BY <1>1, <2>1, GotoFacts DEF OpPcs, OpType, SavePcs, Ended
  <2> QED BY <1>1, <2>1, <2>2, MoveKeeps DEF Saving, SavePcs, Cleaning
<1> QED BY <1>2, <1>3

LEMMA ReadKeeps ==
    ASSUME StorageInv, NEW t \in Tasks, Read(t), UNCHANGED trainerVars
    PROVE  StorageInv'
<1>1. /\ StorageTypeOK /\ op[t].pc \in {"verify", "load"} /\ op[t].path \in Path
      /\ calm' = calm /\ calm' \in BOOLEAN
      /\ UNCHANGED <<faulty, files, latest, history, acked, dropped>>
      /\ op[t].pc = "verify" => Goto(t, "commit") /\ loaded' = loaded
      /\ op[t].pc = "load" => Goto(t, "loaded") /\ loaded' = op[t].path[1]
  BY DEF Read, StorageInv, StorageTypeOK, SavePcs
<1>2. loaded' \in Steps \union {NoStep}
  BY <1>1 DEF StorageTypeOK, Path
<1>3. CASE op[t].pc = "verify"
  <2>1. /\ op' \in [Tasks -> OpType]
        /\ op'[t].pc = "commit" /\ op'[t].path = op[t].path
        /\ \A u \in Tasks : u # t => op'[u] = op[u]
    BY <1>1, <1>3, GotoFacts DEF OpPcs, OpType, SavePcs
  <2> QED BY <1>1, <1>2, <1>3, <2>1, MoveKeeps DEF Saving, SavePcs, Cleaning
<1>4. CASE op[t].pc = "load"
  <2>1. /\ op' \in [Tasks -> OpType]
        /\ op'[t].pc = "loaded"
        /\ \A u \in Tasks : u # t => op'[u] = op[u]
    BY <1>1, <1>4, GotoFacts DEF OpPcs, OpType, SavePcs, Ended
  <2> QED BY <1>1, <1>2, <1>4, <2>1, MoveKeeps DEF Saving, SavePcs, Cleaning
<1> QED BY <1>1, <1>3, <1>4

\* A task returns from what it did, or begins to clean up.
LEMMA ReturnKeeps ==
    ASSUME StorageInv, NEW t \in Tasks, op[t].pc \in Ended, Return(t),
           UNCHANGED <<faulty, files, latest, history, loaded, acked, dropped, calm>>,
           UNCHANGED trainerVars
    PROVE  StorageInv'
<1>1. /\ StorageTypeOK /\ loaded' \in Steps \union {NoStep}
      /\ calm' \in BOOLEAN /\ (calm' => calm)
  BY DEF StorageInv, StorageTypeOK
<1>2. /\ op' \in [Tasks -> OpType]
      /\ op'[t].pc = "idle"
      /\ \A u \in Tasks : u # t => op'[u] = op[u]
  BY <1>1, CheckpointsAssumption DEF Return, Idle, StorageTypeOK, OpPcs, OpType
<1> QED BY <1>1, <1>2, MoveKeeps DEF Saving, SavePcs, Cleaning, Ended

LEMMA BeginCleanUpKeeps ==
    ASSUME StorageInv, NEW t \in Tasks, BeginCleanUp(t), UNCHANGED trainerVars
    PROVE  StorageInv'
<1> DEFINE rec(pc, left) == [pc |-> pc, path |-> <<>>, attempt |-> 0, left |-> left]
<1>1. /\ ~calm' /\ calm' \in BOOLEAN
      /\ UNCHANGED <<faulty, files, latest, history, acked, dropped>>
      /\ loaded' \in Steps \union {NoStep} /\ StorageTypeOK
  BY DEF BeginCleanUp, StorageInv, StorageTypeOK
<1>2. PICK pc \in {"clean_files", "failed"}, left \in SUBSET Path :
          op' = [op EXCEPT ![t] = rec(pc, left)]
  <2>1. CASE op' = [op EXCEPT ![t] = rec("clean_files", CheckpointFiles)]
    <3>1. CheckpointFiles \in SUBSET Path
      BY DEF CheckpointFiles
    <3> HIDE DEF rec
    <3> QED BY <2>1, <3>1
  <2>2. CASE op' = [op EXCEPT ![t] = [Idle EXCEPT !.pc = "failed"]]
    <3>1. [Idle EXCEPT !.pc = "failed"] = rec("failed", {})
      BY DEF Idle
    <3> HIDE DEF rec
    <3> QED BY <2>2, <3>1
  <2> QED BY <2>1, <2>2 DEF BeginCleanUp
<1>3. rec(pc, left) \in OpType
  BY CheckpointsAssumption DEF OpPcs, OpType, Cleaning, Ended
<1>4. /\ op' \in [Tasks -> OpType]
      /\ op'[t].pc \in {"clean_files", "failed"}
      /\ \A u \in Tasks : u # t => op'[u] = op[u]
  BY <1>1, <1>2, <1>3 DEF StorageTypeOK, OpPcs, OpType
<1> QED BY <1>1, <1>4, MoveKeeps DEF Saving, SavePcs, Cleaning

LEMMA CommitKeeps ==
    ASSUME StorageInv, NEW t \in Tasks, Commit(t), UNCHANGED trainerVars
    PROVE  StorageInv'
<1> USE DEF StorageInv, trainerVars
<1>1. /\ op[t].pc = "commit" /\ op[t].path \in Path /\ Saving(t)
      /\ op[t].path[1] \in Steps
      /\ Goto(t, "prune") /\ latest' = op[t].path[1]
      /\ UNCHANGED <<faulty, files, history, loaded, acked, dropped, calm>>
  BY DEF Commit, StorageTypeOK, SavePcs, Saving, Path
<1>2. /\ op' \in [Tasks -> OpType]
      /\ \A u \in Tasks : op'[u].pc \in SavePcs \union {"load"} => op'[u].path \in Path
      /\ op'[t].pc = "prune" /\ op'[t].path = op[t].path
      /\ \A u \in Tasks : u # t => op'[u] = op[u]
  BY <1>1, GotoFacts DEF OpPcs, OpType, SavePcs
<1>3. StorageTypeOK'
  BY <1>1, <1>2 DEF StorageTypeOK, OpPcs, OpType
<1>4. \A u \in Tasks : Saving(u)' = Saving(u)
  BY <1>1, <1>2 DEF Saving, SavePcs
<1>5. booted
  BY <1>1 DEF LoadsFirst
<1>6. LoadsFirst'
  BY <1>1, <1>2, <1>5 DEF LoadsFirst
<1>7. AckedHasFile'
  BY <1>1, <1>2 DEF AckedHasFile
<1>8. SavesArePast'
  BY <1>1, <1>2, <1>4, ElasticAssumption DEF SavesArePast
<1>9. OneByOne'
  <2>1. SUFFICES ASSUME calm PROVE OneByOne'
    BY <1>1 DEF OneByOne
  <2>2. \A u \in Tasks : Saving(u) => u = t
    BY <1>1, <2>1 DEF OneByOne
  <2>3. op[t].path[1] >= latest /\ Sorted
    BY <1>1, <2>1 DEF OneByOne
  <2>4. /\ history \in Seq(Path) /\ Len(history) \in Nat
        /\ \A i \in 1 .. Len(history) : history[i] \in Path
    BY DEF StorageTypeOK
  <2>5. \A i \in 1 .. Len(history) : history[i][1] \in Nat
    BY <2>4, CheckpointsAssumption DEF Path, Steps
  <2>6. latest \in Nat /\ op[t].path[1] \in Nat
    BY <1>1, CheckpointsAssumption DEF StorageTypeOK, Steps, NoStep
  <2>7. Sorted'
    BY <1>1, <2>3, <2>4, <2>5, <2>6 DEF Sorted
  <2>8. \A u \in Tasks : Saving(u)' => op'[u].path[1] >= latest'
    BY <1>1, <1>2, <1>4, <2>2, <2>6
  <2>9. \A u \in Tasks : op'[u].pc \in {"verify", "commit", "prune"} => u = t
    BY <1>2, <2>2 DEF Saving, SavePcs
  <2>10. \A u \in Tasks : op'[u].pc \notin Cleaning
    BY <1>2, <2>1 DEF OneByOne, Cleaning
  <2>11. files[op[t].path] = "whole"
    BY <1>1, <2>1 DEF OneByOne
  <2> QED BY <1>1, <1>2, <1>4, <2>2, <2>7, <2>8, <2>9, <2>10, <2>11 DEF OneByOne
<1>10. LatestKept'
  BY <1>1, <1>4 DEF LatestKept
<1> QED BY <1>1, <1>3, <1>6, <1>7, <1>8, <1>9, <1>10

\* What Append, Head and Tail do to a sequence.
LEMMA QueueFacts ==
    ASSUME NEW S, NEW s \in Seq(S), NEW x \in S
    PROVE  /\ Len(s) \in Nat /\ \A i \in 1 .. Len(s) : s[i] \in S
           /\ Append(s, x) \in Seq(S) /\ Len(Append(s, x)) = Len(s) + 1
           /\ \A i \in 1 .. Len(s) : Append(s, x)[i] = s[i]
           /\ Append(s, x)[Len(s) + 1] = x
           /\ Head(Append(s, x)) = Append(s, x)[1] /\ Head(Append(s, x)) \in S
           /\ Tail(Append(s, x)) \in Seq(S) /\ Len(Tail(Append(s, x))) = Len(s)
           /\ \A i \in 1 .. Len(s) : Tail(Append(s, x))[i] = Append(s, x)[i + 1]
OBVIOUS

\* While nothing disturbs the saves the file that goes is another one than the
\* one just written, or the history holds nothing but this step.
LEMMA PruneKeeps ==
    ASSUME StorageInv, NEW t \in Tasks, Prune(t), UNCHANGED trainerVars
    PROVE  StorageInv'
<1> USE DEF StorageInv, trainerVars
<1> DEFINE path == op[t].path
           h == Append(history, path)
           full == Len(h) > MaxCheckpoints
<1>1. /\ op[t].pc = "prune" /\ path \in Path /\ Saving(t)
      /\ path[1] \in Steps
      /\ Goto(t, "saved")
      /\ history' = IF full THEN Tail(h) ELSE h
      /\ files' = files \/ (full /\ files' = [files EXCEPT ![Head(h)] = "none"])
      /\ acked' = IF path[1] > acked THEN path[1] ELSE acked
      /\ path[1] > acked => dropped' = (files'[path] = "none")
      /\ ~(path[1] > acked) =>
            /\ dropped' \in BOOLEAN /\ (dropped => dropped')
            /\ files' # files => (Head(h)[1] = acked => dropped')
      /\ UNCHANGED <<faulty, latest, loaded, calm>>
  BY DEF Prune, Acknowledge, Newer, StorageTypeOK, SavePcs, Saving, Path
<1>2. /\ op' \in [Tasks -> OpType]
      /\ \A u \in Tasks : op'[u].pc \in SavePcs \union {"load"} => op'[u].path \in Path
      /\ op'[t].pc = "saved"
      /\ \A u \in Tasks : u # t => op'[u] = op[u]
  BY <1>1, GotoFacts DEF OpPcs, OpType, SavePcs, Ended
<1>3. /\ Len(history) \in Nat /\ \A i \in 1 .. Len(history) : history[i] \in Path
      /\ h \in Seq(Path) /\ Len(h) = Len(history) + 1
      /\ \A i \in 1 .. Len(history) : h[i] = history[i]
      /\ h[Len(history) + 1] = path
      /\ Head(h) = h[1] /\ Head(h) \in Path
      /\ Tail(h) \in Seq(Path) /\ Len(Tail(h)) = Len(history)
      /\ \A i \in 1 .. Len(history) : Tail(h)[i] = h[i + 1]
  <2>1. path \in Path /\ history \in Seq(Path)
    BY <1>1 DEF StorageTypeOK
  <2> HIDE DEF path
  <2> QED BY <2>1, QueueFacts
<1>4. /\ acked \in Nat /\ acked' \in Nat /\ acked' \in Steps \union {NoStep}
      /\ acked =< acked' /\ path[1] =< acked' /\ path[1] \in Nat
      /\ \A i \in 1 .. Len(history) : history[i][1] \in Nat
  <2>1. Steps \subseteq Nat /\ NoStep \in Nat /\ \A p \in Path : p[1] \in Steps
    BY CheckpointsAssumption DEF Steps, NoStep, Path
  <2>2. acked \in Steps \union {NoStep} /\ path[1] \in Steps
    BY <1>1 DEF StorageTypeOK
  <2>3. acked' = IF path[1] > acked THEN path[1] ELSE acked
    BY <1>1
  <2>4. acked \in Nat /\ path[1] \in Nat /\ acked' \in Steps \union {NoStep}
    BY <2>1, <2>2, <2>3
  <2>5. \A i \in 1 .. Len(history) : history[i][1] \in Nat
    BY <1>3, <2>1
  <2> HIDE DEF path, h, full
  <2> QED BY <2>3, <2>4, <2>5
<1>7. StorageTypeOK'
  <2>1. history' \in Seq(Path) /\ Len(history') =< MaxCheckpoints
    BY <1>1, <1>3, CheckpointsAssumption DEF StorageTypeOK
  <2>2. files' \in [Path -> {"none", "torn", "whole"}]
    BY <1>1, <1>3 DEF StorageTypeOK
  <2>3. dropped' \in BOOLEAN
    BY <1>1
  <2> QED BY <1>1, <1>2, <1>4, <2>1, <2>2, <2>3 DEF StorageTypeOK, OpPcs, OpType
<1>8. \A u \in Tasks : Saving(u)' => Saving(u) /\ u # t
  BY <1>2 DEF Saving, SavePcs, Ended
<1>9. booted
  BY <1>1 DEF LoadsFirst
<1>10. LoadsFirst'
  BY <1>1, <1>2, <1>8, <1>9 DEF LoadsFirst
<1>11. \A p \in Path : files'[p] = "none" =>
          files[p] = "none" \/ (full /\ p = Head(h) /\ files' # files)
  BY <1>1, <1>3 DEF StorageTypeOK
<1>13. AckedHasFile'
  <2>1. dropped' \/ \E p \in Path : p[1] = acked' /\ files'[p] # "none"
    <3>1. CASE path[1] > acked
      BY <1>1, <3>1
    <3>2. CASE ~(path[1] > acked)
      <4>1. acked # NoStep
        BY <1>1, <1>4, <3>2 DEF Steps, NoStep
      <4>2. dropped \/ \E p \in Path : p[1] = acked /\ files[p] # "none"
        BY <4>1 DEF AckedHasFile
      <4> HIDE DEF path, h, full
      <4> QED BY <1>1, <1>11, <3>2, <4>2
    <3> QED BY <3>1, <3>2
  <2>2. \A u \in Tasks : op'[u].pc # "load"
    BY <1>2, <1>9 DEF LoadsFirst
  <2> QED BY <2>1, <2>2 DEF AckedHasFile
<1>14. SavesArePast'
  BY <1>1, <1>2, <1>8, ElasticAssumption DEF SavesArePast
<1>15. ASSUME calm
       PROVE  /\ \A u \in Tasks : ~Saving(u)'
              /\ path[1] = latest /\ files[path] = "whole" /\ latest \in Nat
              /\ \A i, j \in 1 .. Len(h) : i =< j => h[i][1] =< h[j][1]
              /\ \A i \in 1 .. Len(h) : h[i][1] =< latest
  <2>1. path[1] = latest /\ files[path] = "whole" /\ Sorted /\ latest \in Nat
    BY <1>1, <1>4, <1>15 DEF OneByOne
  <2>2. \A u \in Tasks : ~Saving(u)'
    BY <1>1, <1>8, <1>15 DEF OneByOne
  <2>3. \A i \in 1 .. Len(h) : h[i][1] =< latest
    BY <1>3, <2>1 DEF Sorted
  <2>4. \A i, j \in 1 .. Len(h) : i =< j => h[i][1] =< h[j][1]
    BY <1>3, <2>1, <2>3 DEF Sorted
  <2> QED BY <2>1, <2>2, <2>3, <2>4
<1>16. OneByOne'
  <2>1. SUFFICES ASSUME calm PROVE OneByOne'
    BY <1>1 DEF OneByOne
  <2>2. Sorted'
    <3>1. CASE full
      <4>1. /\ Len(history') = Len(history)
            /\ \A i \in 1 .. Len(history) : i + 1 \in 1 .. Len(h) /\ history'[i] = h[i + 1]
        BY <1>1, <1>3, <3>1
      <4>2. /\ \A i, j \in 1 .. Len(h) : i =< j => h[i][1] =< h[j][1]
            /\ \A i \in 1 .. Len(h) : h[i][1] =< latest'
        BY <1>1, <1>15, <2>1
      <4>3. \A i, j \in 1 .. Len(history) : i =< j => i + 1 =< j + 1
        BY <1>3
      <4> HIDE DEF path, h, full
      <4> QED BY <4>1, <4>2, <4>3 DEF Sorted
    <3>2. CASE ~full
      BY <1>1, <1>3, <1>15, <2>1, <3>2 DEF Sorted
    <3> QED BY <3>1, <3>2
  <2>3. \A u \in Tasks : op'[u].pc \notin Cleaning \union {"verify", "commit", "prune"}
    <3>1. \A u \in Tasks : op'[u].pc \notin SavePcs
      BY <1>15, <2>1 DEF Saving
    <3>2. \A u \in Tasks : op'[u].pc \notin Cleaning
      BY <1>2, <2>1 DEF OneByOne, Cleaning
    <3> QED BY <3>1, <3>2 DEF SavePcs
  <2> QED BY <1>15, <2>1, <2>2, <2>3 DEF OneByOne
<1>17. LatestKept'
  <2>1. SUFFICES ASSUME calm PROVE LatestKept'
    BY <1>1 DEF LatestKept
  <2>2. CASE full /\ Head(h) = path
    <3>1. /\ Len(history') = MaxCheckpoints
          /\ \A i \in 1 .. Len(history') : history'[i] = h[i + 1]
      BY <1>1, <1>3, <2>2, CheckpointsAssumption DEF StorageTypeOK
    <3>2. \A i \in 1 .. Len(h) : h[i][1] = latest
      <4>1. h[1][1] = latest /\ \A i \in 1 .. Len(h) : h[1][1] =< h[i][1] /\ h[i][1] =< latest
        BY <1>3, <1>15, <2>1, <2>2
      <4>2. \A i \in 1 .. Len(h) : h[i][1] \in Nat
        <5>1. path[1] \in Nat /\ \A i \in 1 .. Len(history) : history[i][1] \in Nat
          BY <1>4
        <5>2. \A i \in 1 .. Len(h) : i = Len(history) + 1 \/ i \in 1 .. Len(history)
          BY <1>3
        <5> QED BY <1>3, <5>1, <5>2
      <4> QED BY <1>15, <2>1, <4>1, <4>2
    <3> QED BY <1>1, <1>3, <3>1, <3>2 DEF LatestKept
  <2>3. CASE ~(full /\ Head(h) = path)
    <3>1. files'[path] = "whole"
      BY <1>1, <1>3, <1>15, <2>1, <2>3 DEF StorageTypeOK
    <3> QED BY <1>1, <1>15, <2>1, <3>1 DEF LatestKept
  <2> QED BY <2>2, <2>3
<1> QED BY <1>1, <1>7, <1>10, <1>13, <1>14, <1>16, <1>17

LEMMA CleanFileKeeps ==
    ASSUME StorageInv, NEW t \in Tasks, CleanFile(t), UNCHANGED trainerVars
    PROVE  StorageInv'
<1> USE DEF StorageInv, trainerVars
<1>1. PICK p \in op[t].left :
          /\ op' = [op EXCEPT ![t].left = @ \ {p}]
          /\ \/ files' = [files EXCEPT ![p] = "none"] /\ dropped' = (dropped \/ p[1] = acked)
             \/ UNCHANGED <<files, dropped>>
  BY DEF CleanFile
<1>2. op[t].pc = "clean_files" /\ UNCHANGED <<faulty, latest, history, loaded, acked, calm>>
  BY DEF CleanFile
<1>3. op[t].left \subseteq Path /\ p \in Path
  BY <1>1 DEF StorageTypeOK
<1>4. \A u \in Tasks : op'[u].pc = op[u].pc /\ op'[u].path = op[u].path
  BY <1>1 DEF StorageTypeOK
<1>5. /\ files' \in [Path -> {"none", "torn", "whole"}] /\ dropped' \in BOOLEAN
      /\ dropped => dropped'
      /\ \A q \in Path : files'[q] = files[q] \/ (q = p /\ dropped' = (dropped \/ p[1] = acked))
  BY <1>1, <1>3 DEF StorageTypeOK
<1>6. StorageTypeOK'
  <2>1. op' \in [Tasks -> OpType]
    BY <1>1, <1>3 DEF StorageTypeOK, OpPcs, OpType
  <2> QED BY <1>2, <1>4, <1>5, <2>1 DEF StorageTypeOK, OpPcs, OpType
<1>7. \A u \in Tasks : Saving(u)' = Saving(u)
  BY <1>4 DEF Saving
<1>8. LoadsFirst'
  BY <1>2, <1>4, <1>7 DEF LoadsFirst
<1>9. AckedHasFile'
  BY <1>2, <1>4, <1>5 DEF AckedHasFile
<1>10. SavesArePast'
  BY <1>2, <1>4, <1>7, ElasticAssumption DEF SavesArePast
<1>11. ~calm'
  BY <1>2 DEF OneByOne, Cleaning
<1> QED BY <1>6, <1>8, <1>9, <1>10, <1>11 DEF OneByOne, LatestKept

LEMMA CleanHistoryKeeps ==
    ASSUME StorageInv, NEW t \in Tasks, CleanHistory(t), UNCHANGED trainerVars
    PROVE  StorageInv'
<1> USE DEF StorageInv, trainerVars
<1>1. /\ op[t].pc = "clean_files" /\ Goto(t, "clean_latest")
      /\ history' = <<>> /\ calm' = calm
      /\ UNCHANGED <<faulty, files, latest, loaded, acked, dropped, calm>>
  BY DEF CleanHistory
<1>2. /\ op' \in [Tasks -> OpType]
      /\ \A u \in Tasks : op'[u].pc \in SavePcs \union {"load"} => op'[u].path \in Path
      /\ op'[t].pc = "clean_latest"
      /\ \A u \in Tasks : u # t => op'[u] = op[u]
  BY <1>1, GotoFacts DEF OpPcs, OpType, SavePcs, Cleaning
<1>3. StorageTypeOK'
  BY <1>1, <1>2, CheckpointsAssumption DEF StorageTypeOK, OpPcs, OpType
<1>4. \A u \in Tasks : Saving(u)' => Saving(u) /\ op'[u] = op[u]
  BY <1>2 DEF Saving, SavePcs
<1>5. LoadsFirst'
  BY <1>1, <1>2, <1>4 DEF LoadsFirst
<1>6. AckedHasFile'
  <2>1. \A u \in Tasks : op'[u].pc = "load" => op'[u] = op[u]
    BY <1>2
  <2> QED BY <1>1, <2>1 DEF AckedHasFile
<1>7. SavesArePast'
  BY <1>1, <1>4, ElasticAssumption DEF SavesArePast
<1>8. ~calm'
  BY <1>1 DEF OneByOne, Cleaning
<1> QED BY <1>3, <1>5, <1>6, <1>7, <1>8 DEF OneByOne, LatestKept

LEMMA CleanLatestKeeps ==
    ASSUME StorageInv, NEW t \in Tasks, CleanLatest(t), UNCHANGED trainerVars
    PROVE  StorageInv'
<1> USE DEF StorageInv, trainerVars
<1>1. /\ op[t].pc = "clean_latest" /\ Goto(t, "cleaned")
      /\ latest' = NoStep /\ calm' = calm
      /\ UNCHANGED <<faulty, files, history, loaded, acked, dropped, calm>>
  BY DEF CleanLatest
<1>2. /\ op' \in [Tasks -> OpType]
      /\ \A u \in Tasks : op'[u].pc \in SavePcs \union {"load"} => op'[u].path \in Path
      /\ op'[t].pc = "cleaned"
      /\ \A u \in Tasks : u # t => op'[u] = op[u]
  BY <1>1, GotoFacts DEF OpPcs, OpType, SavePcs, Ended
<1>3. StorageTypeOK'
  BY <1>1, <1>2 DEF StorageTypeOK, OpPcs, OpType
<1>4. \A u \in Tasks : Saving(u)' => Saving(u) /\ op'[u] = op[u]
  BY <1>2 DEF Saving, SavePcs
<1>5. LoadsFirst'
  BY <1>1, <1>2, <1>4 DEF LoadsFirst
<1>6. AckedHasFile'
  <2>1. \A u \in Tasks : op'[u].pc = "load" => op'[u] = op[u]
    BY <1>2
  <2> QED BY <1>1, <2>1 DEF AckedHasFile
<1>7. SavesArePast'
  <2>1. booted' => latest' =< trained'
    BY <1>1, CheckpointsAssumption DEF Steps, NoStep
  <2> QED BY <1>1, <1>4, <2>1, ElasticAssumption DEF SavesArePast
<1>8. ~calm'
  BY <1>1 DEF OneByOne, Cleaning
<1> QED BY <1>3, <1>5, <1>6, <1>7, <1>8 DEF OneByOne, LatestKept

\* The trainer saves the step it does next, anybody else the latest again.
LEMMA BeginSaveKeeps ==
    ASSUME StorageInv, NEW t \in Tasks, NEW step \in Steps, BeginSave(t, step, 0), booted,
           \/ t = "trainer" /\ step = trained + 1 /\ trained' = step
           \/ t # "trainer" /\ step = latest /\ trained' = trained,
           booted' = booted
    PROVE  StorageInv'
<1> USE DEF StorageInv
<1>1. /\ op' = [op EXCEPT ![t] = [pc |-> "write", path |-> <<step, 0>>, attempt |-> 0, left |-> {}]]
      /\ UNCHANGED <<faulty, files, latest, history, loaded, acked, dropped>>
      /\ calm' \in BOOLEAN
      /\ calm' => calm
      /\ calm' => \A u \in Tasks : ~Saving(u)
  BY DEF BeginSave
<1>2. <<step, 0>> \in Path /\ 0 \in 0 .. MaxAttempts - 1
  BY ElasticAssumption, CheckpointsAssumption DEF Path
<1>3. /\ op' \in [Tasks -> OpType]
      /\ op'[t].pc = "write" /\ op'[t].path = <<step, 0>> /\ op'[t].path[1] = step
      /\ \A u \in Tasks : u # t => op'[u] = op[u]
  BY <1>1, <1>2 DEF StorageTypeOK, OpPcs, OpType, SavePcs
<1>4. /\ trained \in Nat /\ latest \in Nat /\ step \in Nat /\ latest =< trained
      /\ trained =< trained' /\ trained' \in Steps /\ step >= latest /\ step =< trained'
  BY CheckpointsAssumption DEF StorageTypeOK, Steps, NoStep, SavesArePast
<1>5. StorageTypeOK'
  <2>1. \A u \in Tasks : op'[u].pc \in SavePcs \union {"load"} => op'[u].path \in Path
    BY <1>2, <1>3 DEF StorageTypeOK
  <2> QED BY <1>1, <1>3, <2>1 DEF StorageTypeOK, OpPcs, OpType
<1>6. LoadsFirst'
  BY <1>1, <1>3 DEF LoadsFirst
<1>7. AckedHasFile'
  <2>1. \A u \in Tasks : op'[u].pc = "load" => op'[u] = op[u]
    BY <1>3
  <2> QED BY <1>1, <2>1 DEF AckedHasFile
<1>8. SavesArePast'
  <2>1. \A u \in Tasks : u # t => Saving(u)' = Saving(u)
    BY <1>3 DEF Saving
  <2>2. ASSUME NEW u \in Tasks, Saving(u)' PROVE op'[u].path[1] =< trained'
    <3>1. CASE u = t
      BY <1>3, <1>4, <3>1
    <3>2. CASE u # t
      <4>1. op[u].path[1] =< trained /\ op[u].path \in Path
        BY <2>1, <2>2, <3>2 DEF SavesArePast, StorageTypeOK, Saving
      <4>2. op[u].path[1] \in Nat
        BY <4>1, CheckpointsAssumption DEF Path, Steps
      <4> QED BY <1>3, <1>4, <3>2, <4>1, <4>2, CheckpointsAssumption DEF Steps
    <3> QED BY <3>1, <3>2
  <2>3. Saving("trainer")' => op'["trainer"].path[1] = trained'
    BY <1>3, <2>1, ElasticAssumption DEF SavesArePast
  <2> QED BY <1>1, <1>4, <2>2, <2>3, CheckpointsAssumption DEF SavesArePast, Steps
<1>9. OneByOne'
  <2>1. SUFFICES ASSUME calm' PROVE OneByOne'
    BY DEF OneByOne
  <2>2. calm /\ \A u \in Tasks : ~Saving(u)
    BY <1>1, <2>1
  <2>3. \A u \in Tasks : Saving(u)' => u = t
    BY <1>3, <2>2 DEF Saving
  <2>4. \A u \in Tasks : op'[u].pc \notin {"verify", "commit", "prune"}
    BY <1>3, <2>2 DEF Saving, SavePcs
  <2>5. \A u \in Tasks : op'[u].pc \notin Cleaning
    BY <1>3, <2>2 DEF OneByOne, Cleaning
  <2>6. Sorted'
    BY <1>1, <2>2 DEF OneByOne, Sorted
  <2> QED BY <1>1, <1>3, <1>4, <2>3, <2>4, <2>5, <2>6 DEF OneByOne
<1>10. LatestKept'
  <2>1. Saving(t)'
    BY <1>3 DEF Saving, SavePcs
  <2> QED BY <2>1 DEF LatestKept
<1> QED BY <1>4, <1>5, <1>6, <1>7, <1>8, <1>9, <1>10

\* The newest file is at least as new as what was acknowledged.
LEMMA BeginLoadKeeps ==
    ASSUME StorageInv, BeginLoad("trainer"), ~booted, UNCHANGED trainerVars
    PROVE  StorageInv'
<1> USE DEF StorageInv, trainerVars
<1> DEFINE t == "trainer"
           Loading(p) == [pc |-> "load", path |-> p, attempt |-> 0, left |-> {}]
<1>1. t \in Tasks /\ 0 \in 0 .. MaxAttempts - 1
  BY ElasticAssumption, CheckpointsAssumption
<1>2. /\ UNCHANGED <<faulty, files, latest, history, acked, dropped, calm>>
      /\ loaded' \in Steps \union {NoStep}
      /\ \/ \E pc \in {"loaded", "failed"} :
               op' = [op EXCEPT ![t] = [Idle EXCEPT !.pc = pc]]
         \/ \E p \in Newest : op' = [op EXCEPT ![t] = Loading(p)]
  BY DEF BeginLoad, StorageTypeOK
<1>3. \A u \in Tasks : ~Saving(u)
  BY DEF LoadsFirst
<1>4. /\ op' \in [Tasks -> OpType]
      /\ \A u \in Tasks : u # t => op'[u] = op[u]
      /\ op'[t].pc \in {"load", "loaded", "failed"}
      /\ op'[t].pc = "load" => op'[t].path \in Newest /\ op'[t].path \in Path
  <2>1. CASE \E pc \in {"loaded", "failed"} : op' = [op EXCEPT ![t] = [Idle EXCEPT !.pc = pc]]
    <3>1. PICK pc \in {"loaded", "failed"} : op' = [op EXCEPT ![t] = [Idle EXCEPT !.pc = pc]]
      BY <2>1
    <3>2. [Idle EXCEPT !.pc = pc] = [pc |-> pc, path |-> <<>>, attempt |-> 0, left |-> {}]
      BY DEF Idle
    <3>3. op' = [op EXCEPT ![t] = [pc |-> pc, path |-> <<>>, attempt |-> 0, left |-> {}]]
      BY <3>1, <3>2
    <3> QED BY <1>1, <3>3 DEF StorageTypeOK, OpPcs, OpType, Ended
  <2>2. CASE \E p \in Newest : op' = [op EXCEPT ![t] = Loading(p)]
    <3>1. PICK p \in Newest : op' = [op EXCEPT ![t] = Loading(p)]
      BY <2>2
    <3>2. p \in Path
      BY DEF Newest, CheckpointFiles
    <3> QED BY <1>1, <3>1, <3>2 DEF StorageTypeOK, OpPcs, OpType
  <2> QED BY <1>2, <2>1, <2>2
<1>5. \A u \in Tasks : op'[u].pc \notin SavePcs
  BY <1>3, <1>4 DEF Saving, SavePcs
<1>6. StorageTypeOK'
  <2>1. \A u \in Tasks : op'[u].pc \in SavePcs \union {"load"} => op'[u].path \in Path
    BY <1>4 DEF StorageTypeOK, SavePcs
  <2> QED BY <1>2, <1>4, <2>1 DEF StorageTypeOK, OpPcs, OpType
<1>7. LoadsFirst'
  BY <1>2, <1>4, <1>5 DEF LoadsFirst, Saving
<1>8. AckedHasFile'
  <2>1. ASSUME NEW u \in Tasks, op'[u].pc = "load"
        PROVE  op'[u].path[1] >= acked \/ dropped
    <3>1. CASE u # t
      BY <1>4, <2>1, <3>1 DEF LoadsFirst
    <3>2. CASE u = t
      <4>1. op'[t].path \in Newest /\ op'[t].path \in Path /\ op'[t].path[1] \in Nat
        BY <1>4, <2>1, <3>2, CheckpointsAssumption DEF Path, Steps
      <4>2. CASE acked = NoStep
        BY <3>2, <4>1, <4>2 DEF NoStep
      <4>3. ASSUME NEW q \in Path, q[1] = acked, files[q] # "none"
            PROVE  op'[t].path[1] >= acked
        <5>1. q[1] =< op'[t].path[1] /\ q[1] \in Nat
          BY <4>1, <4>3, CheckpointsAssumption DEF Newest, CheckpointFiles, Path, Steps
        <5> QED BY <4>1, <4>3, <5>1
      <4> QED BY <3>2, <4>2, <4>3 DEF AckedHasFile
    <3> QED BY <3>1, <3>2
  <2> QED BY <1>2, <2>1 DEF AckedHasFile
<1>9. SavesArePast'
  BY <1>2, <1>5, <1>1 DEF SavesArePast, Saving
<1>10. OneByOne'
  <2>1. SUFFICES ASSUME calm PROVE OneByOne'
    BY <1>2 DEF OneByOne
  <2>2. \A u \in Tasks : op'[u].pc \notin Cleaning
    BY <1>4, <2>1 DEF OneByOne, Cleaning
  <2>3. Sorted'
    BY <1>2, <2>1 DEF OneByOne, Sorted
  <2>4. \A u \in Tasks : op'[u].pc \notin {"verify", "commit", "prune"}
    BY <1>5 DEF SavePcs
  <2> QED BY <1>2, <1>5, <2>2, <2>3, <2>4 DEF OneByOne, Saving
<1>11. LatestKept'
  BY <1>2 DEF LatestKept, LoadsFirst
<1> QED BY <1>2, <1>6, <1>7, <1>8, <1>9, <1>10, <1>11

LEMMA BootedKeeps ==
    ASSUME StorageInv, ~booted, op["trainer"].pc \in {"loaded", "failed"}, Return("trainer"),
           UNCHANGED <<faulty, files, latest, history, loaded, acked, dropped, calm>>,
           booted' = TRUE, trained' = loaded
    PROVE  StorageInv'
<1> USE DEF StorageInv
<1> DEFINE t == "trainer"
<1>1. t \in Tasks /\ 0 \in 0 .. MaxAttempts - 1
  BY ElasticAssumption, CheckpointsAssumption
<1>2. /\ op' \in [Tasks -> OpType]
      /\ op'[t].pc = "idle"
      /\ \A u \in Tasks : u # t => op'[u] = op[u]
  BY <1>1 DEF Return, Idle, StorageTypeOK, OpPcs, OpType
<1>3. \A u \in Tasks : ~Saving(u) /\ (op[u].pc = "load" => u = t) /\ latest = NoStep
  BY DEF LoadsFirst
<1>4. \A u \in Tasks : op'[u].pc \notin SavePcs \union {"load"}
  BY <1>2, <1>3 DEF Saving, SavePcs
<1>5. StorageTypeOK' /\ trained' \in Steps \union {NoStep}
  BY <1>2, <1>4 DEF StorageTypeOK, OpPcs, OpType
<1>6. LoadsFirst'
  BY <1>4 DEF LoadsFirst
<1>7. AckedHasFile'
  <2>1. \A u \in Tasks : op'[u].pc # "load"
    BY <1>4
  <2> QED BY <2>1 DEF AckedHasFile
<1>8. SavesArePast'
  <2>1. latest' =< trained'
    BY <1>1, <1>3, <1>5, CheckpointsAssumption DEF Steps, NoStep
  <2> QED BY <1>1, <1>4, <2>1 DEF SavesArePast, Saving
<1>9. OneByOne'
  <2>1. SUFFICES ASSUME calm PROVE OneByOne'
    BY DEF OneByOne
  <2>2. \A u \in Tasks : op'[u].pc \notin Cleaning
    BY <1>2, <2>1 DEF OneByOne, Cleaning
  <2>3. Sorted'
    BY <2>1 DEF OneByOne, Sorted
  <2>4. \A u \in Tasks : op'[u].pc \notin {"verify", "commit", "prune"}
    BY <1>4 DEF SavePcs
  <2> QED BY <1>4, <2>2, <2>3, <2>4 DEF OneByOne, Saving
<1>10. LatestKept'
  BY <1>1, <1>3 DEF LatestKept
<1> QED BY <1>5, <1>6, <1>7, <1>8, <1>9, <1>10

LEMMA RestartKeeps ==
    ASSUME StorageInv, StorageRestart, booted' = FALSE, trained' = NoStep
    PROVE  StorageInv'
<1> USE DEF StorageInv
<1>1. /\ latest' = NoStep /\ history' = <<>> /\ loaded' = NoStep
      /\ op' = [t \in Tasks |-> Idle]
      /\ calm' \in BOOLEAN /\ (calm' => calm)
      /\ UNCHANGED <<faulty, files, acked, dropped>>
  BY DEF StorageRestart
<1>2. \A t \in Tasks : op'[t] = [pc |-> "idle", path |-> <<>>, attempt |-> 0, left |-> {}]
  BY <1>1 DEF Idle
<1>3. op' \in [Tasks -> OpType]
  BY <1>1, CheckpointsAssumption DEF Idle, OpPcs, OpType
<1>4. \A t \in Tasks : op'[t].pc \notin SavePcs \union {"load"} \union Cleaning
  BY <1>2 DEF SavePcs, Cleaning
<1>5. StorageTypeOK' /\ trained' \in Steps \union {NoStep}
  BY <1>1, <1>3, <1>4, CheckpointsAssumption DEF StorageTypeOK, OpPcs, OpType
<1>6. LoadsFirst' /\ SavesArePast'
  BY <1>1, <1>4, ElasticAssumption DEF LoadsFirst, SavesArePast, Saving
<1>7. AckedHasFile'
  <2>1. \A t \in Tasks : op'[t].pc # "load"
    BY <1>4
  <2> QED BY <1>1, <2>1 DEF AckedHasFile
<1>8. OneByOne'
  <2>1. \A t \in Tasks : op'[t].pc \notin {"verify", "commit", "prune"}
    BY <1>4 DEF SavePcs
  <2> QED BY <1>1, <1>4, <2>1 DEF OneByOne, Sorted, Saving
<1> QED BY <1>1, <1>5, <1>6, <1>7, <1>8 DEF LatestKept

LEMMA StutterKeeps ==
    ASSUME StorageInv, UNCHANGED storageVars, UNCHANGED trainerVars
    PROVE  StorageInv'
BY DEF StorageInv, storageVars, trainerVars, StorageTypeOK, LoadsFirst, AckedHasFile,
       SavesArePast, OneByOne, Sorted, LatestKept, Saving

LEMMA StorageStepKeeps ==
    ASSUME StorageInv, NEW t \in Tasks, StorageStep(t), UNCHANGED trainerVars
    PROVE  StorageInv'
<1>1. CASE Refused(t)        BY <1>1, RefusedKeeps
<1>2. CASE WriteBegin(t)     BY <1>2, WriteBeginKeeps
<1>3. CASE WriteEnd(t)       BY <1>3, WriteEndKeeps
<1>4. CASE WriteFails(t)     BY <1>4, RetryKeeps DEF WriteFails
<1>5. CASE Read(t)           BY <1>5, ReadKeeps
<1>6. CASE ReadFails(t)      BY <1>6, RetryKeeps DEF ReadFails
<1>7. CASE Commit(t)         BY <1>7, CommitKeeps
<1>8. CASE Prune(t)          BY <1>8, PruneKeeps
<1>9. CASE CleanFile(t)      BY <1>9, CleanFileKeeps
<1>10. CASE CleanHistory(t)  BY <1>10, CleanHistoryKeeps
<1>11. CASE CleanLatest(t)   BY <1>11, CleanLatestKeeps
<1> QED
  BY <1>1, <1>2, <1>3, <1>4, <1>5, <1>6, <1>7, <1>8, <1>9, <1>10, <1>11 DEF StorageStep

LEMMA StorageNext ==
    ASSUME StorageInv, limits \in Limits, [Next]_vars
    PROVE  StorageInv'
<1>1. ASSUME NEW t \in Callers, InitiateStep(t)
      PROVE  StorageInv'
  <2>1. t \in Tasks /\ t # "trainer"
    BY ElasticAssumption DEF Callers
  <2>2. CASE SaveFirst(t)
    <3>1. latest \in Steps /\ booted /\ BeginSave(t, latest, 0) /\ UNCHANGED trainerVars
      BY <2>2 DEF SaveFirst, StorageInv, StorageTypeOK, LoadsFirst
    <3> QED BY <2>1, <3>1, BeginSaveKeeps DEF trainerVars
  <2>3. CASE SavedFirst(t)
    BY <2>1, <2>3, ReturnKeeps DEF SavedFirst
  <2>4. CASE NothingToSave(t) \/ Announce(t) \/ AnnouncePanics(t)
    BY <2>4, StutterKeeps DEF NothingToSave, Announce, AnnouncePanics, Own
  <2> QED BY <1>1, <2>2, <2>3, <2>4 DEF InitiateStep
<1>2. CASE TrainerStep
  <2>1. "trainer" \in Tasks
    BY ElasticAssumption
  <2>2. CASE Boot
    BY <2>2, BeginLoadKeeps DEF Boot, elasticVars, trainerVars
  <2>3. CASE Booted
    BY <2>3, BootedKeeps DEF Booted
  <2>4. CASE Train
    <3>1. limits.steps \in 0 .. MaxStep
      BY ElasticAssumption DEF Limit
    <3>2. trained + 1 \in Steps
      BY <2>4, <3>1, CheckpointsAssumption DEF Train, StorageInv, Steps, NoStep
    <3> QED BY <2>1, <2>4, <3>2, BeginSaveKeeps DEF Train
  <2>5. CASE Trained
    BY <2>1, <2>5, ReturnKeeps DEF Trained, elasticVars, trainerVars
  <2> QED BY <1>2, <2>2, <2>3, <2>4, <2>5 DEF TrainerStep
<1>3. CASE MonitorStep
  <2>1. CASE InitiateStep("monitor")
    BY <1>1, <2>1 DEF Callers
  <2>2. CASE ~InitiateStep("monitor")
    BY <1>3, <2>2, StutterKeeps
    DEF MonitorStep, Look, DetectFailed, ReadRegistry, ExtendKnown, Elapsed, ReadExpected,
        ToSynchronizing, ReadTarget, SetWorld, SetStable, Own
  <2> QED BY <2>1, <2>2
<1>4. CASE AdminStep
  <2>1. CASE InitiateStep("admin")
    BY <1>1, <2>1 DEF Callers
  <2>2. CASE CleanedUp
    BY <2>2, ReturnKeeps, ElasticAssumption DEF CleanedUp
  <2> QED BY <1>4, <2>1, <2>2 DEF AdminStep
<1>5. CASE Request
  BY <1>5, StutterKeeps DEF Request
<1>6. CASE RequestCleanUp
  BY <1>6, BeginCleanUpKeeps, ElasticAssumption DEF RequestCleanUp
<1>7. CASE \E t \in Tasks : TaskStep(t)
  BY <1>7, StorageStepKeeps DEF TaskStep, elasticVars, trainerVars
<1>8. CASE \E w \in limits.workers : Heartbeat(w) \/ FallSilent(w)
  BY <1>8, StutterKeeps DEF Heartbeat, FallSilent
<1>9. CASE Cooling \/ TimePasses
  BY <1>9, StutterKeeps DEF Cooling, TimePasses, Own, elasticVars, trainerVars
<1>10. CASE Crash
  BY <1>10, RestartKeeps DEF Crash
<1>11. CASE UNCHANGED vars
  BY <1>11, StutterKeeps DEF vars, storageVars, trainerVars
<1> QED
  BY <1>2, <1>3, <1>4, <1>5, <1>6, <1>7, <1>8, <1>9, <1>10, <1>11 DEF Next

LEMMA InitKeepsStorage == Init => StorageInv
<1> SUFFICES ASSUME Init PROVE StorageInv
  OBVIOUS
<1>1. /\ files = [p \in Path |-> "none"] /\ latest = NoStep /\ history = <<>>
      /\ op = [t \in Tasks |-> Idle] /\ loaded = NoStep /\ acked = NoStep
      /\ ~dropped /\ dropped \in BOOLEAN /\ calm \in BOOLEAN
      /\ ~booted /\ trained = NoStep
  BY DEF Init, StorageInit
<1>2. \A t \in Tasks : op[t] = [pc |-> "idle", path |-> <<>>, attempt |-> 0, left |-> {}]
  BY <1>1 DEF Idle
<1>3. op \in [Tasks -> OpType]
  BY <1>1, CheckpointsAssumption DEF Idle, OpPcs, OpType
<1>4. \A t \in Tasks : op[t].pc \notin SavePcs \union {"load"} \union Cleaning
  BY <1>2 DEF SavePcs, Cleaning
<1>5. faulty \in BOOLEAN
  BY ElasticAssumption DEF Init, Limit
<1>6. StorageTypeOK
  BY <1>1, <1>3, <1>4, <1>5, CheckpointsAssumption DEF StorageTypeOK, OpPcs, OpType
<1>7. LoadsFirst /\ SavesArePast
  BY <1>1, <1>4, ElasticAssumption DEF LoadsFirst, SavesArePast, Saving
<1>8. AckedHasFile
  <2>1. \A t \in Tasks : op[t].pc # "load"
    BY <1>4
  <2> QED BY <1>1, <2>1 DEF AckedHasFile
<1>9. OneByOne
  <2>1. \A t \in Tasks : op[t].pc \notin {"verify", "commit", "prune"}
    BY <1>4 DEF SavePcs
  <2> QED BY <1>1, <1>4, <2>1 DEF OneByOne, Sorted, Saving
<1> QED BY <1>1, <1>6, <1>7, <1>8, <1>9 DEF StorageInv, LatestKept

\* Only a load that read a whole file changes what was loaded.
LEMMA LoadsTheNewest ==
    ASSUME StorageInv, [Next]_vars, loaded' \notin {NoStep, loaded}
    PROVE  loaded' >= acked \/ dropped
<1>1. ASSUME NEW t \in Tasks, StorageStep(t)
      PROVE  op[t].pc = "load" /\ loaded' = op[t].path[1]
  BY <1>1 DEF StorageStep, Refused, WriteBegin, WriteEnd, WriteFails, Read, ReadFails, Commit,
              Prune, CleanFile, CleanHistory, CleanLatest
<1>2. \E t \in Tasks : StorageStep(t)
  <2>1. ASSUME NEW t, InitiateStep(t) PROVE FALSE
    BY <2>1 DEF InitiateStep, SaveFirst, BeginSave, NothingToSave, SavedFirst, Announce,
                AnnouncePanics, Own, storageVars
  <2>2. CASE TrainerStep
    BY <2>2 DEF TrainerStep, Boot, BeginLoad, Booted, Train, BeginSave, Trained
  <2>3. CASE MonitorStep
    BY <2>1, <2>3 DEF MonitorStep, Look, DetectFailed, ReadRegistry, ExtendKnown, Elapsed,
        ReadExpected, ToSynchronizing, ReadTarget, SetWorld, SetStable, Own, storageVars
  <2>4. CASE AdminStep
    BY <2>1, <2>4 DEF AdminStep, CleanedUp
  <2>5. CASE Request \/ RequestCleanUp \/ Cooling \/ TimePasses \/ Crash
    BY <2>5 DEF Request, RequestCleanUp, BeginCleanUp, Cooling, TimePasses, Crash,
                StorageRestart, Own, storageVars
  <2>6. CASE \E w \in limits.workers : Heartbeat(w) \/ FallSilent(w)
    BY <2>6 DEF Heartbeat, FallSilent, storageVars
  <2>7. CASE UNCHANGED vars
    BY <2>7 DEF vars
  <2> QED BY <2>2, <2>3, <2>4, <2>5, <2>6, <2>7 DEF Next, TaskStep
<1> QED BY <1>1, <1>2 DEF StorageInv, AckedHasFile
-----------------------------------------------------------------------------
(* The scaling, one lemma for every step.                                   *)

CallerType ==
    [pc : {"rest", "detect", "new", "extend", "initiate", "saving", "announce", "elapsed",
           "expected", "to_sync", "target", "set_world", "set_stable", "cleaning", "dead"},
     event : Events \union {"none"}, arg : Nat, ids : SUBSET Workers]

ScalingTypeOK ==
    /\ \/ scaling = Stable
       \/ scaling \in [kind : {"scaling", "synchronizing"}, workers : Sizes]
    /\ due \in BOOLEAN /\ world \in Sizes \union {limits.world}
    /\ registry \subseteq Workers /\ stale \subseteq registry /\ known \subseteq registry
    /\ events \in Seq(Events)
    /\ does \in [Callers -> CallerType]
    /\ booted \in BOOLEAN /\ refused \in BOOLEAN
    /\ requests \in 0 .. limits.requests /\ crashes \in 0 .. limits.crashes

ScalingInv == limits \in Limits /\ ScalingTypeOK /\ Carried /\ NotStableYet

LEMMA Parts == IInv <=> BreakerInv /\ StorageInv /\ ScalingInv /\ JoinsOnTheirWay
BY DEF IInv, TypeOK, BreakerInv, StorageInv, ScalingInv, ScalingTypeOK, CallerType

LEMMA ClampBounds ==
    ASSUME NEW n \in Int
    PROVE  Clamp(n) \in Sizes
BY ElasticAssumption DEF Clamp, Within, Sizes

LEMMA SizesAreNumbers ==
    ASSUME limits \in Limits
    PROVE  limits.world \in Nat /\ MinWorkers \in Nat /\ MaxWorkers \in Nat /\ Sizes \subseteq Nat
BY ElasticAssumption DEF Limit, Sizes

LEMMA WorkersFinite ==
    ASSUME NEW S, S \subseteq Workers
    PROVE  IsFiniteSet(S) /\ Cardinality(S) \in Nat
BY FS_Subset, FS_CardinalityType, ElasticAssumption

\* A caller goes on, and the scaling state is as it was.
Carries(t, r) ==
    /\ r \in CallerType
    /\ r.pc \in {"to_sync", "set_world"} => r.arg \in Sizes
    /\ r.pc = "extend" => r.ids \subseteq registry
    /\ r.pc \in {"initiate", "saving", "announce"} => r.event \in Events
    /\ t = "admin" => r.event # "join"
    /\ t = "monitor" /\ r.pc = "set_world" => scaling # Stable

LEMMA CallerMoves ==
    ASSUME ScalingInv, NEW t \in Callers, NEW r, Carries(t, r), does' = [does EXCEPT ![t] = r]
    PROVE  /\ does' \in [Callers -> CallerType]
           /\ does'[t] = r /\ \A u \in Callers : u # t => does'[u] = does[u]
           /\ UNCHANGED <<limits, scaling, registry>> => Carried' /\ NotStableYet'
<1>1. /\ does' \in [Callers -> CallerType]
      /\ does'[t] = r /\ \A u \in Callers : u # t => does'[u] = does[u]
  BY DEF Carries, ScalingInv, ScalingTypeOK
<1>2. ASSUME UNCHANGED <<limits, scaling, registry>> PROVE Carried' /\ NotStableYet'
  <2>1. ASSUME NEW u \in Callers
        PROVE  /\ does'[u].pc \in {"to_sync", "set_world"} =>
                      does'[u].arg \in Sizes
               /\ does'[u].pc = "extend" => does'[u].ids \subseteq registry
               /\ does'[u].pc \in {"initiate", "saving", "announce"} => does'[u].event \in Events
               /\ u = "admin" => does'[u].event # "join"
               /\ u = "monitor" /\ does'[u].pc = "set_world" => scaling # Stable
    <3>1. CASE u = t
      BY <1>1, <3>1 DEF Carries
    <3>2. CASE u # t
      BY <1>1, <3>2 DEF ScalingInv, Carried, NotStableYet
    <3> QED BY <3>1, <3>2
  <2> QED BY <1>2, <2>1 DEF Carried, NotStableYet, Callers
<1> QED BY <1>1, <1>2

\* What a caller goes on with is a record of what it did.
LEMMA CallerRecords ==
    ASSUME ScalingTypeOK, NEW t \in Callers, NEW pc, To(t, pc)
    PROVE  does' = [does EXCEPT ![t] = Doing(pc, does[t].event, does[t].arg, does[t].ids)]
<1>1. does' = [does EXCEPT ![t] = [does[t] EXCEPT !.pc = pc]]
  BY DEF To, ScalingTypeOK
<1>2. [does[t] EXCEPT !.pc = pc] = Doing(pc, does[t].event, does[t].arg, does[t].ids)
  BY DEF ScalingTypeOK, CallerType, Doing
<1> QED BY <1>1, <1>2

\* What a step of a caller that changes nothing else leaves alone.
Besides ==
    /\ UNCHANGED <<limits, scaling, due, world, registry, stale, known, events, booted, crashes>>
    /\ refused' \in BOOLEAN /\ requests' \in 0 .. limits.requests

LEMMA CallerKeeps ==
    ASSUME ScalingInv, NEW t \in Callers, NEW r, Carries(t, r), does' = [does EXCEPT ![t] = r],
           Besides
    PROVE  ScalingInv'
<1>1. does' \in [Callers -> CallerType] /\ Carried' /\ NotStableYet'
  BY CallerMoves DEF Besides
<1>2. ScalingTypeOK'
  BY <1>1 DEF ScalingInv, ScalingTypeOK, Besides
<1> QED BY <1>1, <1>2 DEF ScalingInv, Besides

LEMMA ToKeeps ==
    ASSUME ScalingInv, NEW t \in Callers,
           NEW pc \in {"detect", "new", "saving", "announce", "elapsed", "expected", "target",
                       "set_stable", "cleaning", "dead"},
           To(t, pc), pc \in {"saving", "announce"} => does[t].event \in Events,
           Besides
    PROVE  ScalingInv'
<1> DEFINE r == Doing(pc, does[t].event, does[t].arg, does[t].ids)
<1>1. does' = [does EXCEPT ![t] = r]
  BY CallerRecords DEF ScalingInv
<1>2. does[t] \in CallerType /\ (t = "admin" => does[t].event # "join")
  BY DEF ScalingInv, ScalingTypeOK, Carried
<1>3. /\ r.pc = pc /\ r.event = does[t].event /\ r \in CallerType
  BY <1>2 DEF Doing, CallerType
<1>4. Carries(t, r)
  BY <1>2, <1>3 DEF Carries
<1> HIDE DEF r
<1> QED BY <1>1, <1>4, CallerKeeps

LEMMA AtRestCarries ==
    ASSUME NEW t \in Callers
    PROVE  Carries(t, AtRest)
BY DEF Carries, AtRest, Doing, CallerType

LEMMA RestKeeps ==
    ASSUME ScalingInv, NEW t \in Callers, Rest(t), Besides
    PROVE  ScalingInv'
BY AtRestCarries, CallerKeeps DEF Rest

LEMMA InitiateKeeps ==
    ASSUME ScalingInv, NEW t \in Callers, NEW e \in Events, NEW n \in Nat, Initiate(t, e, n),
           t = "admin" => e # "join", Besides
    PROVE  ScalingInv'
<1>1. Carries(t, Doing("initiate", e, n, {}))
  BY DEF Carries, Doing, CallerType
<1> QED BY <1>1, CallerKeeps DEF Initiate

LEMMA LookKeeps ==
    ASSUME ScalingInv, Look
    PROVE  ScalingInv'
<1>1. "monitor" \in Callers /\ Besides
  BY DEF Look, Own, scalingVars, workerVars, trainerVars, boundVars, Besides, Callers,
         ScalingInv, ScalingTypeOK
<1>2. To("monitor", "detect") \/ To("monitor", "elapsed") \/ To("monitor", "target")
  BY DEF Look
<1> QED BY <1>1, <1>2, ToKeeps

LEMMA DetectFailedKeeps ==
    ASSUME ScalingInv, DetectFailed
    PROVE  ScalingInv'
<1>1. "monitor" \in Callers /\ Besides
  BY DEF DetectFailed, Own, scalingVars, workerVars, trainerVars, boundVars, Besides, Callers,
         ScalingInv, ScalingTypeOK
<1>2. Cardinality(stale) \in Nat
  BY WorkersFinite DEF ScalingInv, ScalingTypeOK
<1>3. CASE Initiate("monitor", "failure", Cardinality(stale))
  BY <1>1, <1>2, <1>3, InitiateKeeps DEF Events
<1>4. CASE To("monitor", "new")
  BY <1>1, <1>4, ToKeeps
<1> QED BY <1>3, <1>4 DEF DetectFailed

LEMMA ReadRegistryKeeps ==
    ASSUME ScalingInv, ReadRegistry
    PROVE  ScalingInv'
<1>1. "monitor" \in Callers /\ Besides
  BY DEF ReadRegistry, Own, scalingVars, workerVars, trainerVars, boundVars, Besides, Callers,
         ScalingInv, ScalingTypeOK
<1>2. Carries("monitor", Doing("extend", "none", 0, registry))
  BY DEF Carries, Doing, CallerType, ScalingInv, ScalingTypeOK
<1> QED BY <1>1, <1>2, CallerKeeps DEF ReadRegistry

LEMMA ExtendKnownKeeps ==
    ASSUME ScalingInv, ExtendKnown
    PROVE  ScalingInv'
<1> DEFINE new == does["monitor"].ids \ known
<1>1. /\ "monitor" \in Callers /\ does["monitor"].ids \subseteq registry
      /\ UNCHANGED <<limits, scaling, due, world, registry, stale, events, booted, requests,
                     crashes, refused>>
      /\ known' = known \union does["monitor"].ids
  BY DEF ExtendKnown, Own, scalingVars, trainerVars, boundVars, Callers, ScalingInv, Carried, At
<1>2. \/ Initiate("monitor", "join", Cardinality(new))
      \/ Rest("monitor")
  BY DEF ExtendKnown
<1>3. Cardinality(new) \in Nat
  BY <1>1, WorkersFinite DEF ScalingInv, ScalingTypeOK
<1>4. \E r : Carries("monitor", r) /\ does' = [does EXCEPT !["monitor"] = r]
  <2>1. Carries("monitor", Doing("initiate", "join", Cardinality(new), {}))
    BY <1>3 DEF Carries, Doing, CallerType, Events
  <2> QED BY <1>1, <1>2, <2>1, AtRestCarries DEF Initiate, Rest
<1>5. does' \in [Callers -> CallerType] /\ Carried' /\ NotStableYet'
  BY <1>1, <1>4, CallerMoves
<1>6. ScalingTypeOK'
  BY <1>1, <1>5 DEF ScalingInv, ScalingTypeOK
<1> QED BY <1>1, <1>5, <1>6 DEF ScalingInv

LEMMA InitiateStepKeeps ==
    ASSUME ScalingInv, NEW t \in Callers,
           SaveFirst(t) \/ NothingToSave(t) \/ SavedFirst(t) \/ AnnouncePanics(t)
    PROVE  ScalingInv'
<1>1. does[t].pc \in {"initiate", "saving", "announce"}
  BY DEF SaveFirst, NothingToSave, SavedFirst, AnnouncePanics, At
<1>2. does[t].event \in Events
  BY <1>1 DEF ScalingInv, Carried
<1>3. refused' \in BOOLEAN
  <2>1. refused' = refused \/ refused' = TRUE
    BY DEF SaveFirst, NothingToSave, SavedFirst, AnnouncePanics
  <2> QED BY <2>1 DEF ScalingInv, ScalingTypeOK
<1>4. Besides
  BY <1>3 DEF SaveFirst, NothingToSave, SavedFirst, AnnouncePanics, Own, scalingVars, workerVars,
              trainerVars, boundVars, Besides, ScalingInv, ScalingTypeOK
<1>5. To(t, "saving") \/ To(t, "announce") \/ To(t, "dead") \/ Rest(t)
  BY DEF SaveFirst, NothingToSave, SavedFirst, AnnouncePanics
<1> QED BY <1>2, <1>4, <1>5, ToKeeps, RestKeeps

\* scaling_state is set to a target between the bounds.
LEMMA AnnounceKeeps ==
    ASSUME ScalingInv, NEW t \in Callers, Announce(t)
    PROVE  ScalingInv'
<1>1. /\ does[t] \in CallerType /\ does[t].event \in Events /\ world \in Int
      /\ does[t].arg \in Nat
  <2>1. does[t].pc = "announce"
    BY DEF Announce, At
  <2>2. world \in Nat
    BY SizesAreNumbers DEF ScalingInv, ScalingTypeOK
  <2> QED BY <2>1, <2>2 DEF ScalingInv, ScalingTypeOK, Carried, CallerType
<1>2. Expected(t) \in Int
  <2>1. Word \in Nat /\ Word > 0
    <3>1. MaxWorkers + Cardinality(Workers) < Word /\ Cardinality(Workers) \in Nat
      BY ElasticAssumption, WorkersFinite
    <3> QED BY <3>1, ElasticAssumption
  <2>2. (world - does[t].arg) % Word \in Int
    BY <1>1, <2>1
  <2> QED BY <1>1, <2>2 DEF Expected, Events
<1>3. Clamp(Expected(t)) \in Sizes
  BY <1>2, ClampBounds
<1>4. /\ UNCHANGED <<limits, world, refused, registry, stale, known, booted, requests, crashes>>
      /\ scaling' = [kind |-> "scaling", workers |-> Clamp(Expected(t))]
      /\ due' \in BOOLEAN
      /\ events' = Append(events, does[t].event)
      /\ does' = [does EXCEPT ![t] = AtRest]
  BY DEF Announce, workerVars, Own, trainerVars, boundVars, Rest
<1>5. does' \in [Callers -> CallerType] /\ does'[t] = AtRest
      /\ \A u \in Callers : u # t => does'[u] = does[u]
  BY <1>4, AtRestCarries, CallerMoves
<1>6. AtRest.pc = "rest" /\ AtRest.event = "none"
  BY DEF AtRest, Doing
<1>7. Carried'
  <2>1. ASSUME NEW u \in Callers
        PROVE  /\ does'[u].pc \in {"to_sync", "set_world"} =>
                      does'[u].arg \in Sizes
               /\ does'[u].pc = "extend" => does'[u].ids \subseteq registry'
               /\ does'[u].pc \in {"initiate", "saving", "announce"} => does'[u].event \in Events
               /\ u = "admin" => does'[u].event # "join"
    BY <1>4, <1>5, <1>6 DEF ScalingInv, Carried
  <2> QED BY <2>1 DEF Carried, Callers
<1>8. NotStableYet'
  <2>1. scaling'.kind = "scaling" /\ Stable.kind = "stable"
    BY <1>4 DEF Stable
  <2> QED BY <2>1 DEF NotStableYet
<1>9. ScalingTypeOK'
  <2>1. events' \in Seq(Events)
    BY <1>1, <1>4 DEF ScalingInv, ScalingTypeOK
  <2>2. scaling' \in [kind : {"scaling", "synchronizing"}, workers : Sizes]
    BY <1>3, <1>4
  <2> QED BY <1>4, <1>5, <2>1, <2>2 DEF ScalingInv, ScalingTypeOK
<1> QED BY <1>4, <1>7, <1>8, <1>9 DEF ScalingInv

\* The state that a caller copies has a target within the bounds unless stable.
LEMMA CarryKeeps ==
    ASSUME ScalingInv, NEW pc \in {"to_sync", "set_world"}, Carry(pc, scaling.workers),
           scaling.kind # "stable", Besides
    PROVE  ScalingInv'
<1>1. /\ scaling \in [kind : {"scaling", "synchronizing"}, workers : Sizes]
      /\ scaling # Stable
  BY DEF ScalingInv, ScalingTypeOK, Stable
<1>2. scaling.workers \in Sizes /\ scaling.workers \in Nat
  BY <1>1, SizesAreNumbers DEF ScalingInv
<1>3. Carries("monitor", Doing(pc, "none", scaling.workers, {}))
  BY <1>1, <1>2 DEF Carries, Doing, CallerType
<1> QED BY <1>3, CallerKeeps DEF Carry, Callers

LEMMA CompletionKeeps ==
    ASSUME ScalingInv, Elapsed \/ ReadExpected \/ ReadTarget
    PROVE  ScalingInv'
<1>1. "monitor" \in Callers /\ Besides
  BY DEF Elapsed, ReadExpected, ReadTarget, Own, scalingVars, workerVars, trainerVars, boundVars,
         Besides, Callers, ScalingInv, ScalingTypeOK
<1>2. \/ To("monitor", "expected") \/ Rest("monitor")
      \/ Carry("to_sync", scaling.workers) /\ scaling.kind # "stable"
      \/ Carry("set_world", scaling.workers) /\ scaling.kind # "stable"
  BY DEF Elapsed, ReadExpected, ReadTarget
<1> QED BY <1>1, <1>2, ToKeeps, RestKeeps, CarryKeeps

LEMMA ToSynchronizingKeeps ==
    ASSUME ScalingInv, ToSynchronizing
    PROVE  ScalingInv'
<1>1. /\ "monitor" \in Callers /\ does["monitor"].arg \in Sizes
      /\ UNCHANGED <<limits, due, world, events, refused, registry, stale, known, booted, requests,
                     crashes>>
      /\ scaling' = [kind |-> "synchronizing", workers |-> does["monitor"].arg]
      /\ does' = [does EXCEPT !["monitor"] = AtRest]
  BY DEF ToSynchronizing, At, workerVars, Own, trainerVars, boundVars, Rest, Callers, ScalingInv,
         Carried
<1>2. does' \in [Callers -> CallerType] /\ does'["monitor"] = AtRest
      /\ \A u \in Callers : u # "monitor" => does'[u] = does[u]
  BY <1>1, AtRestCarries, CallerMoves
<1>3. AtRest.pc = "rest"
  BY DEF AtRest, Doing
<1>4. Carried' /\ NotStableYet'
  BY <1>1, <1>2, <1>3 DEF ScalingInv, Carried, NotStableYet, Callers
<1>5. scaling' \in [kind : {"scaling", "synchronizing"}, workers : Sizes]
  BY <1>1
<1>6. ScalingTypeOK'
  BY <1>1, <1>2, <1>5 DEF ScalingInv, ScalingTypeOK
<1> QED BY <1>1, <1>4, <1>6 DEF ScalingInv

LEMMA SetWorldKeeps ==
    ASSUME ScalingInv, SetWorld
    PROVE  ScalingInv'
<1> DEFINE m == "monitor"
           r == Doing("set_stable", does[m].event, does[m].arg, does[m].ids)
<1>1. /\ m \in Callers /\ does[m].arg \in Sizes
      /\ UNCHANGED <<limits, scaling, due, events, refused, registry, stale, known, booted,
                     requests, crashes>>
      /\ world' = does[m].arg /\ To(m, "set_stable")
  BY DEF SetWorld, At, workerVars, Own, trainerVars, boundVars, Callers, ScalingInv, Carried
<1>2. does' = [does EXCEPT ![m] = r]
  BY <1>1, CallerRecords DEF ScalingInv
<1>3. does[m] \in CallerType
  BY <1>1 DEF ScalingInv, ScalingTypeOK
<1>4. Carries(m, r)
  BY <1>3 DEF Carries, Doing, CallerType
<1> HIDE DEF r
<1>5. does' \in [Callers -> CallerType] /\ Carried' /\ NotStableYet'
  BY <1>1, <1>2, <1>4, CallerMoves
<1>6. ScalingTypeOK'
  BY <1>1, <1>5 DEF ScalingInv, ScalingTypeOK
<1> QED BY <1>1, <1>5, <1>6 DEF ScalingInv

LEMMA SetStableKeeps ==
    ASSUME ScalingInv, SetStable
    PROVE  ScalingInv'
<1>1. /\ "monitor" \in Callers
      /\ UNCHANGED <<limits, due, world, events, refused, registry, stale, known, booted, requests,
                     crashes>>
      /\ scaling' = Stable
      /\ does' = [does EXCEPT !["monitor"] = AtRest]
  BY DEF SetStable, workerVars, Own, trainerVars, boundVars, Rest, Callers
<1>2. does' \in [Callers -> CallerType] /\ does'["monitor"] = AtRest
      /\ \A u \in Callers : u # "monitor" => does'[u] = does[u]
  BY <1>1, AtRestCarries, CallerMoves
<1>3. AtRest.pc = "rest"
  BY DEF AtRest, Doing
<1>4. Carried' /\ NotStableYet'
  BY <1>1, <1>2, <1>3 DEF ScalingInv, Carried, NotStableYet, Callers
<1>5. ScalingTypeOK'
  BY <1>1, <1>2 DEF ScalingInv, ScalingTypeOK
<1> QED BY <1>1, <1>4, <1>5 DEF ScalingInv

LEMMA AdminKeeps ==
    ASSUME ScalingInv, Request \/ RequestCleanUp \/ CleanedUp
    PROVE  ScalingInv'
<1>1. limits.requests \in Nat /\ requests \in 0 .. limits.requests
  BY ElasticAssumption DEF ScalingInv, ScalingTypeOK, Limit
<1>2. "admin" \in Callers /\ Besides
  BY <1>1 DEF Request, RequestCleanUp, CleanedUp, scalingVars, workerVars, trainerVars, boundVars,
              Besides, Callers, ScalingInv, ScalingTypeOK
<1>3. \/ To("admin", "cleaning") \/ Rest("admin")
      \/ \E n \in Nat : Initiate("admin", "manual", n)
  BY ElasticAssumption DEF Request, RequestCleanUp, CleanedUp
<1> QED BY <1>2, <1>3, ToKeeps, RestKeeps, InitiateKeeps DEF Events

LEMMA CrashKeeps ==
    ASSUME ScalingInv, Crash
    PROVE  ScalingInv'
<1>1. /\ scaling' = Stable /\ due' \in BOOLEAN /\ world' = limits.world
      /\ registry' = {} /\ stale' = {} /\ known' = {} /\ events' = <<>>
      /\ does' = [t \in Callers |-> AtRest]
      /\ booted' \in BOOLEAN /\ refused' \in BOOLEAN
      /\ limits' = limits /\ requests' = requests
      /\ crashes < limits.crashes /\ crashes' = crashes + 1
  BY DEF Crash
<1>2. crashes' \in 0 .. limits.crashes
  BY <1>1, ElasticAssumption DEF ScalingInv, ScalingTypeOK, Limit
<1>3. AtRest \in CallerType /\ AtRest.pc = "rest" /\ AtRest.event = "none"
  BY DEF AtRest, Doing, CallerType
<1>4. ScalingTypeOK'
  BY <1>1, <1>2, <1>3, ElasticAssumption DEF ScalingInv, ScalingTypeOK
<1>5. Carried' /\ NotStableYet'
  BY <1>1, <1>3 DEF Carried, NotStableYet, Callers
<1> QED BY <1>1, <1>4, <1>5 DEF ScalingInv

\* Heartbeats, time, and what the trainer does.
LEMMA OthersKeep ==
    ASSUME ScalingInv, UNCHANGED <<limits, scaling, world, known, events, does, refused, requests,
                                   crashes>>,
           registry \subseteq registry', registry' \subseteq Workers, stale' \subseteq registry',
           due' \in BOOLEAN, booted' \in BOOLEAN
    PROVE  ScalingInv'
<1>1. ScalingTypeOK'
  BY DEF ScalingInv, ScalingTypeOK
<1>2. Carried' /\ NotStableYet'
  BY DEF ScalingInv, Carried, NotStableYet
<1> QED BY <1>1, <1>2 DEF ScalingInv

LEMMA ScalingNext ==
    ASSUME ScalingInv, [Next]_vars
    PROVE  ScalingInv'
<1>1. ASSUME NEW t \in Callers, InitiateStep(t) PROVE ScalingInv'
  BY <1>1, InitiateStepKeeps, AnnounceKeeps DEF InitiateStep
<1>2. "monitor" \in Callers /\ "admin" \in Callers
  BY DEF Callers
<1>3. CASE MonitorStep
  BY <1>1, <1>2, <1>3, LookKeeps, DetectFailedKeeps, ReadRegistryKeeps, ExtendKnownKeeps,
     CompletionKeeps, ToSynchronizingKeeps, SetWorldKeeps, SetStableKeeps DEF MonitorStep
<1>4. CASE AdminStep \/ Request \/ RequestCleanUp
  BY <1>1, <1>2, <1>4, AdminKeeps DEF AdminStep
<1>5. CASE Crash
  BY <1>5, CrashKeeps
<1>6. CASE TrainerStep
  <2>1. booted' = TRUE \/ booted' = booted
    BY <1>6 DEF TrainerStep, Boot, Booted, Train, Trained, elasticVars
  <2>2. UNCHANGED <<limits, scaling, due, world, registry, stale, known, events, does, refused,
                    requests, crashes>>
    BY <1>6 DEF TrainerStep, Boot, Booted, Train, Trained, elasticVars, scalingVars, workerVars,
                boundVars
  <2>3. due' \in BOOLEAN /\ booted' \in BOOLEAN
    BY <2>1, <2>2 DEF ScalingInv, ScalingTypeOK
  <2>4. registry \subseteq Workers /\ stale \subseteq registry
    BY DEF ScalingInv, ScalingTypeOK
  <2> QED BY <2>2, <2>3, <2>4, OthersKeep
<1>7. CASE TimePasses
  <2>1. due' = TRUE /\ UNCHANGED <<limits, scaling, world, registry, stale, known, events, does,
                                   refused, booted, requests, crashes>>
    BY <1>7 DEF TimePasses, workerVars, Own, trainerVars, boundVars
  <2>2. /\ due' \in BOOLEAN /\ booted' \in BOOLEAN
        /\ registry \subseteq Workers /\ stale \subseteq registry
    BY <2>1 DEF ScalingInv, ScalingTypeOK
  <2> QED BY <2>1, <2>2, OthersKeep
<1>8. CASE \E w \in limits.workers : Heartbeat(w) \/ FallSilent(w)
  <2>1. PICK w \in limits.workers : Heartbeat(w) \/ FallSilent(w)
    BY <1>8
  <2>2. w \in Workers
    BY ElasticAssumption DEF ScalingInv, Limit
  <2>3. UNCHANGED <<limits, scaling, due, world, known, events, does, refused, booted, requests,
                    crashes>>
    BY <2>1 DEF Heartbeat, FallSilent, scalingVars, trainerVars, boundVars
  <2>4. due' \in BOOLEAN /\ booted' \in BOOLEAN
    BY <2>3 DEF ScalingInv, ScalingTypeOK
  <2>5. /\ registry \subseteq registry' /\ registry' \subseteq Workers
        /\ stale' \subseteq registry'
    BY <2>1, <2>2 DEF Heartbeat, FallSilent, ScalingInv, ScalingTypeOK
  <2> QED BY <2>3, <2>4, <2>5, OthersKeep
<1>9. CASE Cooling \/ (\E t \in Tasks : TaskStep(t)) \/ UNCHANGED vars
  <2>1. UNCHANGED <<limits, scaling, due, world, registry, stale, known, events, does, refused,
                    booted, requests, crashes>>
    BY <1>9 DEF Cooling, TaskStep, elasticVars, vars
  <2>2. /\ due' \in BOOLEAN /\ booted' \in BOOLEAN
        /\ registry \subseteq Workers /\ stale \subseteq registry
    BY <2>1 DEF ScalingInv, ScalingTypeOK
  <2> QED BY <2>1, <2>2, OthersKeep
<1> QED BY <1>3, <1>4, <1>5, <1>6, <1>7, <1>8, <1>9 DEF Next

LEMMA InitKeepsScaling == Init => ScalingInv
<1> SUFFICES ASSUME Init PROVE ScalingInv
  OBVIOUS
<1>1. /\ limits \in Limits
      /\ scaling = Stable /\ due \in BOOLEAN /\ world = limits.world
      /\ registry = {} /\ stale = {} /\ known = {} /\ events = <<>>
      /\ does = [t \in Callers |-> AtRest]
      /\ booted \in BOOLEAN /\ refused \in BOOLEAN /\ requests = 0 /\ crashes = 0
  BY DEF Init
<1>2. limits.requests \in Nat /\ limits.crashes \in Nat
  BY <1>1, ElasticAssumption DEF Limit
<1>3. AtRest \in CallerType /\ AtRest.pc = "rest" /\ AtRest.event = "none"
  BY DEF AtRest, Doing, CallerType
<1>4. ScalingTypeOK
  BY <1>1, <1>2, <1>3, ElasticAssumption DEF ScalingTypeOK
<1>5. Carried /\ NotStableYet
  BY <1>1, <1>3 DEF Carried, NotStableYet, Callers
<1> QED BY <1>1, <1>4, <1>5 DEF ScalingInv
-----------------------------------------------------------------------------
(* The workers that join.                                                   *)

OnlyJoins ==
    /\ limits.world \in MinWorkers .. MaxWorkers
    /\ \A i \in 1 .. Len(events) : events[i] = "join"
    /\ ~refused

\* What JoinsOnTheirWay says of the present.
OnTheirWay ==
    /\ does["monitor"].pc \in {"detect", "new", "extend", "initiate", "saving", "announce"} =>
          scaling = Stable
    /\ Joining => /\ does["monitor"].arg =< Cardinality(known)
                  /\ world = Capped(Everyone - does["monitor"].arg)
    /\ ~Joining => IF scaling = Stable THEN world = Capped(Everyone)
                   ELSE scaling.workers = Capped(Everyone)
    /\ does["monitor"].pc \in {"to_sync", "set_world"} =>
          scaling # Stable /\ does["monitor"].arg = Capped(Everyone)
    /\ does["monitor"].pc = "set_stable" => scaling # Stable /\ world = Capped(Everyone)

LEMMA JoinsOnTheirWayIs == JoinsOnTheirWay <=> (OnlyJoins => OnTheirWay)
BY DEF JoinsOnTheirWay, OnlyJoins, OnTheirWay

\* Events are only added and an error is not forgotten, but by a restart.
LEMMA JoinsSoFar ==
    ASSUME ScalingInv, [Next]_vars, ~Crash, OnlyJoins'
    PROVE  OnlyJoins
<1>1. \/ UNCHANGED events
      \/ \E t \in Callers : events' = Append(events, does[t].event) /\ does[t].event \in Events
  <2>1. ASSUME NEW t \in Callers, InitiateStep(t)
        PROVE  \/ UNCHANGED events
               \/ events' = Append(events, does[t].event) /\ does[t].event \in Events
    <3>1. CASE Announce(t)
      BY <3>1 DEF Announce, At, ScalingInv, Carried
    <3>2. CASE ~Announce(t)
      BY <2>1, <3>2 DEF InitiateStep, SaveFirst, NothingToSave, SavedFirst, AnnouncePanics,
                        scalingVars
    <3> QED BY <3>1, <3>2
  <2>2. CASE TrainerStep \/ Request \/ RequestCleanUp \/ CleanedUp \/ TimePasses \/ Cooling
             \/ UNCHANGED vars
    BY <2>2 DEF TrainerStep, Boot, Booted, Train, Trained, Request, RequestCleanUp, CleanedUp,
                TimePasses, Cooling, elasticVars, scalingVars, vars
  <2>3. CASE MonitorStep
    <3>1. CASE InitiateStep("monitor")
      BY <2>1, <3>1 DEF Callers
    <3>2. CASE ~InitiateStep("monitor")
      BY <2>3, <3>2 DEF MonitorStep, Look, DetectFailed, ReadRegistry, ExtendKnown, Elapsed,
         ReadExpected, ToSynchronizing, ReadTarget, SetWorld, SetStable, scalingVars
    <3> QED BY <3>1, <3>2
  <2>4. CASE AdminStep
    BY <2>1, <2>2, <2>4 DEF AdminStep, Callers
  <2>5. CASE \E t \in Tasks : TaskStep(t)
    BY <2>5 DEF TaskStep, elasticVars
  <2>6. CASE \E w \in limits.workers : Heartbeat(w) \/ FallSilent(w)
    BY <2>6 DEF Heartbeat, FallSilent, scalingVars
  <2> QED BY <2>2, <2>3, <2>4, <2>5, <2>6 DEF Next
<1>2. refused' \/ refused' = refused
  <2>1. ASSUME NEW t, InitiateStep(t) PROVE refused' \/ refused' = refused
    BY <2>1 DEF InitiateStep, SaveFirst, NothingToSave, SavedFirst, Announce, AnnouncePanics
  <2>2. CASE MonitorStep
    BY <2>1, <2>2 DEF MonitorStep, Look, DetectFailed, ReadRegistry, ExtendKnown, Elapsed,
       ReadExpected, ToSynchronizing, ReadTarget, SetWorld, SetStable
  <2>3. CASE TrainerStep \/ Request \/ RequestCleanUp \/ TimePasses \/ Cooling \/ UNCHANGED vars
    BY <2>3 DEF TrainerStep, Boot, Booted, Train, Trained, Request, RequestCleanUp,
                TimePasses, Cooling, elasticVars, vars
  <2>4. CASE AdminStep
    BY <2>1, <2>4 DEF AdminStep, CleanedUp
  <2>5. CASE \E t \in Tasks : TaskStep(t)
    BY <2>5 DEF TaskStep, elasticVars
  <2>6. CASE \E w \in limits.workers : Heartbeat(w) \/ FallSilent(w)
    BY <2>6 DEF Heartbeat, FallSilent
  <2> QED BY <2>2, <2>3, <2>4, <2>5, <2>6 DEF Next
<1>3. events \in Seq(Events)
  BY DEF ScalingInv, ScalingTypeOK
<1>4. \A i \in 1 .. Len(events) : events[i] = "join"
  <2>1. CASE UNCHANGED events
    BY <2>1 DEF OnlyJoins
  <2>2. ASSUME NEW e \in Events, events' = Append(events, e)
        PROVE  \A i \in 1 .. Len(events) : events[i] = "join"
    <3>1. /\ Len(events) \in Nat /\ Len(events') = Len(events) + 1
          /\ \A i \in 1 .. Len(events) : events'[i] = events[i]
      BY <1>3, <2>2, QueueFacts
    <3> QED BY <3>1 DEF OnlyJoins
  <2> QED BY <1>1, <2>1, <2>2
<1>5. limits' = limits
  <2>1. ASSUME NEW t, InitiateStep(t) PROVE limits' = limits
    BY <2>1 DEF InitiateStep, SaveFirst, NothingToSave, SavedFirst, Announce, AnnouncePanics,
                Own, boundVars
  <2>2. CASE MonitorStep
    BY <2>1, <2>2 DEF MonitorStep, Look, DetectFailed, ReadRegistry, ExtendKnown, Elapsed,
       ReadExpected, ToSynchronizing, ReadTarget, SetWorld, SetStable, Own, boundVars
  <2>3. CASE TrainerStep \/ Request \/ RequestCleanUp \/ TimePasses \/ Cooling \/ UNCHANGED vars
    BY <2>3 DEF TrainerStep, Boot, Booted, Train, Trained, Request, RequestCleanUp,
                TimePasses, Cooling, elasticVars, Own, boundVars, vars
  <2>4. CASE AdminStep
    BY <2>1, <2>4 DEF AdminStep, CleanedUp, boundVars
  <2>5. CASE \E t \in Tasks : TaskStep(t)
    BY <2>5 DEF TaskStep, elasticVars
  <2>6. CASE \E w \in limits.workers : Heartbeat(w) \/ FallSilent(w)
    BY <2>6 DEF Heartbeat, FallSilent, boundVars
  <2> QED BY <2>2, <2>3, <2>4, <2>5, <2>6 DEF Next
<1> QED BY <1>2, <1>4, <1>5 DEF OnlyJoins

\* Someone who joins or asks is the one who announces it.
LEMMA AnnouncedJoin ==
    ASSUME ScalingInv, NEW t \in Callers, Announce(t), OnlyJoins'
    PROVE  t = "monitor" /\ does[t].event = "join"
<1>1. /\ events \in Seq(Events) /\ does[t].event \in Events
      /\ events' = Append(events, does[t].event)
  BY DEF Announce, At, ScalingInv, ScalingTypeOK, Carried
<1>2. /\ Len(events) \in Nat /\ Len(events') = Len(events) + 1
      /\ events'[Len(events) + 1] = does[t].event
  BY <1>1, QueueFacts
<1>3. does[t].event = "join"
  BY <1>2 DEF OnlyJoins
<1> QED BY <1>3 DEF ScalingInv, Carried, Callers

\* A caller's new record, seen from the monitor.
LEMMA NewRecord ==
    ASSUME ScalingInv, NEW t \in Callers, NEW r, does' = [does EXCEPT ![t] = r]
    PROVE  /\ does'[t] = r
           /\ t # "monitor" => does'["monitor"] = does["monitor"]
BY DEF ScalingInv, ScalingTypeOK, Callers

LEMMA WaySame ==
    ASSUME OnTheirWay, UNCHANGED <<limits, scaling, world, known>>,
           does'["monitor"] = does["monitor"]
    PROVE  OnTheirWay'
BY DEF OnTheirWay, Joining, Everyone

\* The monitor goes on without a join.
LEMMA WayMoves ==
    ASSUME OnTheirWay, UNCHANGED <<limits, scaling, world, known>>, ~Joining, ~Joining',
           does'["monitor"].pc \in {"detect", "new", "extend", "initiate", "saving", "announce"} =>
               scaling = Stable,
           does'["monitor"].pc \in {"to_sync", "set_world"} =>
               scaling # Stable /\ does'["monitor"].arg = scaling.workers,
           does'["monitor"].pc # "set_stable"
    PROVE  OnTheirWay'
BY DEF OnTheirWay, Everyone

LEMMA AdminWay ==
    ASSUME ScalingInv, OnTheirWay, UNCHANGED <<limits, scaling, world, known>>,
           NEW r, does' = [does EXCEPT !["admin"] = r]
    PROVE  OnTheirWay'
BY NewRecord, WaySame DEF Callers

\* Between the initiation of a join and its announcement.
LEMMA InitiateWay ==
    ASSUME ScalingInv, OnTheirWay, NEW t \in Callers, OnlyJoins',
           SaveFirst(t) \/ NothingToSave(t) \/ SavedFirst(t) \/ AnnouncePanics(t)
    PROVE  OnTheirWay'
<1>1. UNCHANGED <<limits, scaling, world, known>>
  BY DEF SaveFirst, NothingToSave, SavedFirst, AnnouncePanics, Own, scalingVars, workerVars,
         boundVars
<1>2. To(t, "saving") \/ To(t, "announce") \/ To(t, "dead")
  BY DEF SaveFirst, NothingToSave, SavedFirst, AnnouncePanics, OnlyJoins
<1>3. PICK pc \in {"saving", "announce", "dead"} : To(t, pc)
  BY <1>2
<1>4. does' = [does EXCEPT ![t] = Doing(pc, does[t].event, does[t].arg, does[t].ids)]
  BY <1>3, CallerRecords DEF ScalingInv
<1>5. CASE t # "monitor"
  BY <1>1, <1>4, <1>5, NewRecord, WaySame
<1>6. CASE t = "monitor"
  <2>1. does'["monitor"] = Doing(pc, does[t].event, does[t].arg, does[t].ids)
    BY <1>4, <1>6, NewRecord
  <2>2. /\ does'["monitor"].pc = pc /\ does'["monitor"].event = does["monitor"].event
        /\ does'["monitor"].arg = does["monitor"].arg
    BY <1>6, <2>1 DEF Doing
  <2>3. does["monitor"].pc \in {"initiate", "saving", "announce"}
    BY <1>6 DEF SaveFirst, NothingToSave, SavedFirst, AnnouncePanics, At
  <2>4. CASE pc = "dead"
    <3>1. AnnouncePanics(t)
      BY <1>4, <1>6, <2>2, <2>4, CallerRecords DEF SaveFirst, NothingToSave, SavedFirst, To,
         Rest, ScalingInv, ScalingTypeOK, AtRest, Doing, OnlyJoins
    <3>2. ~Joining /\ ~Joining'
      BY <1>6, <2>2, <2>4, <3>1 DEF AnnouncePanics, Underflows, Joining
    <3> QED BY <1>1, <2>2, <2>4, <3>2, WayMoves
  <2>5. CASE pc # "dead"
    <3>1. pc \in {"saving", "announce"} /\ (Joining' <=> Joining)
      BY <2>2, <2>3, <2>5 DEF Joining
    <3> QED BY <1>1, <2>2, <2>3, <3>1 DEF OnTheirWay, Everyone
  <2> QED BY <2>4, <2>5
<1> QED BY <1>5, <1>6

LEMMA CardinalityOfUnion ==
    ASSUME NEW S, NEW U, S \subseteq Workers, U \subseteq Workers
    PROVE  /\ Cardinality(S \union U) = Cardinality(S) + Cardinality(U \ S)
           /\ Cardinality(S) \in Nat /\ Cardinality(U \ S) \in Nat
<1>1. IsFiniteSet(S) /\ IsFiniteSet(U \ S) /\ Cardinality(S) \in Nat /\ Cardinality(U \ S) \in Nat
  BY WorkersFinite
<1>2. Cardinality(S \union (U \ S)) =
          Cardinality(S) + Cardinality(U \ S) - Cardinality(S \cap (U \ S))
  BY <1>1, FS_Union
<1>3. S \union (U \ S) = S \union U /\ S \cap (U \ S) = {}
  OBVIOUS
<1>4. Cardinality(S \cap (U \ S)) = 0
  BY <1>3, FS_EmptySet
<1> QED BY <1>1, <1>2, <1>3, <1>4

\* New workers are counted at the step that makes them known.
LEMMA ExtendKnownWay ==
    ASSUME ScalingInv, OnTheirWay, ExtendKnown
    PROVE  OnTheirWay'
<1> DEFINE m == "monitor"
           ids == does[m].ids
           new == ids \ known
<1>1. /\ m \in Callers /\ does[m].pc = "extend" /\ ids \subseteq Workers /\ known \subseteq Workers
      /\ UNCHANGED <<limits, scaling, world>>
      /\ known' = known \union ids
  BY DEF ExtendKnown, At, scalingVars, Own, boundVars, Callers, ScalingInv, ScalingTypeOK, Carried
<1>2. ~Joining /\ scaling = Stable /\ world = Capped(Everyone)
  BY <1>1 DEF Joining, OnTheirWay
<1>3. /\ Cardinality(known') = Cardinality(known) + Cardinality(new)
      /\ Cardinality(known) \in Nat /\ Cardinality(new) \in Nat
  BY <1>1, CardinalityOfUnion
<1>4. CASE new # {}
  <2>1. does' = [does EXCEPT ![m] = Doing("initiate", "join", Cardinality(new), {})]
    BY <1>4 DEF ExtendKnown, Initiate
  <2>2. does'[m] = Doing("initiate", "join", Cardinality(new), {})
    BY <1>1, <2>1, NewRecord
  <2>3. /\ does'[m].pc = "initiate" /\ does'[m].event = "join"
        /\ does'[m].arg = Cardinality(new)
    BY <2>2 DEF Doing
  <2>4. Joining'
    BY <2>3 DEF Joining
  <2>5. Everyone' - does'[m].arg = Everyone
    BY <1>1, <1>3, <2>3, SizesAreNumbers DEF Everyone, ScalingInv
  <2>6. does'[m].arg =< Cardinality(known')
    BY <1>3, <2>3
  <2> QED BY <1>1, <1>2, <2>3, <2>4, <2>5, <2>6 DEF OnTheirWay
<1>5. CASE new = {}
  <2>1. does'[m] = AtRest /\ known' = known
    BY <1>1, <1>5, NewRecord DEF ExtendKnown, Rest
  <2>2. does'[m].pc = "rest"
    BY <2>1 DEF AtRest, Doing
  <2>3. ~Joining'
    BY <2>2 DEF Joining
  <2> QED BY <1>1, <1>2, <2>1, <2>2, <2>3, WayMoves
<1> QED BY <1>4, <1>5

\* The bounds that are put on the target are those of the count.
LEMMA AnnounceWay ==
    ASSUME ScalingInv, OnTheirWay, NEW t \in Callers, Announce(t), OnlyJoins'
    PROVE  OnTheirWay'
<1> DEFINE m == "monitor"
           n == does[m].arg
<1>1. t = m /\ does[m].event = "join" /\ does[m].pc = "announce" /\ Joining
  BY AnnouncedJoin DEF Announce, At, Joining
<1>2. /\ does' = [does EXCEPT ![m] = AtRest] /\ UNCHANGED <<limits, world, known>>
      /\ scaling' = [kind |-> "scaling", workers |-> Clamp(world + n)]
  BY <1>1 DEF Announce, Rest, Expected, workerVars, Own, boundVars
<1>3. does'[m].pc = "rest" /\ ~Joining'
  <2>1. does'[m] = AtRest
    BY <1>1, <1>2, NewRecord
  <2> QED BY <2>1 DEF AtRest, Doing, Joining
<1>4. scaling'.workers = Clamp(world + n) /\ scaling' # Stable
  <2>1. scaling'.kind # Stable.kind
    BY <1>2 DEF Stable
  <2> QED BY <1>2, <2>1
<1>5. n \in Nat /\ n =< Cardinality(known) /\ world = Capped(Everyone - n)
  BY <1>1 DEF OnTheirWay, ScalingInv, ScalingTypeOK, CallerType
<1>6. limits.world \in MinWorkers .. MaxWorkers /\ MinWorkers \in Nat /\ MaxWorkers \in Nat
  BY <1>2, SizesAreNumbers DEF ScalingInv, OnlyJoins
<1>8. Everyone \in Nat /\ Everyone - n >= limits.world
  <2>1. Cardinality(known) \in Nat
    BY WorkersFinite DEF ScalingInv, ScalingTypeOK
  <2> QED BY <1>5, <1>6, <2>1 DEF Everyone
<1>7. Clamp(world + n) = Capped(Everyone)
  BY <1>5, <1>6, <1>8 DEF Clamp, Within, Capped
<1> QED BY <1>2, <1>3, <1>4, <1>7 DEF OnTheirWay, Everyone

LEMMA MonitorWay ==
    ASSUME ScalingInv, OnTheirWay,
           Look \/ DetectFailed \/ ReadRegistry \/ Elapsed \/ ReadExpected \/ ReadTarget
    PROVE  OnTheirWay'
<1> DEFINE m == "monitor"
           rec(pc) == Doing(pc, does[m].event, does[m].arg, does[m].ids)
<1>1. /\ m \in Callers /\ UNCHANGED <<limits, scaling, world, known>>
      /\ does[m].pc \in {"rest", "detect", "new", "elapsed", "expected", "target"}
      /\ ~Joining
  BY DEF Look, DetectFailed, ReadRegistry, Elapsed, ReadExpected, ReadTarget, At, scalingVars,
         workerVars, Own, boundVars, Callers, Joining
<1>2. ASSUME NEW pc, To(m, pc), pc \in {"detect", "new"} => scaling = Stable,
             pc \in {"detect", "new", "elapsed", "expected", "target"}
      PROVE  OnTheirWay'
  <2>1. does'[m] = Doing(pc, does[m].event, does[m].arg, does[m].ids)
    BY <1>1, <1>2, CallerRecords, NewRecord DEF ScalingInv
  <2>2. does'[m].pc = pc
    BY <2>1 DEF Doing
  <2> QED BY <1>1, <1>2, <2>2, WayMoves DEF Joining
<1>3. ASSUME Rest(m) PROVE OnTheirWay'
  <2>1. does'[m] = AtRest
    BY <1>1, <1>3, NewRecord DEF Rest
  <2>2. does'[m].pc = "rest"
    BY <2>1 DEF AtRest, Doing
  <2> QED BY <1>1, <2>2, WayMoves DEF Joining
<1>4. ASSUME NEW pc \in {"to_sync", "set_world"}, Carry(pc, scaling.workers), scaling # Stable
      PROVE  OnTheirWay'
  <2>1. does'[m] = Doing(pc, "none", scaling.workers, {})
    BY <1>1, <1>4, NewRecord DEF Carry
  <2>2. does'[m].pc = pc /\ does'[m].arg = scaling.workers
    BY <2>1 DEF Doing
  <2> QED BY <1>1, <1>4, <2>2, WayMoves DEF Joining
<1>5. CASE Look
  <2>1. scaling.kind = "stable" => scaling = Stable
    BY DEF ScalingInv, ScalingTypeOK
  <2> QED BY <1>2, <1>5, <2>1 DEF Look
<1>6. CASE DetectFailed
  <2>1. does[m].pc = "detect" /\ scaling = Stable
    BY <1>6 DEF DetectFailed, At, OnTheirWay
  <2>2. CASE To(m, "new")
    BY <1>2, <2>1, <2>2
  <2>3. CASE Initiate(m, "failure", Cardinality(stale))
    <3>1. does'[m] = Doing("initiate", "failure", Cardinality(stale), {})
      BY <1>1, <2>3, NewRecord DEF Initiate
    <3>2. does'[m].pc = "initiate" /\ does'[m].event = "failure"
      BY <3>1 DEF Doing
    <3> QED BY <1>1, <2>1, <3>2, WayMoves DEF Joining
  <2> QED BY <1>6, <2>2, <2>3 DEF DetectFailed
<1>7. CASE ReadRegistry
  <2>1. scaling = Stable
    BY <1>7 DEF ReadRegistry, At, OnTheirWay
  <2>2. does'[m] = Doing("extend", "none", 0, registry)
    BY <1>1, <1>7, NewRecord DEF ReadRegistry
  <2>3. does'[m].pc = "extend"
    BY <2>2 DEF Doing
  <2> QED BY <1>1, <2>1, <2>3, WayMoves DEF Joining
<1>8. CASE Elapsed
  BY <1>2, <1>3, <1>8 DEF Elapsed
<1>9. CASE ReadExpected \/ ReadTarget
  <2>1. Stable.kind = "stable"
    BY DEF Stable
  <2> QED BY <1>3, <1>4, <1>9, <2>1 DEF ReadExpected, ReadTarget
<1> QED BY <1>5, <1>6, <1>7, <1>8, <1>9

LEMMA CompletionWay ==
    ASSUME ScalingInv, OnTheirWay, ToSynchronizing \/ SetWorld \/ SetStable
    PROVE  OnTheirWay'
<1> DEFINE m == "monitor"
<1>1. m \in Callers /\ ~Joining
  BY DEF ToSynchronizing, SetWorld, SetStable, At, Callers, Joining
<1>2. ASSUME Rest(m) PROVE does'[m].pc = "rest" /\ ~Joining'
  <2>1. does'[m] = AtRest
    BY <1>1, <1>2, NewRecord DEF Rest
  <2> QED BY <2>1 DEF AtRest, Doing, Joining
<1>3. CASE ToSynchronizing
  <2>1. /\ scaling' = [kind |-> "synchronizing", workers |-> does[m].arg]
        /\ UNCHANGED <<limits, world, known>> /\ Rest(m)
        /\ does[m].arg = Capped(Everyone)
    BY <1>3 DEF ToSynchronizing, workerVars, Own, boundVars, At, OnTheirWay
  <2>2. scaling'.kind # Stable.kind /\ scaling'.workers = does[m].arg
    BY <2>1 DEF Stable
  <2>3. scaling' # Stable /\ Stable' = Stable
    BY <2>2 DEF Stable
  <2> QED BY <1>2, <2>1, <2>2, <2>3 DEF OnTheirWay, Everyone
<1>4. CASE SetWorld
  <2>1. /\ world' = does[m].arg /\ UNCHANGED <<limits, scaling, known>>
        /\ To(m, "set_stable")
        /\ does[m].arg = Capped(Everyone) /\ scaling # Stable
    BY <1>4 DEF SetWorld, workerVars, Own, boundVars, At, OnTheirWay
  <2>2. does'[m] = Doing("set_stable", does[m].event, does[m].arg, does[m].ids)
    BY <1>1, <2>1, CallerRecords, NewRecord DEF ScalingInv
  <2>3. does'[m].pc = "set_stable"
    BY <2>2 DEF Doing
  <2>4. ~Joining' /\ scaling.workers = Capped(Everyone)
    BY <1>1, <2>1, <2>3 DEF Joining, OnTheirWay
  <2> QED BY <2>1, <2>3, <2>4 DEF OnTheirWay, Everyone
<1>5. CASE SetStable
  <2>1. /\ scaling' = Stable /\ UNCHANGED <<limits, world, known>> /\ Rest(m)
        /\ world = Capped(Everyone)
    BY <1>5 DEF SetStable, workerVars, Own, boundVars, At, OnTheirWay
  <2> QED BY <1>2, <2>1 DEF OnTheirWay, Everyone
<1> QED BY <1>3, <1>4, <1>5

LEMMA StartsCounted ==
    ASSUME limits.world \in MinWorkers .. MaxWorkers, limits \in Limits,
           scaling = Stable, world = limits.world, known = {},
           does = [t \in Callers |-> AtRest]
    PROVE  OnTheirWay
<1>1. does["monitor"].pc = "rest" /\ ~Joining
  BY DEF AtRest, Doing, Callers, Joining
<1>2. Everyone = limits.world
  BY FS_EmptySet, SizesAreNumbers DEF Everyone
<1> QED BY <1>1, <1>2, SizesAreNumbers DEF OnTheirWay, Capped

LEMMA JoinsNext ==
    ASSUME ScalingInv, JoinsOnTheirWay, [Next]_vars
    PROVE  JoinsOnTheirWay'
<1>1. CASE Crash
  <2>1. SUFFICES ASSUME OnlyJoins' PROVE OnTheirWay'
    BY DEF JoinsOnTheirWay, OnlyJoins, OnTheirWay
  <2>2. /\ scaling' = Stable /\ world' = limits.world /\ known' = {} /\ limits' = limits
        /\ does' = [t \in Callers |-> AtRest]
    BY <1>1 DEF Crash
  <2>3. /\ (does')["monitor"].pc = "rest" /\ ~Joining'
    BY <2>2 DEF AtRest, Doing, Callers, Joining
  <2>4. /\ limits.world \in MinWorkers .. MaxWorkers
        /\ limits.world \in Nat /\ MaxWorkers \in Nat
    BY <2>1, <2>2, SizesAreNumbers DEF ScalingInv, OnlyJoins
  <2>5. Everyone' = limits.world
    BY <2>2, <2>4, FS_EmptySet DEF Everyone
  <2> QED BY <2>2, <2>3, <2>4, <2>5 DEF OnTheirWay, Capped
<1>2. CASE ~Crash
  <2>1. SUFFICES ASSUME OnlyJoins' PROVE OnTheirWay'
    BY DEF JoinsOnTheirWay, OnlyJoins, OnTheirWay
  <2>2. OnTheirWay
    BY <1>2, <2>1, JoinsSoFar DEF JoinsOnTheirWay, OnlyJoins, OnTheirWay
  <2>3. ASSUME NEW t \in Callers, InitiateStep(t) PROVE OnTheirWay'
    BY <2>1, <2>2, <2>3, InitiateWay, AnnounceWay DEF InitiateStep
  <2>4. CASE MonitorStep
    BY <2>2, <2>3, <2>4, MonitorWay, ExtendKnownWay, CompletionWay DEF MonitorStep, Callers
  <2>5. CASE Request \/ RequestCleanUp \/ CleanedUp
    <3>1. UNCHANGED <<limits, scaling, world, known>>
      BY <2>5 DEF Request, RequestCleanUp, CleanedUp, scalingVars, workerVars, boundVars
    <3>2. \E r : does' = [does EXCEPT !["admin"] = r]
      <4>1. CASE Request
        BY <4>1 DEF Request, Initiate
      <4>2. CASE RequestCleanUp
        BY <4>2, CallerRecords DEF RequestCleanUp, ScalingInv, Callers
      <4>3. CASE CleanedUp
        BY <4>3 DEF CleanedUp, Rest
      <4> QED BY <2>5, <4>1, <4>2, <4>3
    <3> QED BY <2>2, <3>1, <3>2, AdminWay
  <2>6. CASE AdminStep
    BY <2>3, <2>5, <2>6 DEF AdminStep, Callers
  <2>7. CASE TrainerStep \/ TimePasses \/ Cooling \/ UNCHANGED vars
    BY <2>2, <2>7, WaySame DEF TrainerStep, Boot, Booted, Train, Trained, TimePasses, Cooling,
       elasticVars, scalingVars, workerVars, Own, boundVars, vars
  <2>8. CASE \E t \in Tasks : TaskStep(t)
    BY <2>2, <2>8, WaySame DEF TaskStep, elasticVars
  <2>9. CASE \E w \in limits.workers : Heartbeat(w) \/ FallSilent(w)
    BY <2>2, <2>9, WaySame DEF Heartbeat, FallSilent, scalingVars, boundVars
  <2> QED BY <1>2, <2>4, <2>5, <2>6, <2>7, <2>8, <2>9 DEF Next
<1> QED BY <1>1, <1>2
-----------------------------------------------------------------------------
(* The theorems.                                                            *)

LEMMA InitInv == Init => IInv
<1> SUFFICES ASSUME Init PROVE IInv
  OBVIOUS
<1>1. BreakerInv
  BY InitKeepsBreaker DEF Init
<1>2. StorageInv /\ ScalingInv
  BY InitKeepsStorage, InitKeepsScaling
<1>3. OnlyJoins => OnTheirWay
  BY StartsCounted DEF Init, OnlyJoins
<1>4. JoinsOnTheirWay
  BY <1>3, JoinsOnTheirWayIs
<1> QED BY <1>1, <1>2, <1>4, Parts

LEMMA NextInv == IInv /\ [Next]_vars => IInv'
<1> SUFFICES ASSUME IInv, [Next]_vars PROVE IInv'
  OBVIOUS
<1>1. BreakerInv /\ StorageInv /\ ScalingInv /\ JoinsOnTheirWay
  BY Parts
<1>2. BreakerInv'
  BY <1>1, BreakerStep
<1>3. StorageInv'
  BY <1>1, StorageNext DEF ScalingInv
<1>4. ScalingInv'
  BY <1>1, ScalingNext
<1>5. JoinsOnTheirWay'
  BY <1>1, JoinsNext
<1> QED
  BY <1>2, <1>3, <1>4, <1>5
  DEF IInv, TypeOK, BreakerInv, StorageInv, ScalingInv, ScalingTypeOK, CallerType

\* The invariant that the other theorems rest on.
THEOREM ElasticInvariant == Spec => []IInv
BY InitInv, NextInv, PTL DEF Spec

\* Every variable has its type; in particular every size that the scaling is
\* heading for is between min_workers and max_workers (it is max_workers if they
\* are the wrong way round), and so is the world size as soon as it is not the
\* initial_world_size, which may be any.
THEOREM ElasticTypeCorrect == Spec => []TypeOK
<1>1. IInv => TypeOK
  BY DEF IInv
<1> QED BY <1>1, ElasticInvariant, PTL

\* The latest checkpoint of CheckpointManager has a whole file, when saves come
\* one by one and none failed, or the history holds nothing but its step.
THEOREM LatestIsKept == Spec => []LatestKept
<1>1. IInv => LatestKept
  BY DEF IInv
<1> QED BY <1>1, ElasticInvariant, PTL

\* While nothing but joins happened, the world counts every known worker once.
THEOREM JoinsAreCounted == Spec => []JoinsCounted
<1>1. IInv => JoinsCounted
  <2> SUFFICES ASSUME IInv PROVE JoinsCounted
    OBVIOUS
  <2>1. SUFFICES ASSUME scaling = Stable, At("monitor", "rest"), OnlyJoins
                 PROVE  world = Capped(Everyone)
    BY DEF JoinsCounted, Callers, OnlyJoins, Capped, Everyone
  <2>2. OnTheirWay
    BY <2>1, JoinsOnTheirWayIs DEF IInv
  <2>3. ~Joining
    BY <2>1 DEF Joining, At
  <2> QED BY <2>1, <2>2, <2>3 DEF OnTheirWay
<1> QED BY <1>1, ElasticInvariant, PTL

\* load_latest_checkpoint returns nothing older than the newest checkpoint that
\* was saved without an error, if its file was not removed.
THEOREM LoadsNothingOlder == Spec => LoadedNotOlder
<1>1. IInv /\ [Next]_vars =>
          [loaded' \notin {NoStep, loaded} =>
              loaded' >= acked \/ dropped]_<<loaded, acked, dropped>>
  BY LoadsTheNewest, Parts
<1> QED BY <1>1, ElasticInvariant, PTL DEF Spec, LoadedNotOlder

\* The world changes its size only while the scaling state is not stable.
THEOREM WorldChangesWhileScaling == Spec => WorldFixedWhileTraining
<1>1. IInv /\ [Next]_vars =>
          [world' # world /\ crashes' = crashes => scaling # Stable]_<<world, scaling, crashes>>
  <2> SUFFICES ASSUME IInv, [Next]_vars, world' # world, crashes' = crashes PROVE scaling # Stable
    OBVIOUS
  <2>1. ASSUME NEW t, InitiateStep(t) PROVE UNCHANGED world
    BY <2>1 DEF InitiateStep, SaveFirst, NothingToSave, SavedFirst, Announce, AnnouncePanics,
                scalingVars
  <2>2. CASE MonitorStep
    <3>1. SetWorld
      BY <2>1, <2>2 DEF MonitorStep, Look, DetectFailed, ReadRegistry, ExtendKnown, Elapsed,
         ReadExpected, ToSynchronizing, ReadTarget, SetStable, scalingVars
    <3> QED BY <3>1 DEF SetWorld, At, IInv, NotStableYet
  <2>3. CASE AdminStep \/ TrainerStep \/ Request \/ RequestCleanUp \/ TimePasses \/ Cooling
    BY <2>1, <2>3 DEF AdminStep, CleanedUp, TrainerStep, Boot, Booted, Train, Trained, Request,
       RequestCleanUp, TimePasses, Cooling, elasticVars, scalingVars
  <2>4. CASE (\E t \in Tasks : TaskStep(t)) \/ UNCHANGED vars
    BY <2>4 DEF TaskStep, elasticVars, vars
  <2>5. CASE \E w \in limits.workers : Heartbeat(w) \/ FallSilent(w)
    BY <2>5 DEF Heartbeat, FallSilent, scalingVars
  <2>6. CASE Crash
    <3>1. crashes \in Nat
      BY ElasticAssumption DEF IInv, TypeOK, Limit
    <3> QED BY <2>6, <3>1 DEF Crash
  <2> QED BY <2>2, <2>3, <2>4, <2>5, <2>6 DEF Next
<1> QED BY <1>1, ElasticInvariant, PTL DEF Spec, WorldFixedWhileTraining

\* The circuit breaker closes only after success_threshold successes in a row.
THEOREM BreakerClosesTested == Spec => ClosesTested
<1>1. IInv /\ [Next]_vars =>
          [breaker = "half_open" /\ breaker' = "closed" /\ crashes' = crashes =>
              streak' >= SuccessThreshold]_<<breakerVars, crashes>>
  <2> SUFFICES ASSUME IInv, [Next]_vars, breaker = "half_open", breaker' = "closed",
                      crashes' = crashes
               PROVE  streak' >= SuccessThreshold
    OBVIOUS
  <2>1. BreakerInv /\ ~Crash
    <3>1. crashes \in Nat
      BY ElasticAssumption DEF IInv, TypeOK, Limit
    <3> QED BY <3>1, Parts DEF Crash
  <2>2. RecordSuccess /\ Enough(successes + 1)
    <3>1. BreakerMove
      BY StepsMoveBreaker DEF vars, BreakerMove, breakerVars
    <3> QED BY <2>1, <3>1 DEF BreakerMove, RecordSuccess, RecordFailure, CoolDown, breakerVars
  <2> QED BY <2>1, <2>2, BreakerAssumption DEF RecordSuccess, Enough, BreakerInv, BreakerTypeOK,
          CountedInARow
<1> QED BY <1>1, ElasticInvariant, PTL DEF Spec, ClosesTested
=============================================================================
