------------------------------ MODULE Elastic ------------------------------
(***************************************************************************)
(* ElasticTrainingManager with its CheckpointManager, in one process.  The *)
(* trainer saves a checkpoint after every step; the monitor calls          *)
(* check_scaling_needs over and over; an administrator asks for a number   *)
(* of workers or cleans the checkpoints up.  Workers send heartbeats.      *)
(*                                                                         *)
(* The scaling state, the world size, the registry and the known workers   *)
(* each have a lock of their own, taken for a read or a write at a time,   *)
(* so the tasks interleave between any two of those.                       *)
(***************************************************************************)
EXTENDS Checkpoints

CONSTANTS
    Workers,        \* ids that send heartbeats
    MinWorkers,     \* min_workers
    MaxWorkers,     \* max_workers
    Requests,       \* the numbers of workers the administrator may ask for
    Builds,         \* of "debug", "release": whether arithmetic is checked
    Word,           \* how many values a usize has
    Limits          \* bounds: how much may happen in a behaviour

\* Whether I/O may fail and the administrator may clean up; which workers
\* there are; the initial_world_size, which nothing checks; and at most so many
\* steps, scaling events that the monitor causes, requests of the administrator
\* and restarts of the process.
Limit == [io : BOOLEAN, clean : BOOLEAN, workers : SUBSET Workers, world : Nat,
          steps : 0 .. MaxStep, events : Nat, requests : Nat, crashes : Nat]

ASSUME ElasticAssumption ==
    /\ Tasks = {"trainer", "monitor", "admin"}
    /\ 0 \in Ranks
    /\ IsFiniteSet(Workers)
    /\ MinWorkers \in Nat /\ MaxWorkers \in Nat
    /\ Requests \subseteq Nat
    /\ Builds \subseteq {"debug", "release"} /\ Builds # {}
    /\ Limits \subseteq Limit
    /\ Word \in Nat
    /\ \A n \in {MaxWorkers} \union {l.world : l \in Limits} : n + Cardinality(Workers) < Word

VARIABLES
    limits,     \* never changes
    scaling,    \* scaling_state
    due,        \* scaling_timeout has elapsed since the scaling started
    world,      \* current_world_size
    registry,   \* the workers in worker_registry
    stale,      \* those of them whose last heartbeat is too old
    known,      \* known_workers
    events,     \* scaling_events, their kinds
    does,       \* where the monitor and the administrator are, and with what
    booted,     \* the trainer has tried to load a checkpoint
    trained,    \* the steps it has done
    refused,    \* initiate_scaling has returned an error
    requests,   \* what the administrator has done
    crashes

elasticVars == <<limits, scaling, due, world, registry, stale, known, events, does, booted, trained,
                 refused, requests, crashes>>
vars == <<breaker, failures, successes, cooled, streak,
          faulty, files, latest, history, op, loaded, acked, dropped, calm, limits,
          scaling, due, world, registry, stale, known, events, does, booted, trained,
          refused, requests, crashes>>

\* workers is expected_workers while scaling, target_workers while synchronizing.
Stable == [kind |-> "stable", workers |-> 0]
Doing(pc, event, n, ids) == [pc |-> pc, event |-> event, arg |-> n, ids |-> ids]
AtRest == Doing("rest", "none", 0, {})
Callers == {"monitor", "admin"}
Events == {"failure", "join", "manual"}

Within(n) == IF n < MinWorkers THEN MinWorkers ELSE n
\* Mutant: the lower bound is left out.
ClampAbove(n) == IF n > MaxWorkers THEN MaxWorkers ELSE n

\* .max(min_workers).min(max_workers)
Clamp(n) == IF Within(n) > MaxWorkers THEN MaxWorkers ELSE Within(n)

\* What the actions of a group leave alone.
scalingVars == <<scaling, due, world, events>>
workerVars == <<registry, stale, known>>
trainerVars == <<booted, trained>>
boundVars == <<limits, requests, crashes>>

Init ==
    /\ limits \in Limits /\ faulty = limits.io
    /\ BreakerInit /\ StorageInit
    /\ scaling = Stable /\ due = FALSE /\ world = limits.world
    /\ registry = {} /\ stale = {} /\ known = {} /\ events = <<>>
    /\ does = [t \in Callers |-> AtRest]
    /\ booted = FALSE /\ trained = NoStep
    /\ refused = FALSE /\ requests = 0 /\ crashes = 0
-----------------------------------------------------------------------------
(* The trainer and the workers.                                             *)

Boot ==
    /\ ~booted /\ op["trainer"].pc = "idle"
    /\ BeginLoad("trainer")
    /\ UNCHANGED breakerVars /\ UNCHANGED elasticVars

\* Without a checkpoint, or if the newest does not load, it starts over.
Booted ==
    /\ ~booted /\ op["trainer"].pc \in {"loaded", "failed"}
    /\ Return("trainer")
    /\ booted' = TRUE /\ trained' = loaded
    /\ UNCHANGED <<faulty, files, latest, history, loaded, acked, dropped, calm, does, refused>>
    /\ UNCHANGED <<breakerVars, scalingVars, workerVars, boundVars>>

Train ==
    /\ booted /\ op["trainer"].pc = "idle" /\ trained < limits.steps
    /\ trained' = trained + 1
    /\ BeginSave("trainer", trained + 1, 0)
    /\ UNCHANGED <<booted, does, refused>>
    /\ UNCHANGED <<breakerVars, scalingVars, workerVars, boundVars>>

\* It goes on whether the save succeeded or not.
Trained ==
    /\ booted /\ op["trainer"].pc \in Ended
    /\ Return("trainer")
    /\ UNCHANGED <<faulty, files, latest, history, loaded, acked, dropped, calm>>
    /\ UNCHANGED breakerVars /\ UNCHANGED elasticVars

\* update_worker_heartbeat, and time without one.
Heartbeat(w) ==
    /\ w \notin registry \/ w \in stale
    /\ registry' = registry \union {w} /\ stale' = stale \ {w}
    /\ UNCHANGED <<known, does, refused>>
    /\ UNCHANGED <<breakerVars, storageVars, scalingVars, trainerVars, boundVars>>

FallSilent(w) ==
    /\ w \in registry \ stale
    /\ stale' = stale \union {w}
    /\ UNCHANGED <<registry, known, does, refused>>
    /\ UNCHANGED <<breakerVars, storageVars, scalingVars, trainerVars, boundVars>>
-----------------------------------------------------------------------------
(* check_scaling_needs.                                                     *)

At(t, pc) == does[t].pc = pc
To(t, pc) == does' = [does EXCEPT ![t].pc = pc]
Rest(t) == does' = [does EXCEPT ![t] = AtRest]
Carry(pc, n) == does' = [does EXCEPT !["monitor"] = Doing(pc, "none", n, {})]
\* What a step of a caller in its own variables leaves alone.
Own == UNCHANGED <<breakerVars, storageVars, trainerVars, boundVars>>

\* The state is copied; by it the call decides what to do.
Look ==
    /\ At("monitor", "rest")
    /\ \/ scaling.kind = "stable" /\ Len(events) < limits.events /\ To("monitor", "detect")
       \/ scaling.kind = "scaling" /\ To("monitor", "elapsed")
       \/ scaling.kind = "synchronizing" /\ To("monitor", "target")
    /\ UNCHANGED <<scalingVars, workerVars, refused>> /\ Own

Initiate(t, event, n) == does' = [does EXCEPT ![t] = Doing("initiate", event, n, {})]

\* Nothing ever leaves the registry: a worker that stays silent is found
\* failed in every call.
DetectFailed ==
    /\ At("monitor", "detect")
    /\ IF stale # {}
       THEN Initiate("monitor", "failure", Cardinality(stale))
       ELSE To("monitor", "new")
    /\ UNCHANGED <<scalingVars, workerVars, refused>> /\ Own

\* detect_new_workers reads the registry under one lock ...
ReadRegistry ==
    /\ At("monitor", "new")
    /\ does' = [does EXCEPT !["monitor"] = Doing("extend", "none", 0, registry)]
    /\ UNCHANGED <<scalingVars, workerVars, refused>> /\ Own

\* Mutant: the registry is read again.
ExtendKnownAnew ==
    /\ At("monitor", "extend")
    /\ LET new == does["monitor"].ids \ known IN
       IF new # {} THEN Initiate("monitor", "join", Cardinality(new)) ELSE Rest("monitor")
    /\ known' = known \union registry
    /\ UNCHANGED <<scalingVars, registry, stale, refused>> /\ Own

\* ... and extends the known workers under another.
ExtendKnown ==
    /\ At("monitor", "extend")
    /\ LET new == does["monitor"].ids \ known IN
       IF new # {} THEN Initiate("monitor", "join", Cardinality(new)) ELSE Rest("monitor")
    /\ known' = known \union does["monitor"].ids
    /\ UNCHANGED <<scalingVars, registry, stale, refused>> /\ Own

\* initiate_scaling saves the latest checkpoint again, as rank 0.
SaveFirst(t) ==
    /\ At(t, "initiate") /\ latest # NoStep
    /\ BeginSave(t, latest, 0)
    /\ To(t, "saving")
    /\ UNCHANGED <<breakerVars, scalingVars, workerVars, trainerVars, refused, boundVars>>

NothingToSave(t) ==
    /\ At(t, "initiate") /\ latest = NoStep
    /\ To(t, "announce")
    /\ UNCHANGED <<scalingVars, workerVars, refused>> /\ Own

\* If the save fails, so does initiate_scaling, and its event is forgotten.
SavedFirst(t) ==
    /\ At(t, "saving") /\ op[t].pc \in Ended
    /\ Return(t)
    /\ IF op[t].pc = "saved"
       THEN To(t, "announce") /\ UNCHANGED refused
       ELSE Rest(t) /\ refused' = TRUE
    /\ UNCHANGED <<faulty, files, latest, history, loaded, acked, dropped, calm>>
    /\ UNCHANGED <<breakerVars, scalingVars, workerVars, trainerVars, boundVars>>

\* world - failed_ranks.len() wraps in a release build.
Expected(t) ==
    CASE does[t].event = "failure" -> (world - does[t].arg) % Word
      [] does[t].event = "join" -> world + does[t].arg
      [] does[t].event = "manual" -> does[t].arg

Underflows(t) == does[t].event = "failure" /\ does[t].arg > world

\* Whatever the scaling state is by now, it is replaced.
Announce(t) ==
    /\ At(t, "announce")
    /\ Underflows(t) => "release" \in Builds
    /\ scaling' = [kind |-> "scaling", workers |-> Clamp(Expected(t))]
    /\ due' = FALSE
    /\ events' = Append(events, does[t].event)
    /\ Rest(t)
    /\ UNCHANGED <<world, refused>> /\ UNCHANGED workerVars /\ Own

\* It panics in a debug build, and the task is gone.
AnnouncePanics(t) ==
    /\ At(t, "announce")
    /\ Underflows(t) /\ "debug" \in Builds
    /\ To(t, "dead")
    /\ UNCHANGED <<scalingVars, workerVars, refused>> /\ Own

TimePasses ==
    /\ scaling.kind = "scaling" /\ ~due
    /\ due' = TRUE
    /\ UNCHANGED <<scaling, world, events, does, refused>> /\ UNCHANGED workerVars /\ Own

\* is_scaling_complete looks at the state anew,
Elapsed ==
    /\ At("monitor", "elapsed")
    /\ IF scaling.kind = "scaling" /\ due THEN To("monitor", "expected") ELSE Rest("monitor")
    /\ UNCHANGED <<scalingVars, workerVars, refused>> /\ Own

\* complete_scaling once more, and replaces it.
ReadExpected ==
    /\ At("monitor", "expected")
    /\ IF scaling.kind = "scaling"
       THEN Carry("to_sync", scaling.workers)
       ELSE Rest("monitor")
    /\ UNCHANGED <<scalingVars, workerVars, refused>> /\ Own

ToSynchronizing ==
    /\ At("monitor", "to_sync")
    /\ scaling' = [kind |-> "synchronizing", workers |-> does["monitor"].arg]
    /\ Rest("monitor")
    /\ UNCHANGED <<due, world, events, refused>> /\ UNCHANGED workerVars /\ Own

\* Mutants: the state is taken out when it is read; the synchronization waits
\* for the world to have the size it is about to set.
ReadTargetAndReset ==
    /\ At("monitor", "target")
    /\ IF scaling.kind = "synchronizing"
       THEN Carry("set_world", scaling.workers) /\ scaling' = Stable
       ELSE Rest("monitor") /\ UNCHANGED scaling
    /\ UNCHANGED <<due, world, events, refused>> /\ UNCHANGED workerVars /\ Own
ReadTargetWhenReached ==
    /\ At("monitor", "target")
    /\ IF scaling.kind = "synchronizing" /\ scaling.workers = world
       THEN Carry("set_world", scaling.workers)
       ELSE Rest("monitor")
    /\ UNCHANGED <<scalingVars, workerVars, refused>> /\ Own

\* complete_synchronization reads the target, sets the world, sets the state.
ReadTarget ==
    /\ At("monitor", "target")
    /\ IF scaling.kind = "synchronizing"
       THEN Carry("set_world", scaling.workers)
       ELSE Rest("monitor")
    /\ UNCHANGED <<scalingVars, workerVars, refused>> /\ Own

SetWorld ==
    /\ At("monitor", "set_world")
    /\ world' = does["monitor"].arg
    /\ To("monitor", "set_stable")
    /\ UNCHANGED <<scaling, due, events, refused>> /\ UNCHANGED workerVars /\ Own

SetStable ==
    /\ At("monitor", "set_stable")
    /\ scaling' = Stable
    /\ Rest("monitor")
    /\ UNCHANGED <<due, world, events, refused>> /\ UNCHANGED workerVars /\ Own
-----------------------------------------------------------------------------
(* The administrator, and the whole.                                        *)

\* scale_to
Request ==
    /\ At("admin", "rest") /\ requests < limits.requests
    /\ requests' = requests + 1
    /\ \E n \in Requests : Initiate("admin", "manual", n)
    /\ UNCHANGED <<breakerVars, storageVars, scalingVars, workerVars, trainerVars>>
    /\ UNCHANGED <<limits, refused, crashes>>

RequestCleanUp ==
    /\ At("admin", "rest") /\ requests < limits.requests /\ limits.clean
    /\ requests' = requests + 1
    /\ BeginCleanUp("admin") /\ To("admin", "cleaning")
    /\ UNCHANGED <<breakerVars, scalingVars, workerVars, trainerVars, limits, refused, crashes>>

CleanedUp ==
    /\ At("admin", "cleaning") /\ op["admin"].pc \in Ended
    /\ Return("admin") /\ Rest("admin")
    /\ UNCHANGED <<faulty, files, latest, history, loaded, acked, dropped, calm>>
    /\ UNCHANGED <<breakerVars, scalingVars, workerVars, trainerVars, refused, boundVars>>

Crash ==
    /\ crashes < limits.crashes
    /\ crashes' = crashes + 1
    /\ StorageRestart
    /\ breaker' = "closed" /\ failures' = 0 /\ successes' = 0 /\ cooled' = TRUE /\ streak' = 0
    /\ scaling' = Stable /\ due' = FALSE /\ world' = limits.world
    /\ registry' = {} /\ stale' = {} /\ known' = {} /\ events' = <<>>
    /\ does' = [t \in Callers |-> AtRest]
    /\ booted' = FALSE /\ trained' = NoStep /\ refused' = FALSE
    /\ UNCHANGED <<limits, requests>>

TrainerStep == Boot \/ Booted \/ Train \/ Trained
InitiateStep(t) ==
    SaveFirst(t) \/ NothingToSave(t) \/ SavedFirst(t) \/ Announce(t) \/ AnnouncePanics(t)
MonitorStep ==
    \/ Look \/ DetectFailed \/ ReadRegistry \/ ExtendKnown \/ InitiateStep("monitor")
    \/ Elapsed \/ ReadExpected \/ ToSynchronizing \/ ReadTarget \/ SetWorld \/ SetStable
AdminStep == InitiateStep("admin") \/ CleanedUp
TaskStep(t) == StorageStep(t) /\ UNCHANGED elasticVars
Cooling == CoolDown /\ UNCHANGED storageVars /\ UNCHANGED elasticVars

Next ==
    \/ TrainerStep \/ MonitorStep \/ AdminStep \/ Request \/ RequestCleanUp
    \/ \E t \in Tasks : TaskStep(t)
    \/ \E w \in limits.workers : Heartbeat(w) \/ FallSilent(w)
    \/ Cooling \/ TimePasses \/ Crash

Spec == Init /\ [][Next]_vars

\* Tasks run and time passes; the monitor calls check_scaling_needs for ever.
FairSpec ==
    /\ Spec /\ WF_vars(MonitorStep) /\ WF_vars(TimePasses)
    /\ \A t \in Tasks : WF_vars(TaskStep(t))
-----------------------------------------------------------------------------
(* Properties.                                                              *)

\* The sizes between the bounds; if they are the wrong way round, the upper one.
Sizes == {n \in 0 .. MaxWorkers : n >= MinWorkers \/ n = MaxWorkers}

\* In particular every target is between the bounds, and so is the world as
\* soon as it is not what the manager was created with.
TypeOK ==
    /\ BreakerTypeOK /\ StorageTypeOK /\ limits \in Limits
    /\ \/ scaling = Stable
       \/ scaling \in [kind : {"scaling", "synchronizing"}, workers : Sizes]
    /\ due \in BOOLEAN /\ world \in Sizes \union {limits.world}
    /\ registry \subseteq Workers /\ stale \subseteq registry /\ known \subseteq registry
    /\ events \in Seq(Events)
    /\ does \in [Callers ->
          [pc : {"rest", "detect", "new", "extend", "initiate", "saving", "announce", "elapsed",
                 "expected", "to_sync", "target", "set_world", "set_stable", "cleaning", "dead"},
           event : Events \union {"none"}, arg : Nat, ids : SUBSET Workers]]
    /\ booted \in BOOLEAN /\ trained \in Steps \union {NoStep} /\ refused \in BOOLEAN
    /\ requests \in 0 .. limits.requests /\ crashes \in 0 .. limits.crashes

\* The breaker closes after enough successes in a row, whatever failures of
\* other tasks come between.
ClosesTested ==
    [][breaker = "half_open" /\ breaker' = "closed" /\ crashes' = crashes =>
          streak' >= SuccessThreshold]_<<breakerVars, crashes>>

\* The world does not change its size under a training that may proceed,
\* whatever scaling is asked for in the meantime.
WorldFixedWhileTraining ==
    [][world' # world /\ crashes' = crashes => scaling # Stable]_<<world, scaling, crashes>>

\* Workers that join are counted once each, whenever they turn up, as long as
\* nothing but joins happened and no initiate_scaling failed, from a world
\* within the bounds.
JoinsCounted ==
    /\ limits.world \in MinWorkers .. MaxWorkers
    /\ scaling = Stable /\ \A t \in Callers : At(t, "rest")
    /\ \A i \in 1 .. Len(events) : events[i] = "join"
    /\ ~refused
    => LET all == limits.world + Cardinality(known) IN
       world = IF all > MaxWorkers THEN MaxWorkers ELSE all

\* Training goes on in the end, whatever becomes of the checkpoint that is
\* saved and of requests made meanwhile, unless the monitor has panicked.
ScalingEnds == scaling # Stable ~> scaling = Stable \/ At("monitor", "dead")
=============================================================================
