---------------------------- MODULE Checkpoints ----------------------------
(***************************************************************************)
(* CheckpointManager: saves checkpoints of a training into files, keeps    *)
(* the last few of them, remembers the latest and finds the newest file    *)
(* after a restart.  Any task of the process may save, and all go through  *)
(* one retry executor and its circuit breaker.  verify_after_save is on.   *)
(*                                                                         *)
(* A checkpoint is known by its step; its path names the step and a rank.  *)
(***************************************************************************)
EXTENDS CircuitBreaker, FiniteSets, Sequences

CONSTANTS
    Tasks,          \* the tasks of the process
    Ranks,          \* the ranks that paths name
    MaxStep,        \* bound: the steps of the training
    MaxCheckpoints, \* max_checkpoints
    MaxAttempts     \* max_attempts of the retry executor

ASSUME CheckpointsAssumption ==
    /\ IsFiniteSet(Ranks)
    /\ MaxStep \in Nat \ {0}
    /\ MaxCheckpoints \in Nat /\ MaxAttempts \in Nat \ {0}

VARIABLES
    faulty,     \* whether reading and writing may fail; never changes
    files,      \* what is in the directory: the state of every path
    latest,     \* latest_checkpoint, its step, NoStep if none
    history,    \* checkpoint_history
    op,         \* where a task is in saving, loading or cleaning up
    loaded,     \* the step that the last load_latest_checkpoint returned
    acked,      \* the newest step whose save returned without an error
    dropped,    \* a file of that step was removed since
    calm        \* no save overlapped another, none failed, nothing was cleaned up

storageVars == <<faulty, files, latest, history, op, loaded, acked, dropped, calm>>

NoStep == 0
Steps == 1 .. MaxStep
Path == Steps \X Ranks
Idle == [pc |-> "idle", path |-> <<>>, attempt |-> 0, left |-> {}]
Ended == {"saved", "loaded", "cleaned", "failed"}
Cleaning == {"clean_files", "clean_latest"}
SavePcs == {"write", "writing", "verify", "commit", "prune"}
Saving(t) == op[t].pc \in SavePcs

StorageInit ==
    /\ files = [p \in Path |-> "none"]
    /\ latest = NoStep /\ history = <<>>
    /\ op = [t \in Tasks |-> Idle]
    /\ loaded = NoStep /\ acked = NoStep
    /\ dropped = FALSE /\ calm = TRUE

Goto(t, pc) == op' = [op EXCEPT ![t].pc = pc, ![t].attempt = 0]

\* save_checkpoint and load_latest_checkpoint, called and returned from.
BeginSave(t, step, rank) ==
    /\ op' = [op EXCEPT ![t] =
                 [pc |-> "write", path |-> <<step, rank>>, attempt |-> 0, left |-> {}]]
    /\ calm' = (calm /\ ~ \E u \in Tasks : Saving(u))
    /\ UNCHANGED <<faulty, files, latest, history, loaded, acked, dropped>>

\* find_checkpoint_files; reading the directory may fail as well.
CheckpointFiles == {p \in Path : files[p] # "none"}

\* The files of the highest step; of several the last the directory yields.
Newest == {p \in CheckpointFiles : \A q \in CheckpointFiles : q[1] =< p[1]}

BeginLoad(t) ==
    /\ \/ /\ CheckpointFiles = {}
          /\ op' = [op EXCEPT ![t] = [Idle EXCEPT !.pc = "loaded"]]
          /\ loaded' = NoStep
       \/ /\ \E p \in Newest :
                op' = [op EXCEPT ![t] = [pc |-> "load", path |-> p, attempt |-> 0, left |-> {}]]
          /\ UNCHANGED loaded
       \/ /\ faulty
          /\ op' = [op EXCEPT ![t] = [Idle EXCEPT !.pc = "failed"]]
          /\ UNCHANGED loaded
    /\ UNCHANGED <<faulty, files, latest, history, acked, dropped, calm>>

Return(t) == op' = [op EXCEPT ![t] = Idle]

\* The breaker refuses the next attempt: the operation fails.
Refused(t) ==
    /\ op[t].pc \in {"write", "verify", "load"} /\ ~AllowRequest
    /\ Goto(t, "failed")
    /\ calm' = FALSE
    /\ UNCHANGED <<faulty, files, latest, history, loaded, acked, dropped>> /\ UNCHANGED breakerVars

\* An attempt failed: it is repeated, unless it was the last.
Retry(t, pc) ==
    /\ RecordFailure
    /\ IF op[t].attempt + 1 < MaxAttempts
       THEN op' = [op EXCEPT ![t].pc = pc, ![t].attempt = @ + 1] /\ UNCHANGED calm
       ELSE Goto(t, "failed") /\ calm' = FALSE

\* fs::write empties the file and then fills it.
WriteBegin(t) ==
    /\ op[t].pc = "write" /\ AllowRequest
    /\ files' = [files EXCEPT ![op[t].path] = "torn"]
    /\ op' = [op EXCEPT ![t].pc = "writing"]
    /\ UNCHANGED <<faulty, latest, history, loaded, acked, dropped, calm>> /\ UNCHANGED breakerVars

WriteEnd(t) ==
    /\ op[t].pc = "writing"
    /\ files' = [files EXCEPT ![op[t].path] = "whole"]
    /\ RecordSuccess
    /\ Goto(t, "verify")
    /\ UNCHANGED <<faulty, latest, history, loaded, acked, dropped, calm>>

\* It fails to open the file, which stays as it was, or to fill it.
WriteFails(t) ==
    /\ faulty
    /\ op[t].pc = "writing" \/ (op[t].pc = "write" /\ AllowRequest)
    /\ Retry(t, "write")
    /\ UNCHANGED <<faulty, files, latest, history, loaded, acked, dropped>>

\* load_checkpoint, of verify_checkpoint or of load_latest_checkpoint.
Read(t) ==
    /\ op[t].pc \in {"verify", "load"} /\ AllowRequest
    /\ files[op[t].path] = "whole"
    /\ RecordSuccess
    /\ IF op[t].pc = "verify"
       THEN Goto(t, "commit") /\ UNCHANGED loaded
       ELSE Goto(t, "loaded") /\ loaded' = op[t].path[1]
    /\ UNCHANGED <<faulty, files, latest, history, acked, dropped, calm>>

ReadFails(t) ==
    /\ op[t].pc \in {"verify", "load"} /\ AllowRequest
    /\ files[op[t].path] # "whole" \/ faulty
    /\ Retry(t, op[t].pc)
    /\ UNCHANGED <<faulty, files, latest, history, loaded, acked, dropped>>

Commit(t) ==
    /\ op[t].pc = "commit"
    /\ latest' = op[t].path[1]
    /\ Goto(t, "prune")
    /\ UNCHANGED <<faulty, files, history, loaded, acked, dropped, calm>> /\ UNCHANGED breakerVars

\* A save is acknowledged, and the file of one path removed, if any is.
Newer(t) == op[t].path[1] > acked
Acknowledge(t, removed) ==
    /\ acked' = IF Newer(t) THEN op[t].path[1] ELSE acked
    /\ dropped' = IF Newer(t) THEN files'[op[t].path] = "none"
                  ELSE dropped \/ \E p \in removed : p[1] = acked

\* Mutant: the newest goes.
PruneNewest(t) ==
    /\ op[t].pc = "prune"
    /\ history' = IF Len(history) < MaxCheckpoints THEN Append(history, op[t].path) ELSE history
    /\ files' = IF Len(history) < MaxCheckpoints THEN files
                ELSE [files EXCEPT ![op[t].path] = "none"]
    /\ Acknowledge(t, {})
    /\ Goto(t, "saved")
    /\ UNCHANGED <<faulty, latest, loaded, calm>> /\ UNCHANGED breakerVars

\* The path joins the history, and the oldest of too many goes, with its file
\* unless that fails.
Prune(t) ==
    /\ op[t].pc = "prune"
    /\ LET h == Append(history, op[t].path)
           full == Len(h) > MaxCheckpoints
       IN /\ history' = IF full THEN Tail(h) ELSE h
          /\ \/ /\ full /\ files' = [files EXCEPT ![Head(h)] = "none"]
                /\ Acknowledge(t, {Head(h)})
             \/ /\ ~full \/ faulty
                /\ files' = files /\ Acknowledge(t, {})
    /\ Goto(t, "saved")
    /\ UNCHANGED <<faulty, latest, loaded, calm>> /\ UNCHANGED breakerVars

\* cleanup_all_checkpoints finds the files, removes them one by one, clears
\* the history and forgets the latest.
BeginCleanUp(t) ==
    /\ \/ op' = [op EXCEPT ![t] =
                 [pc |-> "clean_files", path |-> <<>>, attempt |-> 0, left |-> CheckpointFiles]]
       \/ faulty /\ op' = [op EXCEPT ![t] = [Idle EXCEPT !.pc = "failed"]]
    /\ calm' = FALSE
    /\ UNCHANGED <<faulty, files, latest, history, loaded, acked, dropped>>

\* A file that cannot be removed stays.
CleanFile(t) ==
    /\ op[t].pc = "clean_files"
    /\ \E p \in op[t].left :
          /\ op' = [op EXCEPT ![t].left = @ \ {p}]
          /\ \/ /\ files' = [files EXCEPT ![p] = "none"]
                /\ dropped' = (dropped \/ p[1] = acked)
             \/ faulty /\ UNCHANGED <<files, dropped>>
    /\ UNCHANGED <<faulty, latest, history, loaded, acked, calm>> /\ UNCHANGED breakerVars

CleanHistory(t) ==
    /\ op[t].pc = "clean_files" /\ op[t].left = {} /\ Goto(t, "clean_latest")
    /\ history' = <<>>
    /\ UNCHANGED <<faulty, files, latest, loaded, acked, dropped, calm>> /\ UNCHANGED breakerVars

CleanLatest(t) ==
    /\ op[t].pc = "clean_latest" /\ Goto(t, "cleaned")
    /\ latest' = NoStep
    /\ UNCHANGED <<faulty, files, history, loaded, acked, dropped, calm>> /\ UNCHANGED breakerVars

StorageStep(t) ==
    \/ Refused(t) \/ WriteBegin(t) \/ WriteEnd(t) \/ WriteFails(t)
    \/ Read(t) \/ ReadFails(t) \/ Commit(t) \/ Prune(t)
    \/ CleanFile(t) \/ CleanHistory(t) \/ CleanLatest(t)

\* The process is gone and started again; the files stay as they are.
StorageRestart ==
    /\ latest' = NoStep /\ history' = <<>>
    /\ op' = [t \in Tasks |-> Idle]
    /\ loaded' = NoStep
    /\ calm' = (calm /\ ~ \E t \in Tasks : Saving(t))
    /\ UNCHANGED <<faulty, files, acked, dropped>>

StorageTypeOK ==
    /\ files \in [Path -> {"none", "torn", "whole"}]
    /\ latest \in Steps \union {NoStep}
    /\ history \in Seq(Path) /\ Len(history) =< MaxCheckpoints
    /\ op \in [Tasks -> [pc : {"idle", "load"} \union SavePcs \union Cleaning \union Ended,
                         path : Path \union {<<>>}, attempt : 0 .. MaxAttempts - 1,
                         left : SUBSET Path]]
    /\ \A t \in Tasks : op[t].pc \in SavePcs \union {"load"} => op[t].path \in Path
    /\ faulty \in BOOLEAN
    /\ loaded \in Steps \union {NoStep} /\ acked \in Steps \union {NoStep}
    /\ dropped \in BOOLEAN /\ calm \in BOOLEAN
-----------------------------------------------------------------------------
(* Properties.                                                              *)

\* The checkpoint that the manager calls the latest is whole in its file, when
\* saves come one by one and none failed: unless the history holds nothing
\* else, which is when saving it once more removes the file just written.
LatestKept ==
    calm /\ latest # NoStep /\ (\A t \in Tasks : ~Saving(t)) =>
        \/ \E p \in Path : p[1] = latest /\ files[p] = "whole"
        \/ Len(history) = MaxCheckpoints /\ \A i \in 1 .. Len(history) : history[i][1] = latest

\* What a restarted training resumes from is not older than the newest
\* checkpoint that was saved without an error, if its file was not removed.
LoadedNotOlder ==
    [][loaded' \notin {NoStep, loaded} => loaded' >= acked \/ dropped]_<<loaded, acked, dropped>>
=============================================================================
