----------------------------- MODULE MCElastic -----------------------------
(***************************************************************************)
(* Instances of Elastic for TLC.                                           *)
(***************************************************************************)
EXTENDS Elastic

CONSTANTS w1, w2

TwoWorkers == {w1, w2}
ThreeTasks == {"trainer", "monitor", "admin"}

Quiet == [io |-> FALSE, clean |-> FALSE, workers |-> {}, world |-> 2, steps |-> 0, events |-> 0,
          requests |-> 0, crashes |-> 0]

\* Scaling without checkpoints: two workers and a request; the world has room
\* for both of them, or for one.
Scaling == [Quiet EXCEPT !.workers = TwoWorkers, !.events = 2, !.requests = 1]
Roomy == [Scaling EXCEPT !.world = 1, !.requests = 0]
\* A world below the minimum, from which a failed worker is subtracted.
Empty == [Quiet EXCEPT !.world = 0, !.workers = {w1}, !.events = 2]
\* Scaling over and over between two steps, for a worker that stays silent.
Rescaling == [Quiet EXCEPT !.workers = {w1}, !.events = 3, !.steps = 2]
\* The monitor and the administrator save the same checkpoint at once.
Requested == [Quiet EXCEPT !.workers = {w1}, !.events = 1, !.steps = 1, !.requests = 1]
\* Saves that fail, alone with a restart and with a scaling.
Failing == [Quiet EXCEPT !.io = TRUE, !.steps = 3, !.crashes = 1]
FailingBoth == [Quiet EXCEPT !.io = TRUE, !.steps = 1, !.workers = {w1}, !.events = 1]
\* The process restarts while the trainer and the monitor save.
Restarting == [Quiet EXCEPT !.steps = 2, !.workers = {w1}, !.events = 1, !.crashes = 1]
\* The checkpoints are cleaned up in between, all or some of them.
CleanedUpBetween == [Quiet EXCEPT !.clean = TRUE, !.requests = 1, !.steps = 2]
CleanedUpPartly == [CleanedUpBetween EXCEPT !.io = TRUE, !.crashes = 1]

AllLimits == {Scaling, Roomy, Empty, Rescaling, Requested, Failing, FailingBoth, Restarting,
              CleanedUpBetween, CleanedUpPartly}
=============================================================================
