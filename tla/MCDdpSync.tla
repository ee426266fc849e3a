----------------------------- MODULE MCDdpSync -----------------------------
(***************************************************************************)
(* Instances of DdpSync for TLC: two ranks and three parameters.           *)
(***************************************************************************)
EXTENDS DdpSync, TLC

TwoRanks == 0 .. 1
ThreeParams == {"a", "b", "c"}

\* Of three sizes, and with two parameters of one size: either way one bucket
\* of one parameter and one of two.  Of the last, no two sums are the same.
Distinct == "a" :> 3 @@ "b" :> 2 @@ "c" :> 1
Tied == "a" :> 2 @@ "b" :> 1 @@ "c" :> 1
Telling == "a" :> 4 @@ "b" :> 2 @@ "c" :> 1

Forward == <<"a", "c", "b">>
Reversed == <<"b", "c", "a">>
Opposite == 0 :> Forward @@ 1 :> Reversed
Alike == [r \in TwoRanks |-> Reversed]

All == {ThreeParams}
Some == {ThreeParams, {"a", "b"}}

\* Of sync_gradients alone, and of overlap.
Sync(bucketed, size, cap, steps, useSets) ==
    [bucketed |-> bucketed, overlap |-> FALSE, sync |-> TRUE, permits |-> 1,
     size |-> size, cap |-> cap, hash |-> Opposite, arrival |-> Alike,
     steps |-> steps, useSets |-> useSets]

Overlap(size, cap, arrival, steps, useSets) ==
    [bucketed |-> TRUE, overlap |-> TRUE, sync |-> FALSE, permits |-> 1,
     size |-> size, cap |-> cap, hash |-> Opposite, arrival |-> arrival,
     steps |-> steps, useSets |-> useSets]

\* By buckets and without; in one bucket and in two; with the same arrivals
\* and with others; and both ways at once.
AllSetups == {
    Sync(TRUE, Distinct, 4, 2, All),
    Sync(TRUE, Distinct, 4, 1, Some),
    Sync(TRUE, Tied, 2, 1, All),
    Sync(TRUE, Telling, 3, 1, Some),
    Sync(TRUE, Telling, 7, 2, Some),
    Sync(FALSE, Telling, 3, 1, Some),
    Overlap(Distinct, 4, Alike, 1, Some),
    Overlap(Distinct, 6, Alike, 2, All),
    Overlap(Tied, 2, Opposite, 1, Some),
    [Overlap(Distinct, 4, Alike, 1, Some) EXCEPT !.bucketed = FALSE],
    [Overlap(Distinct, 4, Alike, 1, Some) EXCEPT !.permits = 0],
    [Overlap(Distinct, 6, Alike, 1, Some) EXCEPT !.sync = TRUE]}

\* A bucket of one parameter that is as long as the bucket of the other two.
AsLong == {Sync(TRUE, Distinct, 4, 1, All)}
=============================================================================
