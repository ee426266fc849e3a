---------------------------- MODULE MCTcpEngine ----------------------------
(***************************************************************************)
(* Instances of TcpEngine for TLC.                                         *)
(***************************************************************************)
EXTENDS TcpEngine, TLC

C(kind, ns, root, buf) == [kind |-> kind, ns |-> ns, root |-> root, buf |-> buf]

ThreeRanks == 0 .. 2
TwoRanks == 0 .. 1

\* One task in each of three ranks; all issue the same collective.
WorldOfThree == "world" :> ThreeRanks
OneTaskEach == [t \in ThreeRanks |-> t]
ReduceOnly == [t \in ThreeRanks |-> <<C("all_reduce", "world", 0, "a")>>]

\* One task in each of two ranks, and collectives of both ways to take a tag.
OneWorld == "world" :> TwoRanks
OneTaskOfTwo == [t \in TwoRanks |-> t]
BroadcastThenReduce ==
    [t \in TwoRanks |-> <<C("broadcast", "world", 1, "a"), C("reduce", "world", 0, "b")>>]

\* Two ranks, as the world and as a group, and rank 0 as a group of its own.
\* Each has a main task and a background task; the background task issues the
\* collectives of the pair.
Pairs == "pair" :> TwoRanks @@ "solo" :> {0} @@ "world" :> TwoRanks
TwoTasksEach == [t \in 0 .. 3 |-> t % 2]
MainAndBackground ==
    [t \in 0 .. 3 |->
        IF t < 2
        THEN <<C("all_gather", "world", 0, "a"), C("barrier", "world", 0, "b"),
               C("all_gather", "solo", 0, "c"), C("scatter", "world", 1, "d")>>
        ELSE <<C("all_gather", "pair", 0, "e"), C("all_to_all", "pair", 0, "f")>>]

\* Two ranks, of which rank 1 leaves out the first collective.
OutOfStep == 0 :> <<C("all_reduce", "world", 0, "a"), C("all_reduce", "world", 0, "b")>>
          @@ 1 :> <<C("all_reduce", "world", 0, "b")>>

\* The programs of which BuffersMatch is expected to hold, and not to hold.
ASSUME ContractKept ==
    /\ Program = MainAndBackground => KeepsContract
    /\ Program = OutOfStep => ~KeepsContract
=============================================================================
