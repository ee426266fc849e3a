------------------------------ MODULE MCTcpP2P ------------------------------
(***************************************************************************)
(* Instances of TcpP2P for TLC.                                            *)
(***************************************************************************)
EXTENDS TcpP2P, TLC

Chan(s, d, g) == [src |-> s, dst |-> d, tag |-> g]

TwoRanks == 0 .. 1

\* A channel used as documented, the way back under the same tag on which
\* calls to the store fail, and a burst under another tag.
Ack == Chan(0, 1, 7)
Lossy == Chan(1, 0, 7)
Burst == Chan(0, 1, 8)

Three == {Ack, Lossy, Burst}
AckOnly == {Ack}
SomeFaults ==
    Ack :> {} @@ Lossy :> {"post", "delete", "timeout"} @@ Burst :> {"timeout"}

BurstOnly == {Burst}
NoChannel == {}
NoFaults == Burst :> {}
=============================================================================
