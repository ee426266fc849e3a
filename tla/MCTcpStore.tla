----------------------------- MODULE MCTcpStore -----------------------------
(***************************************************************************)
(* Instances of TcpStore for TLC: two keys, two counters (so that one      *)
(* increment wraps), one value that is no counter besides the empty one,   *)
(* and three connections: one waits, one writes, one reads or writes.      *)
(***************************************************************************)
EXTENDS TcpStore, TLC

CONSTANTS k1, k2, blob, c1, c2, c3

Plain(op, keys) == [op |-> op, keys |-> keys]
Carrying(op, k, v) == [op |-> op, keys |-> <<k>>, val |-> v]
Swap(e, v) == [op |-> "compare_and_swap", keys |-> <<k1>>, expected |-> e, val |-> v]

Waits == {Plain("wait", <<k1, k2>>)}

Writes == {Carrying("set_with_expiry", k1, blob), Plain("delete", <<k1>>),
           Swap(Absent, 1), Swap(1, blob), Carrying("set", k2, blob)}

Rivals == {Carrying("set_with_expiry", k1, 1), Carrying("add", k1, 1), Plain("get", <<k1>>),
           Plain("contains", <<k1>>), Plain("num_keys", <<k2, k1>>)}

\* Every operation, against a wait and against one another.
AllRequests == Waits \union Writes \union Rivals
AllRequestsOf == c1 :> Waits @@ c2 :> Writes @@ c3 :> Rivals

\* A wait against the write of its key.
WaitOrSet == {Plain("wait", <<k1>>), Carrying("set", k1, 1)}
WaitOrSetOf == c1 :> WaitOrSet @@ c2 :> WaitOrSet
=============================================================================
