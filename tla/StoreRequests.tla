--------------------------- MODULE StoreRequests ---------------------------
(***************************************************************************)
(* Keys, values and requests of the key-value store (trait Store).         *)
(***************************************************************************)
EXTENDS Integers, Sequences, FiniteSets

CONSTANTS
    Keys,       \* the keys
    Blobs,      \* values that are not eight bytes long
    Empty,      \* the empty value, one of Blobs
    Absent,     \* what get returns for a key that is not there
    Modulus,    \* 2^64 in the code: counters wrap
    Requests    \* the requests the callers may issue

\* Eight bytes are read as a counter by add, whoever wrote them.
Words == 0 .. (Modulus - 1)
Values == Words \union Blobs

(***************************************************************************)
(* A request is a record: the operation, the keys it names, the value it   *)
(* carries (for add the increment) and the value compare_and_swap expects, *)
(* Absent for None.  The keys of num_keys are all there are, in the order  *)
(* in which the map is iterated.                                           *)
(***************************************************************************)
ASSUME RequestAssumption ==
    /\ Modulus \in Nat \ {0}
    /\ Empty \in Blobs
    /\ Absent \notin Values
    /\ \A r \in Requests :
          /\ r.op \in {"set", "set_with_expiry", "get", "wait", "delete",
                       "num_keys", "contains", "compare_and_swap", "add"}
          /\ r.keys \in Seq(Keys)
          /\ r.op \notin {"wait", "num_keys"} => Len(r.keys) = 1
          /\ r.op = "num_keys" => \A k \in Keys : \E i \in 1 .. Len(r.keys) :
                r.keys[i] = k /\ \A j \in 1 .. Len(r.keys) \ {i} : r.keys[j] # k
          /\ r.op \in {"set", "set_with_expiry", "compare_and_swap"} => r.val \in Values
          /\ r.op = "add" => r.val \in Words
          /\ r.op = "compare_and_swap" => r.expected \in Values \union {Absent}
=============================================================================
