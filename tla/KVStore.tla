------------------------------ MODULE KVStore ------------------------------
(***************************************************************************)
(* What the distributed key-value store promises its callers, whatever     *)
(* implements it: every operation of the trait Store takes effect at one   *)
(* instant, at most once, after it was called and, if it returned without  *)
(* an error, before it returned.  A call that ended in an error (a client  *)
(* timeout) may have taken effect, may never, and may still do so later.   *)
(*                                                                         *)
(* Two clauses are weaker than the trait's one-line comments, because the  *)
(* TCP server is: a compare_and_swap that expects a value and finds no key *)
(* leaves the key behind with an empty value, and a key whose time to live *)
(* has run out may, until it is swept, refuse to be created and swallow    *)
(* increments.                                                             *)
(***************************************************************************)
EXTENDS StoreRequests

CONSTANT Calls    \* one identity per call of a store operation

VARIABLES
    dict,     \* the value of every key, Absent if it has none
    mortal,   \* the keys that were given a time to live
    call,     \* the progress of every call
    client    \* what its caller has seen of it

vars == <<dict, mortal, call, client>>

NoCall == [st |-> "none"]
Pending(r) == [st |-> "pending", req |-> r, left |-> r.keys, count |-> 0]
Done(res) == [st |-> "done", res |-> res]

Init ==
    /\ dict = [k \in Keys |-> Absent]
    /\ mortal = {}
    /\ call = [c \in Calls |-> NoCall]
    /\ client = [c \in Calls |-> "idle"]

Call(c, r) ==
    /\ client[c] = "idle"
    /\ client' = [client EXCEPT ![c] = "waiting"]
    /\ call' = [call EXCEPT ![c] = Pending(r)]
    /\ UNCHANGED <<dict, mortal>>

\* The caller is told the result, and the call is over.
Return(c) ==
    /\ client[c] = "waiting" /\ call[c].st = "done"
    /\ client' = [client EXCEPT ![c] = "ok"]
    /\ call' = [call EXCEPT ![c] = NoCall]
    /\ UNCHANGED <<dict, mortal>>

\* The caller is told of an error, and the call goes on all the same.
Fail(c) ==
    /\ client[c] \in {"idle", "waiting"}
    /\ client' = [client EXCEPT ![c] = "error"]
    /\ UNCHANGED <<dict, mortal, call>>

\* A call is dropped, before or after it took effect; its caller never
\* sees more than an error.
Drop(c) ==
    /\ call[c].st # "none"
    /\ client' = [client EXCEPT ![c] = "error"]
    /\ call' = [call EXCEPT ![c] = NoCall]
    /\ UNCHANGED <<dict, mortal>>

Finish(c, res) ==
    /\ call' = [call EXCEPT ![c] = Done(res)]
    /\ UNCHANGED client

Write(k, v, ttl) ==
    /\ dict' = [dict EXCEPT ![k] = v]
    /\ mortal' = IF ttl THEN mortal \union {k} ELSE mortal \ {k}

Read(c, r) ==
    /\ \/ r.op = "get" /\ Finish(c, dict[r.keys[1]])
       \/ r.op = "contains" /\ Finish(c, dict[r.keys[1]] # Absent)
    /\ UNCHANGED <<dict, mortal>>

Update(c, r) ==
    /\ \/ r.op = "set" /\ Write(r.keys[1], r.val, FALSE)
       \/ r.op = "set_with_expiry" /\ Write(r.keys[1], r.val, TRUE)
       \/ r.op = "delete" /\ Write(r.keys[1], Absent, FALSE)
    /\ Finish(c, "ok")

\* It succeeds only on the value it expects, and then stores its own.  Where
\* it fails the store is as it was, but for a key left behind empty.
CompareAndSwap(c, r) ==
    LET k == r.keys[1] IN
    /\ r.op = "compare_and_swap"
    /\ \/ /\ dict[k] = r.expected
          /\ Write(k, r.val, FALSE)
          /\ Finish(c, TRUE)
       \/ /\ dict[k] # r.expected \/ (r.expected = Absent /\ k \in mortal)
          /\ \/ UNCHANGED <<dict, mortal>>
             \/ dict[k] = Absent /\ Write(k, Empty, FALSE)
          /\ Finish(c, FALSE)

\* A counter grows by the increment, and the caller gets the sum.  A value
\* that is no counter stays, and 0 is returned; a lapsed key stays lapsed.
Add(c, r) ==
    LET k == r.keys[1]
        old == IF dict[k] = Absent THEN 0 ELSE dict[k]
        sum == (old + r.val) % Modulus
    IN
    /\ r.op = "add"
    /\ \/ /\ dict[k] \in Words \union {Absent}
          /\ dict' = [dict EXCEPT ![k] = sum]
          /\ mortal' = IF dict[k] = Absent THEN mortal \ {k} ELSE mortal
          /\ Finish(c, sum)
       \/ /\ dict[k] \in Blobs
          /\ Finish(c, 0)
          /\ UNCHANGED <<dict, mortal>>
       \/ /\ dict[k] = Absent /\ k \in mortal
          /\ \E stale \in Words : Finish(c, stale)
          /\ UNCHANGED <<dict, mortal>>

\* num_keys counts key by key, each as it is at some instant of the call: the
\* sum need not be the number of keys there are at any one of them.
Count(c, r) ==
    LET left == call[c].left IN
    /\ r.op = "num_keys"
    /\ \/ left = <<>> /\ Finish(c, call[c].count)
       \/ /\ left # <<>>
          /\ call' = [call EXCEPT ![c].left = Tail(left),
                                 ![c].count = @ + IF dict[Head(left)] = Absent THEN 0 ELSE 1]
          /\ UNCHANGED client
    /\ UNCHANGED <<dict, mortal>>

\* wait goes from key to key: each was there at some instant of the call,
\* not all of them at the same one.
AwaitKey(c) ==
    LET left == call[c].left IN
    /\ left # <<>> /\ dict[Head(left)] # Absent
    /\ call' = [call EXCEPT ![c].left = Tail(left)]
    /\ UNCHANGED <<dict, mortal, client>>

AwaitDone(c) ==
    /\ call[c].left = <<>>
    /\ Finish(c, "ok")
    /\ UNCHANGED <<dict, mortal>>

Apply(c) ==
    /\ call[c].st = "pending"
    /\ LET r == call[c].req IN
       \/ Read(c, r) \/ Count(c, r) \/ Update(c, r) \/ CompareAndSwap(c, r) \/ Add(c, r)
       \/ r.op = "wait" /\ (AwaitKey(c) \/ AwaitDone(c))

\* The time to live of a key runs out; later its remains are swept.
Lapse(k) ==
    /\ k \in mortal /\ dict[k] # Absent
    /\ dict' = [dict EXCEPT ![k] = Absent]
    /\ UNCHANGED <<mortal, call, client>>

Sweep(k) ==
    /\ k \in mortal /\ dict[k] = Absent
    /\ mortal' = mortal \ {k}
    /\ UNCHANGED <<dict, call, client>>

Next ==
    \/ \E c \in Calls : \/ \E r \in Requests : Call(c, r)
                        \/ Return(c) \/ Fail(c) \/ Drop(c) \/ Apply(c)
    \/ \E k \in Keys : Lapse(k) \/ Sweep(k)

Spec == Init /\ [][Next]_vars
=============================================================================
