------------------------------ MODULE TcpStore ------------------------------
(***************************************************************************)
(* The TCP store: one server process keeps the entries in a concurrent     *)
(* map and serves every connection in a task of its own; a client opens a  *)
(* connection for each operation, sends one request and waits for one      *)
(* reply, or gives up when its timeout elapses, while the server's task    *)
(* goes on.                                                                *)
(*                                                                         *)
(* A step of a server task is what it does between two accesses to state   *)
(* that other tasks share: reading or changing one entry, looking up the   *)
(* waiters of a key, going to sleep.  Time is abstracted: an entry with a  *)
(* time to live expires at any moment, a client's timeout elapses at any   *)
(* moment.                                                                 *)
(***************************************************************************)
EXTENDS StoreRequests

CONSTANTS
    Conns,      \* the connections, one for each operation of a client
    RequestsOf  \* the requests a connection may be opened for

ASSUME ConnAssumption == RequestsOf \in [Conns -> SUBSET Requests]

VARIABLES
    entry,      \* DashMap<String, StoreEntry>: the value and expiry of a key
    waiters,    \* DashMap<String, Arc<Notify>>: the keys that have a Notify
    running,    \* AtomicBool of the server: cleared by shutdown
    listening,  \* whether the accept loop still holds the listener
    task,       \* the server's side of each connection
    client      \* the client's side of each connection

vars == <<entry, waiters, running, listening, task, client>>

NoEntry == [val |-> Absent, expiry |-> "none"]
StoreEntry(v, ttl) == [val |-> v, expiry |-> IF ttl THEN "ahead" ELSE "none"]
NoTask == [st |-> "none"]

Exists(k) == entry[k] # NoEntry
IsExpired(k) == entry[k].expiry = "past"
Live(k) == Exists(k) /\ ~IsExpired(k)
Lookup(k) == IF Live(k) THEN entry[k].val ELSE Absent

TypeOK ==
    /\ entry \in [Keys -> [val : Values, expiry : {"none", "ahead", "past"}]
                            \union {NoEntry}]
    /\ waiters \subseteq Keys
    /\ running \in BOOLEAN /\ listening \in BOOLEAN
    /\ running => listening
    /\ client \in [Conns -> {"idle", "waiting", "ok", "error"}]
    /\ \A c \in Conns :
          /\ client[c] \in {"idle", "ok"} => task[c] = NoTask
          /\ task[c].st \in {"none", "queued", "serving", "register", "park",
                             "parked", "notify", "replied"}
          /\ task[c].st # "none" => task[c].req \in Requests
          /\ task[c].st \in {"register", "park", "parked"} => task[c].left # <<>>

Init ==
    /\ entry = [k \in Keys |-> NoEntry]
    /\ waiters = {}
    /\ running = TRUE /\ listening = TRUE
    /\ task = [c \in Conns |-> NoTask]
    /\ client = [c \in Conns |-> "idle"]
-----------------------------------------------------------------------------
(* The client: TcpStore::send_message.                                      *)

\* It connects, which the kernel completes while there is a listener, even
\* before the server accepts, and writes the request; or it is refused, or
\* its timeout elapses first.
Connect(c, r) ==
    /\ client[c] = "idle"
    /\ \/ /\ listening
          /\ client' = [client EXCEPT ![c] = "waiting"]
          /\ task' = [task EXCEPT ![c] = [st |-> "queued", req |-> r,
                                           left |-> r.keys, count |-> 0]]
       \/ /\ client' = [client EXCEPT ![c] = "error"]
          /\ UNCHANGED task
    /\ UNCHANGED <<entry, waiters, running, listening>>

\* send_message returns, and the server's task ends with its connection.
ReadReply(c) ==
    /\ client[c] = "waiting" /\ task[c].st = "replied"
    /\ client' = [client EXCEPT ![c] = "ok"]
    /\ task' = [task EXCEPT ![c] = NoTask]
    /\ UNCHANGED <<entry, waiters, running, listening>>

\* tokio_timeout elapses: the socket is dropped, the request is not recalled.
TimeOut(c) ==
    /\ client[c] = "waiting"
    /\ client' = [client EXCEPT ![c] = "error"]
    /\ UNCHANGED <<entry, waiters, running, listening, task>>

\* The TcpStore that runs the server is dropped.
Shutdown ==
    /\ running
    /\ running' = FALSE
    /\ UNCHANGED <<entry, waiters, listening, task, client>>
-----------------------------------------------------------------------------
(* The server's loops: TcpStoreServer::start.                               *)

\* The loop looks at running only after it has accepted: once shut down it
\* serves one more connection, then drops the listener.
Accept(c) ==
    /\ listening /\ task[c].st = "queued"
    /\ task' = [task EXCEPT ![c].st = "serving"]
    /\ listening' = running
    /\ UNCHANGED <<entry, waiters, running, client>>

\* The kernel resets the connections the dropped listener had not accepted.
Reset(c) ==
    /\ ~listening /\ task[c].st = "queued"
    /\ task' = [task EXCEPT ![c] = NoTask]
    /\ client' = [client EXCEPT ![c] = "error"]
    /\ UNCHANGED <<entry, waiters, running, listening>>

\* retain visits the entries one by one and removes the expired ones.  (The
\* cleanup task looks at running before it sleeps, so it outlives a shutdown.)
Cleanup(k) ==
    /\ IsExpired(k)
    /\ entry' = [entry EXCEPT ![k] = NoEntry]
    /\ UNCHANGED <<waiters, running, listening, task, client>>

\* A task whose client is gone ends when it has replied.
HangUp(c) ==
    /\ client[c] = "error" /\ task[c].st = "replied"
    /\ task' = [task EXCEPT ![c] = NoTask]
    /\ UNCHANGED <<entry, waiters, running, listening, client>>

\* The clock passes the expiry of an entry.
Expire(k) ==
    /\ entry[k].expiry = "ahead"
    /\ entry' = [entry EXCEPT ![k].expiry = "past"]
    /\ UNCHANGED <<waiters, running, listening, task, client>>
-----------------------------------------------------------------------------
(* The server's task for one connection: process_message.                   *)

Reply(c, res) == task' = [task EXCEPT ![c] = [st |-> "replied", req |-> @.req, res |-> res]]

\* Mutant: a write tells nobody.
ReplyOnly(c, res) == Reply(c, res)

\* The reply that will be sent once the waiters have been looked up.
ReplyAfterNotify(c, res) ==
    task' = [task EXCEPT ![c] = [st |-> "notify", req |-> @.req, res |-> res]]

Serving(c, op) == task[c].st = "serving" /\ task[c].req.op = op
Key(c) == task[c].req.keys[1]
UnchangedButEntry == UNCHANGED <<waiters, running, listening, client>>

Query(c) ==
    /\ \/ Serving(c, "get") /\ Reply(c, Lookup(Key(c)))
       \/ Serving(c, "contains") /\ Reply(c, Live(Key(c)))
    /\ UNCHANGED entry /\ UnchangedButEntry

\* num_keys iterates over the map, which locks one part of it at a time.
NumKeys(c) ==
    LET left == task[c].left IN
    /\ Serving(c, "num_keys")
    /\ \/ left = <<>> /\ Reply(c, task[c].count)
       \/ /\ left # <<>>
          /\ task' = [task EXCEPT ![c].left = Tail(left),
                                 ![c].count = @ + IF Live(Head(left)) THEN 1 ELSE 0]
    /\ UNCHANGED entry /\ UnchangedButEntry

Set(c) ==
    /\ Serving(c, "set") \/ Serving(c, "set_with_expiry")
    /\ LET r == task[c].req IN
       entry' = [entry EXCEPT ![Key(c)] = StoreEntry(r.val, r.op = "set_with_expiry")]
    /\ ReplyAfterNotify(c, "ok")
    /\ UnchangedButEntry

Delete(c) ==
    /\ Serving(c, "delete")
    /\ entry' = [entry EXCEPT ![Key(c)] = NoEntry]
    /\ Reply(c, "ok")
    /\ UnchangedButEntry

\* Mutant: an expired value still matches.
MatchesStale(k, e) == e # Absent /\ Exists(k) /\ entry[k].val = e

Matches(k, e) == e # Absent /\ Live(k) /\ entry[k].val = e

\* One locked access to the entry.  An expired entry is neither matched nor
\* replaced, and a swap that expects a value creates the key it does not find.
CompareAndSwap(c) ==
    LET r == task[c].req
        k == Key(c)
        swaps == Matches(k, r.expected)
        creates == ~Exists(k) /\ r.expected = Absent
    IN
    /\ Serving(c, "compare_and_swap")
    /\ \/ /\ swaps \/ creates
          /\ entry' = [entry EXCEPT ![k] = StoreEntry(r.val, FALSE)]
          /\ ReplyAfterNotify(c, TRUE)
       \/ /\ ~swaps /\ ~creates
          /\ entry' = IF Exists(k) THEN entry
                      ELSE [entry EXCEPT ![k] = StoreEntry(Empty, FALSE)]
          /\ Reply(c, FALSE)
    /\ UnchangedButEntry

\* Mutant: the sum leaves the range of 64 bits.
PlainAdd(m, n) == m + n

WrappingAdd(m, n) == (m + n) % Modulus

\* One locked access too.  The sum wraps (wrapping_add) and keeps the expiry.
Add(c) ==
    LET r == task[c].req
        k == Key(c)
        old == entry[k].val
        new == IF ~Exists(k) THEN r.val
               ELSE IF Live(k) /\ old \in Words THEN WrappingAdd(old, r.val)
               ELSE old
    IN
    /\ Serving(c, "add")
    /\ entry' = [entry EXCEPT ![k].val = new]
    /\ ReplyAfterNotify(c, IF new \in Words THEN new ELSE 0)
    /\ UnchangedButEntry

\* notify_waiters wakes the tasks asleep on the key, and only those; it is
\* not called if the key has no Notify.
Notify(c) ==
    LET woken == IF Key(c) \notin waiters THEN {}
                 ELSE {d \in Conns : /\ task[d].st = "parked"
                                     /\ Head(task[d].left) = Key(c)}
    IN
    /\ task[c].st = "notify"
    /\ task' = [d \in Conns |-> IF d = c THEN [task[c] EXCEPT !.st = "replied"]
                                ELSE IF d \in woken THEN [task[d] EXCEPT !.st = "serving"]
                                ELSE task[d]]
    /\ UNCHANGED entry /\ UnchangedButEntry

\* wait takes its keys in turn: the next key is there, or the task gets the
\* key's Notify, creates the future, and sleeps until a notification.
WaitCheck(c) ==
    LET left == task[c].left IN
    /\ Serving(c, "wait")
    /\ \/ left = <<>> /\ Reply(c, "ok")
       \/ left # <<>> /\ Live(Head(left)) /\ task' = [task EXCEPT ![c].left = Tail(left)]
       \/ left # <<>> /\ ~Live(Head(left)) /\ task' = [task EXCEPT ![c].st = "register"]
    /\ UNCHANGED entry /\ UnchangedButEntry

\* Mutant: the task sleeps on a Notify that is not in the map.
WaitUnregistered(c) ==
    /\ task[c].st = "register"
    /\ task' = [task EXCEPT ![c].st = "park"]
    /\ UNCHANGED <<entry, waiters, running, listening, client>>

WaitRegister(c) ==
    /\ task[c].st = "register"
    /\ waiters' = waiters \union {Head(task[c].left)}
    /\ task' = [task EXCEPT ![c].st = "park"]
    /\ UNCHANGED <<entry, running, listening, client>>

WaitPark(c) ==
    /\ task[c].st = "park"
    /\ task' = [task EXCEPT ![c].st = "parked"]
    /\ UNCHANGED entry /\ UnchangedButEntry

ServerStep(c) ==
    \/ Query(c) \/ NumKeys(c) \/ Set(c) \/ Delete(c) \/ CompareAndSwap(c) \/ Add(c) \/ Notify(c)
    \/ WaitCheck(c) \/ WaitRegister(c) \/ WaitPark(c)
-----------------------------------------------------------------------------
Next ==
    \/ \E c \in Conns : \/ \E r \in RequestsOf[c] : Connect(c, r)
                        \/ ReadReply(c) \/ TimeOut(c)
                        \/ Accept(c) \/ Reset(c) \/ HangUp(c) \/ ServerStep(c)
    \/ \E k \in Keys : Cleanup(k) \/ Expire(k)
    \/ Shutdown

\* The runtime polls every task that can go on and the accept loop; nothing
\* forces a client to call, a timeout to elapse or a key to be set.
Fairness == \A c \in Conns : WF_vars(Accept(c)) /\ WF_vars(ServerStep(c))

Spec == Init /\ [][Next]_vars
FairSpec == Spec /\ Fairness
-----------------------------------------------------------------------------
(* Properties.                                                              *)

\* A task that sleeps on a key, or is about to, has its key in the map of
\* waiters: the map's entries are never removed, so a notification that looks
\* the key up after the future exists finds it (tcp.rs, Wait and Set).
SleepersAreRegistered ==
    \A c \in Conns : task[c].st \in {"park", "parked"} => Head(task[c].left) \in waiters

AsleepOn(c, k) == task[c].st = "parked" /\ Head(task[c].left) = k

\* The connections that may carry a wait.
Waiters == {c \in Conns : \E r \in RequestsOf[c] : r.op = "wait"}

\* A task asleep on a key that is not there wakes if the key is written,
\* however briefly: no write slips past a sleeper.  (A key that a failed swap
\* left behind empty does not count: nobody is notified of it.)
SleepersAreWoken ==
    \A c \in Waiters, k \in Keys :
        []((AsleepOn(c, k) /\ ~Exists(k) /\ <>(Live(k) /\ entry[k].val # Empty))
            => <>(task[c].st # "parked"))

\* store_trait.rs:16 of wait, "Wait for a key to become available": a wait the
\* server has taken up is answered if, from some point on, every key is there.
WaitIsAnswered ==
    \A c \in Waiters :
        []((Serving(c, "wait") /\ <>[](\A k \in Keys : Live(k)))
            => <>(task[c].st = "replied"))

-----------------------------------------------------------------------------
(* The TCP store is a KVStore: a task's effect on the entries is the instant *)
(* at which its operation takes effect; registering, sleeping, notifying,    *)
(* accepting and shutting down are invisible.                                *)

AbstractCall(c) ==
    CASE task[c].st = "none" -> [st |-> "none"]
      [] task[c].st \in {"notify", "replied"} -> [st |-> "done", res |-> task[c].res]
      [] OTHER -> [st |-> "pending", req |-> task[c].req,
                      left |-> task[c].left, count |-> task[c].count]

KV == INSTANCE KVStore WITH
    Calls <- Conns,
    dict <- [k \in Keys |-> Lookup(k)],
    mortal <- {k \in Keys : entry[k].expiry # "none"},
    call <- [c \in Conns |-> AbstractCall(c)],
    client <- client

\* Every behaviour of the server and its clients, with timeouts, expiry and
\* shutdown, is one of the atomic store of KVStore.
ImplementsKVStore == KV!Spec
=============================================================================
