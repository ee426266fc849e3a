------------------------------- MODULE TcpP2P -------------------------------
(***************************************************************************)
(* Point-to-point messages over the TCP store.  A message for a            *)
(* destination and a tag is the value of one key: send sets it, recv polls *)
(* it and then deletes it, in two calls of the store.  Group sends and     *)
(* receives translate their ranks and use the same keys.                   *)
(*                                                                         *)
(* Every channel has a task that sends and a task that receives, one call  *)
(* after the other.  The store is the atomic one of KVStore.  A call to it *)
(* that ends in an error is applied at once, later or never; a master that *)
(* died is one whose calls all end so.                                     *)
(***************************************************************************)
EXTENDS Integers, FiniteSets, Sequences

CONSTANTS
    Ranks,      \* the ranks
    Tags,       \* the tags of messages
    Channels,   \* the sources, destinations and tags in use
    Acked,      \* channels used as documented: one message in flight
    Faults,     \* of "post", "delete", "timeout", for every channel
    MaxCalls,   \* bound: the sends of a channel, and the messages taken
    NoMessage   \* the value of a key that is absent

Channel == [src : Ranks, dst : Ranks, tag : Tags]

ASSUME P2PAssumption ==
    /\ Channels \subseteq Channel
    /\ Acked \subseteq Channels
    /\ Faults \in [Channels -> SUBSET {"post", "delete", "timeout"}]
    /\ MaxCalls \in Nat
    /\ NoMessage \notin [chan : Channels, num : Nat]

VARIABLES
    store,      \* the values of the keys
    late,       \* sets and deletes given up on that the server may yet apply
    sent,       \* how often send was called
    sending,    \* whether a send is under way
    receiving,  \* where recv is: "idle", "poll", "delete"
    inHand,     \* the message that recv has read
    taken       \* the messages that recv has consumed, in order

vars == <<store, late, sent, sending, receiving, inHand, taken>>

Message == [chan : Channels, num : Nat]
Value == Message \union {NoMessage}
Keys == Ranks \X Ranks \X Tags

\* A delete is the write of NoMessage.
Write == [key : Keys, value : Value]

Msg(c, n) == [chan |-> c, num |-> n]

\* Mutants: the key names no tag; the receiver swaps source and destination.
SendKeyOfNoTag(c) == <<c.src, c.dst, CHOOSE g \in Tags : TRUE>>
RecvKeySwapped(c) == <<c.dst, c.src, c.tag>>

\* torsh/p2p/{self}_{dst}_{tag} and torsh/p2p/{src}_{self}_{tag}.
SendKey(c) == <<c.src, c.dst, c.tag>>
RecvKey(c) == <<c.src, c.dst, c.tag>>

Posting(c) == [key |-> SendKey(c), value |-> Msg(c, sent[c])]
Deletion(c) == [key |-> RecvKey(c), value |-> NoMessage]

Apply(w) == store' = [store EXCEPT ![w.key] = w.value]

\* The call ends in an error, before, after or without its effect.
Unanswered(w) ==
    \/ Apply(w) /\ UNCHANGED late
    \/ late' = late \union {w} /\ UNCHANGED store
    \/ UNCHANGED <<store, late>>
-----------------------------------------------------------------------------
Init ==
    /\ store = [k \in Keys |-> NoMessage]
    /\ late = {}
    /\ sent = [c \in Channels |-> 0]
    /\ sending = [c \in Channels |-> FALSE]
    /\ receiving = [c \in Channels |-> "idle"]
    /\ inHand = [c \in Channels |-> NoMessage]
    /\ taken = [c \in Channels |-> <<>>]

\* Mutant: nobody waits for the matching recv.
MaySendAnyway(c) == TRUE

\* On an acked channel a send waits until the one before it was received.
MaySend(c) == c \in Acked => sent[c] = Len(taken[c])

BeginSend(c) ==
    /\ ~sending[c] /\ sent[c] < MaxCalls /\ MaySend(c)
    /\ sending' = [sending EXCEPT ![c] = TRUE]
    /\ sent' = [sent EXCEPT ![c] = @ + 1]
    /\ UNCHANGED <<store, late, receiving, inHand, taken>>

\* send_any: store_set succeeds.
Post(c) ==
    /\ sending[c]
    /\ Apply(Posting(c))
    /\ sending' = [sending EXCEPT ![c] = FALSE]
    /\ UNCHANGED <<late, sent, receiving, inHand, taken>>

\* An attempt of store_set fails, and it tries again.
PostAgain(c) ==
    /\ "post" \in Faults[c]
    /\ sending[c]
    /\ Unanswered(Posting(c))
    /\ UNCHANGED <<sent, sending, receiving, inHand, taken>>

\* store_set gives up, and send returns the error.
GiveUpSend(c) ==
    /\ "post" \in Faults[c]
    /\ sending[c]
    /\ Unanswered(Posting(c))
    /\ sending' = [sending EXCEPT ![c] = FALSE]
    /\ UNCHANGED <<sent, receiving, inHand, taken>>

BeginRecv(c) ==
    /\ receiving[c] = "idle" /\ Len(taken[c]) < MaxCalls
    /\ receiving' = [receiving EXCEPT ![c] = "poll"]
    /\ UNCHANGED <<store, late, sent, sending, inHand, taken>>

\* recv_bytes: poll_get finds the message.
Get(c) ==
    /\ receiving[c] = "poll" /\ store[RecvKey(c)] # NoMessage
    /\ inHand' = [inHand EXCEPT ![c] = store[RecvKey(c)]]
    /\ receiving' = [receiving EXCEPT ![c] = "delete"]
    /\ UNCHANGED <<store, late, sent, sending, taken>>

PollTimeout(c) ==
    /\ "timeout" \in Faults[c]
    /\ receiving[c] = "poll"
    /\ receiving' = [receiving EXCEPT ![c] = "idle"]
    /\ UNCHANGED <<store, late, sent, sending, inHand, taken>>

\* recv has the message, whether or not the caller accepts its type and shape.
Take(c) ==
    /\ taken' = [taken EXCEPT ![c] = Append(@, inHand[c])]
    /\ inHand' = [inHand EXCEPT ![c] = NoMessage]
    /\ receiving' = [receiving EXCEPT ![c] = "idle"]
    /\ UNCHANGED <<sent, sending>>

\* Mutant: recv leaves the message where it is.
DeleteNothing(c) == receiving[c] = "delete" /\ UNCHANGED <<store, late>> /\ Take(c)

Delete(c) == receiving[c] = "delete" /\ Apply(Deletion(c)) /\ UNCHANGED late /\ Take(c)

\* The delete fails, and recv ignores it.
DeleteFails(c) ==
    /\ "delete" \in Faults[c]
    /\ receiving[c] = "delete"
    /\ Unanswered(Deletion(c))
    /\ Take(c)

\* The server applies a request whose client has given up on it; of equal
\* requests one is kept.
LateWrite(w) ==
    /\ w \in late
    /\ Apply(w)
    /\ late' = late \ {w}
    /\ UNCHANGED <<sent, sending, receiving, inHand, taken>>

SendStep(c) == Post(c) \/ GiveUpSend(c)
RecvStep(c) == Get(c) \/ PollTimeout(c) \/ Delete(c) \/ DeleteFails(c)

Next ==
    \/ \E c \in Channels : BeginSend(c) \/ PostAgain(c) \/ SendStep(c)
    \/ \E c \in Channels : BeginRecv(c) \/ RecvStep(c)
    \/ \E w \in late : LateWrite(w)

Spec == Init /\ [][Next]_vars

\* A call that was made goes on until it returns; nobody is bound to make one.
FairSpec == Spec /\ \A c \in Channels : WF_vars(SendStep(c)) /\ WF_vars(RecvStep(c))
-----------------------------------------------------------------------------
(* Properties.                                                              *)

TypeOK ==
    /\ store \in [Keys -> Value]
    /\ late \subseteq Write
    /\ sent \in [Channels -> 0 .. MaxCalls]
    /\ sending \in [Channels -> BOOLEAN]
    /\ receiving \in [Channels -> {"idle", "poll", "delete"}]
    /\ inHand \in [Channels -> Value]
    /\ taken \in [Channels -> Seq(Message)]

\* Channels whose sets and deletes are answered, and those of them that are
\* used as documented.
Steady == {c \in Channels : Faults[c] \subseteq {"timeout"}}
Kept == Steady \intersect Acked

\* What recv returns was sent to this rank by that source under that tag,
\* whatever was late or lost, and however the other channels are used.
TakenFrom(c) ==
    \A i \in 1 .. Len(taken[c]) : taken[c][i].chan = c /\ taken[c][i].num \in 1 .. sent[c]
TakenWasSent == \A c \in Channels : TakenFrom(c)

\* A channel whose calls are answered never hands out a message twice, nor an
\* old one after a newer, not even when messages overtake the recv.
Increasing(c) ==
    \A i, j \in 1 .. Len(taken[c]) : i < j => taken[c][i].num < taken[c][j].num
InOrder == \A c \in Steady : Increasing(c)

\* On a channel used as documented send and recv are a mailbox.
InFlight(c) == IF receiving[c] = "delete" THEN inHand[c] ELSE store[RecvKey(c)]
Sendable == {Msg(c, n) : c \in Kept, n \in 1 .. MaxCalls}
Box == INSTANCE Mailbox WITH
    Channels <- Kept, Messages <- Sendable,
    box <- [c \in Kept |-> InFlight(c)], taken <- [c \in Kept |-> taken[c]]
ImplementsMailbox == Box!Spec

\* There, a recv that can fail of nothing gets the message that was sent.
Delivered ==
    \A c \in {d \in Acked : Faults[d] = {}} :
        (sent[c] > Len(taken[c]) /\ receiving[c] # "idle") ~> sent[c] = Len(taken[c])

\* collectives.rs:548-549: a second send before the matching recv "overwrites
\* the first message", so the message sent last is there or was received.
NewestIsThere ==
    \A c \in Steady : sent[c] > 0 /\ ~sending[c] =>
        \/ store[SendKey(c)] = Msg(c, sent[c])
        \/ inHand[c] = Msg(c, sent[c])
        \/ \E i \in 1 .. Len(taken[c]) : taken[c][i] = Msg(c, sent[c])

(* Why they hold.                                                           *)

\* Whatever is under a key, or on its way there, was sent on its channel.
IsSent(v, c) == v # NoMessage => v.chan = c /\ v.num \in 1 .. sent[c]
ValuesWereSent(c) ==
    /\ IsSent(store[SendKey(c)], c) /\ IsSent(inHand[c], c)
    /\ \A w \in late : w.key = SendKey(c) => IsSent(w.value, c)
    /\ sending[c] => sent[c] > 0
    /\ receiving[c] = "delete" <=> inHand[c] # NoMessage

\* On a steady channel nothing is late.  What is under the key is newer than
\* what was taken, and no older than what recv has read; what is being sent is
\* newer still.
NewerThanTaken(c, n) == \A i \in 1 .. Len(taken[c]) : taken[c][i].num < n
NumbersGrow(c) ==
    LET v == store[SendKey(c)]
        h == inHand[c]
    IN
    /\ \A w \in late : w.key # SendKey(c)
    /\ v # NoMessage => NewerThanTaken(c, v.num) /\ (sending[c] => v.num < sent[c])
    /\ h # NoMessage => v # NoMessage /\ NewerThanTaken(c, h.num) /\ h.num =< v.num
    /\ NewerThanTaken(c, IF sending[c] THEN sent[c] ELSE sent[c] + 1)

\* On a channel used as documented the one message in flight is the last sent.
OneInFlight(c) ==
    IF sent[c] = Len(taken[c])
    THEN ~sending[c] /\ store[SendKey(c)] = NoMessage /\ inHand[c] = NoMessage
    ELSE /\ sent[c] = Len(taken[c]) + 1
         /\ store[SendKey(c)] = IF sending[c] THEN NoMessage ELSE Msg(c, sent[c])
         /\ inHand[c] \in {NoMessage, store[SendKey(c)]}

ChannelInv(c) ==
    /\ ValuesWereSent(c) /\ TakenFrom(c)
    /\ c \in Steady => NumbersGrow(c) /\ Increasing(c)
    /\ c \in Kept => OneInFlight(c)

PInv == TypeOK /\ \A c \in Channels : ChannelInv(c)
=============================================================================
