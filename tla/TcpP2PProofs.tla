---------------------------- MODULE TcpP2PProofs ----------------------------
(***************************************************************************)
(* Proofs about TcpP2P, for any ranks, tags, channels and faults: messages *)
(* keep to their channel, and a channel used as documented is a mailbox.   *)
(***************************************************************************)
EXTENDS TcpP2P, TLAPS

-----------------------------------------------------------------------------
(* Channels do not disturb each other.                                      *)

\* A key names its channel, for the sender as for the receiver.
LEMMA KeysNameChannels ==
    ASSUME NEW c \in Channels
    PROVE  /\ SendKey(c) \in Keys /\ RecvKey(c) = SendKey(c)
           /\ \A d \in Channels : SendKey(c) = SendKey(d) => c = d
<1>1. c \in Channel /\ \A d \in Channels : d \in Channel
  BY P2PAssumption
<1> QED BY <1>1 DEF Channel, SendKey, RecvKey, Keys

\* The state of a channel: what a step of another leaves alone.
Same(c) ==
    /\ sent'[c] = sent[c] /\ sending'[c] = sending[c]
    /\ receiving'[c] = receiving[c] /\ inHand'[c] = inHand[c] /\ taken'[c] = taken[c]
    /\ store'[SendKey(c)] = store[SendKey(c)]
    /\ \A w \in late' : w.key = SendKey(c) => w \in late

LEMMA SameKeeps ==
    ASSUME NEW c \in Channels, ChannelInv(c), Same(c)
    PROVE  ChannelInv(c)'
<1> USE DEF Same
<1>1. ValuesWereSent(c)' /\ TakenFrom(c)'
  BY DEF ChannelInv, ValuesWereSent, IsSent, TakenFrom
<1>2. NumbersGrow(c) => NumbersGrow(c)'
  BY DEF NumbersGrow, NewerThanTaken
<1>3. Increasing(c) => Increasing(c)'
  BY DEF Increasing
<1>4. OneInFlight(c) => OneInFlight(c)'
  BY DEF OneInFlight
<1> QED BY <1>1, <1>2, <1>3, <1>4 DEF ChannelInv

\* A write under the key of a channel, applied, late or lost.
LEMMA WritesAreLocal ==
    ASSUME TypeOK, NEW c \in Channels, NEW w \in Write, w.key = SendKey(c),
           (Apply(w) /\ UNCHANGED late) \/ Unanswered(w)
    PROVE  /\ store' \in [Keys -> Value] /\ late' \subseteq Write
           /\ store'[SendKey(c)] \in {store[SendKey(c)], w.value}
           /\ late' \subseteq late \union {w}
           /\ \A d \in Channels \ {c} :
                 /\ store'[SendKey(d)] = store[SendKey(d)]
                 /\ \A x \in late' : x.key = SendKey(d) => x \in late
<1>1. \A d \in Channels \ {c} : SendKey(d) \in Keys /\ SendKey(d) # w.key
  BY KeysNameChannels
<1>2. w.key \in Keys /\ w.value \in Value
  BY DEF Write
<1>3. store \in [Keys -> Value] /\ late \subseteq Write
  BY DEF TypeOK
<1>4. CASE Apply(w) /\ UNCHANGED late
  BY <1>1, <1>2, <1>3, <1>4 DEF Apply
<1>5. CASE late' = late \union {w} /\ UNCHANGED store
  BY <1>1, <1>2, <1>3, <1>5
<1>6. CASE UNCHANGED <<store, late>>
  BY <1>1, <1>2, <1>3, <1>6
<1> QED BY <1>4, <1>5, <1>6 DEF Unanswered

LEMMA WritesAreTyped ==
    ASSUME TypeOK, NEW c \in Channels
    PROVE  /\ Posting(c) \in Write /\ Posting(c).key = SendKey(c)
           /\ Posting(c).value = Msg(c, sent[c]) /\ Msg(c, sent[c]) \in Message
           /\ Msg(c, sent[c]) # NoMessage
           /\ Deletion(c) \in Write /\ Deletion(c).key = SendKey(c)
           /\ Deletion(c).value = NoMessage
<1>1. sent[c] \in Nat
  BY P2PAssumption DEF TypeOK
<1>2. Msg(c, sent[c]) \in Message
  BY <1>1 DEF Msg, Message
<1> QED BY <1>2, KeysNameChannels, P2PAssumption DEF Posting, Deletion, Write, Value, Message

-----------------------------------------------------------------------------
(* The inductive invariant, for the channel that steps.                     *)

LEMMA OnlyOneSteps ==
    ASSUME PInv, NEW c \in Channels, TypeOK', ChannelInv(c)',
           \A d \in Channels \ {c} : Same(d)
    PROVE  PInv'
<1>1. ASSUME NEW d \in Channels PROVE ChannelInv(d)'
  BY <1>1, SameKeeps DEF PInv
<1> QED BY <1>1 DEF PInv

LEMMA NumbersAreTyped ==
    ASSUME TypeOK, NEW c \in Channels
    PROVE  /\ sent[c] \in Nat /\ taken[c] \in Seq(Message) /\ Len(taken[c]) \in Nat
           /\ \A i \in 1 .. Len(taken[c]) : taken[c][i] \in Message /\ taken[c][i].num \in Nat
           /\ store[SendKey(c)] \in Value /\ inHand[c] \in Value
           /\ \A v \in Value : v # NoMessage => v.num \in Nat
<1>1. SendKey(c) \in Keys
  BY KeysNameChannels
<1>2. sent[c] \in Nat /\ store[SendKey(c)] \in Value /\ inHand[c] \in Value
  BY <1>1, P2PAssumption DEF TypeOK
<1>3. taken[c] \in Seq(Message)
  BY DEF TypeOK
<1>4. Len(taken[c]) \in Nat /\ \A i \in 1 .. Len(taken[c]) : taken[c][i] \in Message
  BY <1>3
<1>5. \A v \in Message : v.num \in Nat
  BY DEF Message
<1> QED BY <1>2, <1>3, <1>4, <1>5 DEF Value

LEMMA BeginSendKeeps ==
    ASSUME PInv, NEW c \in Channels, BeginSend(c)
    PROVE  PInv' /\ \A d \in Channels \ {c} : Same(d)
<1>0. TypeOK /\ ChannelInv(c)
  BY DEF PInv
<1>1. /\ ~sending[c] /\ sending'[c] = TRUE /\ sent'[c] = sent[c] + 1
      /\ UNCHANGED <<store, late, receiving, inHand, taken>>
  BY <1>0 DEF BeginSend, TypeOK
<1>2. TypeOK' /\ \A d \in Channels \ {c} : Same(d)
  BY <1>0, P2PAssumption DEF BeginSend, TypeOK, Same
<1>3. ValuesWereSent(c)' /\ TakenFrom(c)'
  BY <1>0, <1>1, NumbersAreTyped DEF ChannelInv, ValuesWereSent, IsSent, TakenFrom
<1>4. ASSUME c \in Steady PROVE NumbersGrow(c)' /\ Increasing(c)'
  BY <1>0, <1>1, <1>4, NumbersAreTyped
     DEF ChannelInv, NumbersGrow, NewerThanTaken, Increasing, ValuesWereSent, IsSent
<1>5. ASSUME c \in Kept PROVE OneInFlight(c)'
  <2>1. sent[c] = Len(taken[c])
    BY <1>5 DEF BeginSend, MaySend, Kept
  <2> QED BY <1>0, <1>1, <1>5, <2>1, NumbersAreTyped DEF ChannelInv, OneInFlight
<1>6. ChannelInv(c)'
  BY <1>3, <1>4, <1>5 DEF ChannelInv
<1> QED BY <1>2, <1>6, OnlyOneSteps

LEMMA PostKeeps ==
    ASSUME PInv, NEW c \in Channels, Post(c)
    PROVE  PInv' /\ \A d \in Channels \ {c} : Same(d)
<1>0. TypeOK /\ ChannelInv(c)
  BY DEF PInv
<1> DEFINE m == Msg(c, sent[c])
<1>1. /\ sending[c] /\ sending'[c] = FALSE /\ store'[SendKey(c)] = m
      /\ UNCHANGED <<late, sent, receiving, inHand, taken>>
  BY <1>0, KeysNameChannels DEF Post, Apply, Posting, TypeOK
<1>2. m # NoMessage /\ m.chan = c /\ m.num = sent[c]
  BY <1>0, WritesAreTyped DEF Msg
<1> HIDE DEF m
<1>3. TypeOK' /\ \A d \in Channels \ {c} : Same(d)
  <2>1. /\ store' \in [Keys -> Value] /\ late' \subseteq Write
        /\ \A d \in Channels \ {c} : store'[SendKey(d)] = store[SendKey(d)]
    BY <1>0, <1>1, WritesAreTyped, WritesAreLocal DEF Post
  <2> QED BY <1>0, <2>1 DEF Post, TypeOK, Same
<1>4. ValuesWereSent(c)' /\ TakenFrom(c)'
  BY <1>0, <1>1, <1>2, NumbersAreTyped DEF ChannelInv, ValuesWereSent, IsSent, TakenFrom
<1>5. ASSUME c \in Steady PROVE NumbersGrow(c)' /\ Increasing(c)'
  BY <1>0, <1>1, <1>2, <1>5, NumbersAreTyped
     DEF ChannelInv, NumbersGrow, NewerThanTaken, Increasing
<1>6. ASSUME c \in Kept PROVE OneInFlight(c)'
  BY <1>0, <1>1, <1>6, NumbersAreTyped DEF ChannelInv, OneInFlight, m
<1>7. ChannelInv(c)'
  BY <1>4, <1>5, <1>6 DEF ChannelInv
<1> QED BY <1>3, <1>7, OnlyOneSteps

LEMMA PostFailsKeeps ==
    ASSUME PInv, NEW c \in Channels, PostAgain(c) \/ GiveUpSend(c)
    PROVE  PInv' /\ \A d \in Channels \ {c} : Same(d)
<1>0. TypeOK /\ ChannelInv(c)
  BY DEF PInv
<1>1. /\ sending[c] /\ Unanswered(Posting(c)) /\ c \notin Steady /\ c \notin Kept
      /\ UNCHANGED <<sent, receiving, inHand, taken>>
      /\ sending' = sending \/ sending' = [sending EXCEPT ![c] = FALSE]
  BY DEF PostAgain, GiveUpSend, Steady, Kept
<1>2. /\ store' \in [Keys -> Value] /\ late' \subseteq Write
      /\ store'[SendKey(c)] \in {store[SendKey(c)], Msg(c, sent[c])}
      /\ late' \subseteq late \union {Posting(c)}
      /\ \A d \in Channels \ {c} :
            /\ store'[SendKey(d)] = store[SendKey(d)]
            /\ \A x \in late' : x.key = SendKey(d) => x \in late
  BY <1>0, <1>1, WritesAreTyped, WritesAreLocal
<1>3. TypeOK' /\ \A d \in Channels \ {c} : Same(d)
  BY <1>0, <1>1, <1>2 DEF TypeOK, Same
<1>4. IsSent(Msg(c, sent[c]), c)
  BY <1>0, <1>1, NumbersAreTyped DEF ChannelInv, ValuesWereSent, IsSent, Msg
<1>5. ValuesWereSent(c)' /\ TakenFrom(c)'
  BY <1>0, <1>1, <1>2, <1>4, WritesAreTyped
     DEF ChannelInv, ValuesWereSent, IsSent, TakenFrom, TypeOK
<1>6. ChannelInv(c)'
  BY <1>1, <1>5 DEF ChannelInv, Steady, Kept
<1> QED BY <1>3, <1>6, OnlyOneSteps

LEMMA PollKeeps ==
    ASSUME PInv, NEW c \in Channels, BeginRecv(c) \/ Get(c) \/ PollTimeout(c)
    PROVE  PInv' /\ \A d \in Channels \ {c} : Same(d)
<1>0. TypeOK /\ ChannelInv(c) /\ RecvKey(c) = SendKey(c)
  BY KeysNameChannels DEF PInv
<1>1. UNCHANGED <<store, late, sent, sending, taken>>
  BY DEF BeginRecv, Get, PollTimeout
<1>2. \/ /\ UNCHANGED inHand /\ receiving[c] # "delete" /\ receiving'[c] # "delete"
      \/ /\ inHand'[c] = store[SendKey(c)] /\ inHand'[c] # NoMessage
         /\ receiving'[c] = "delete"
  BY <1>0 DEF BeginRecv, Get, PollTimeout, TypeOK
<1>3. TypeOK' /\ \A d \in Channels \ {c} : Same(d)
  BY <1>0, <1>1, NumbersAreTyped DEF BeginRecv, Get, PollTimeout, TypeOK, Same
<1>4. ValuesWereSent(c)' /\ TakenFrom(c)'
  BY <1>0, <1>1, <1>2 DEF ChannelInv, ValuesWereSent, IsSent, TakenFrom
<1>5. ASSUME c \in Steady PROVE NumbersGrow(c)' /\ Increasing(c)'
  BY <1>0, <1>1, <1>2, <1>5, NumbersAreTyped
     DEF ChannelInv, NumbersGrow, NewerThanTaken, Increasing
<1>6. ASSUME c \in Kept PROVE OneInFlight(c)'
  BY <1>0, <1>1, <1>2, <1>6 DEF ChannelInv, OneInFlight
<1>7. ChannelInv(c)'
  BY <1>4, <1>5, <1>6 DEF ChannelInv
<1> QED BY <1>3, <1>7, OnlyOneSteps

\* recv consumes what it has read: the delete may fail on an unsteady channel.
LEMMA TakeKeeps ==
    ASSUME PInv, NEW c \in Channels, Delete(c) \/ DeleteFails(c)
    PROVE  PInv' /\ \A d \in Channels \ {c} : Same(d)
<1> DEFINE n == Len(taken[c])
<1>0. TypeOK /\ ChannelInv(c)
  BY DEF PInv
<1>1. /\ receiving[c] = "delete" /\ Take(c)
      /\ (Apply(Deletion(c)) /\ UNCHANGED late) \/ Unanswered(Deletion(c))
      /\ c \in Steady => Apply(Deletion(c)) /\ UNCHANGED late
  BY DEF Delete, DeleteFails, Steady
<1>2. inHand[c] # NoMessage /\ inHand[c] \in Message /\ IsSent(inHand[c], c)
  BY <1>0, <1>1, NumbersAreTyped DEF ChannelInv, ValuesWereSent, Value
<1>3. /\ taken'[c] = Append(taken[c], inHand[c]) /\ inHand'[c] = NoMessage
      /\ receiving'[c] = "idle" /\ UNCHANGED <<sent, sending>>
  BY <1>0, <1>1 DEF Take, TypeOK
<1>4. /\ n \in Nat /\ Len(taken'[c]) = n + 1 /\ taken'[c][n + 1] = inHand[c]
      /\ \A i \in 1 .. n : taken'[c][i] = taken[c][i]
  BY <1>0, <1>2, <1>3, NumbersAreTyped
<1>5. /\ store' \in [Keys -> Value] /\ late' \subseteq Write
      /\ store'[SendKey(c)] \in {store[SendKey(c)], NoMessage}
      /\ late' \subseteq late \union {Deletion(c)}
      /\ \A d \in Channels \ {c} :
            /\ store'[SendKey(d)] = store[SendKey(d)]
            /\ \A x \in late' : x.key = SendKey(d) => x \in late
  BY <1>0, <1>1, WritesAreTyped, WritesAreLocal
<1>6. TypeOK' /\ \A d \in Channels \ {c} : Same(d)
  <2>1. taken' \in [Channels -> Seq(Message)]
    BY <1>0, <1>1, <1>2 DEF Take, TypeOK
  <2>2. inHand' \in [Channels -> Value]
    BY <1>0, <1>1 DEF Take, TypeOK, Value
  <2> QED BY <1>0, <1>1, <1>5, <2>1, <2>2 DEF Take, TypeOK, Same
<1>7. ValuesWereSent(c)'
  BY <1>0, <1>3, <1>5, WritesAreTyped DEF ChannelInv, ValuesWereSent, IsSent
<1> HIDE DEF n
<1>8. TakenFrom(c)'
  BY <1>0, <1>2, <1>3, <1>4 DEF ChannelInv, TakenFrom, IsSent, n
<1>9. ASSUME c \in Steady PROVE store'[SendKey(c)] = NoMessage /\ late' = late
  BY <1>0, <1>1, <1>9, KeysNameChannels, WritesAreTyped DEF Apply, TypeOK
<1>10. ASSUME c \in Steady PROVE NumbersGrow(c)' /\ Increasing(c)'
  <2> DEFINE v == store[SendKey(c)]
             h == inHand[c]
  <2>1. /\ v # NoMessage /\ v.num \in Nat /\ h.num \in Nat /\ h.num =< v.num
        /\ sent[c] \in Nat /\ v.num =< sent[c] /\ (sending[c] => v.num < sent[c])
        /\ NewerThanTaken(c, h.num)
    BY <1>0, <1>2, <1>10, NumbersAreTyped
       DEF ChannelInv, NumbersGrow, ValuesWereSent, IsSent, Message
  <2>2. \A i \in 1 .. n : taken[c][i].num \in Nat /\ taken[c][i].num < h.num
    BY <1>0, <2>1, NumbersAreTyped DEF NewerThanTaken, n
  <2> HIDE DEF v, h
  <2>3. NumbersGrow(c)'
    <3>1. \A w \in late : w.key # SendKey(c)
      BY <1>0, <1>10 DEF ChannelInv, NumbersGrow
    <3>2. NewerThanTaken(c, IF sending[c] THEN sent[c] ELSE sent[c] + 1)'
      BY <1>3, <1>4, <2>1, <2>2 DEF NewerThanTaken, h
    <3> QED BY <1>3, <1>9, <1>10, <3>1, <3>2 DEF NumbersGrow
  <2>4. Increasing(c)'
    <3>1. ASSUME NEW i \in 1 .. n + 1, NEW j \in 1 .. n + 1, i < j
          PROVE  taken'[c][i].num < taken'[c][j].num
      <4>1. i \in 1 .. n /\ (j \in 1 .. n \/ j = n + 1)
        BY <1>4, <3>1
      <4>2. CASE j \in 1 .. n
        BY <1>0, <1>4, <1>10, <3>1, <4>1, <4>2 DEF ChannelInv, Increasing, n
      <4>3. CASE j = n + 1
        BY <1>4, <2>2, <4>1, <4>3 DEF h
      <4> QED BY <4>1, <4>2, <4>3
    <3> QED BY <1>4, <3>1 DEF Increasing
  <2> QED BY <2>3, <2>4
<1>11. ASSUME c \in Kept PROVE OneInFlight(c)'
  <2>1. c \in Steady
    BY <1>11 DEF Kept
  <2>2. sent[c] = n + 1 /\ ~sending[c]
    BY <1>0, <1>2, <1>11 DEF ChannelInv, OneInFlight, n
  <2> QED BY <1>3, <1>4, <1>9, <2>1, <2>2 DEF OneInFlight
<1>12. ChannelInv(c)'
  BY <1>7, <1>8, <1>10, <1>11 DEF ChannelInv
<1> QED BY <1>6, <1>12, OnlyOneSteps

\* A late write is under the key of an unsteady channel, or of none.
LEMMA LateWriteKeeps ==
    ASSUME PInv, NEW w \in late, LateWrite(w)
    PROVE  PInv' /\ \A c \in Steady : Same(c)
<1>0. TypeOK /\ w \in Write
  BY DEF PInv, TypeOK
<1>1. /\ store' = [store EXCEPT ![w.key] = w.value] /\ late' = late \ {w}
      /\ UNCHANGED <<sent, sending, receiving, inHand, taken>>
  BY DEF LateWrite, Apply
<1>2. w.key \in Keys /\ w.value \in Value
  BY <1>0 DEF Write
<1>3. TypeOK'
  BY <1>0, <1>1, <1>2 DEF TypeOK
<1>4. ASSUME NEW c \in Channels PROVE ChannelInv(c)'
  <2>1. SendKey(c) \in Keys /\ ChannelInv(c)
    BY <1>4, KeysNameChannels DEF PInv
  <2>2. CASE w.key # SendKey(c)
    BY <1>0, <1>1, <2>1, <2>2, SameKeeps DEF Same, TypeOK
  <2>3. CASE w.key = SendKey(c)
    <3>1. store'[SendKey(c)] = w.value
      BY <1>0, <1>1, <2>1, <2>3 DEF TypeOK
    <3>2. c \notin Steady
      BY <2>1, <2>3 DEF ChannelInv, NumbersGrow
    <3>3. ValuesWereSent(c)' /\ TakenFrom(c)'
      BY <1>1, <2>1, <2>3, <3>1 DEF ChannelInv, ValuesWereSent, IsSent, TakenFrom
    <3> QED BY <3>2, <3>3 DEF ChannelInv, Kept, Steady
  <2> QED BY <2>2, <2>3
<1>5. ASSUME NEW c \in Steady PROVE Same(c)
  <2>1. c \in Channels /\ SendKey(c) \in Keys /\ w.key # SendKey(c)
    BY <1>5, KeysNameChannels DEF PInv, ChannelInv, NumbersGrow, Steady
  <2> QED BY <1>0, <1>1, <2>1 DEF Same, TypeOK
<1> QED BY <1>3, <1>4, <1>5 DEF PInv

-----------------------------------------------------------------------------
(* The theorems.                                                            *)

LEMMA P2PInit == Init => PInv
<1> SUFFICES ASSUME Init PROVE PInv
  OBVIOUS
<1>1. TypeOK
  BY P2PAssumption DEF Init, TypeOK, Value
<1>2. ASSUME NEW c \in Channels PROVE ChannelInv(c)
  <2>1. /\ store[SendKey(c)] = NoMessage /\ inHand[c] = NoMessage /\ taken[c] = <<>>
        /\ sent[c] = 0 /\ sending[c] = FALSE /\ receiving[c] = "idle" /\ late = {}
    BY KeysNameChannels DEF Init
  <2> QED
    BY <2>1 DEF ChannelInv, ValuesWereSent, IsSent, TakenFrom, NumbersGrow, NewerThanTaken,
                Increasing, OneInFlight
<1> QED BY <1>1, <1>2 DEF PInv

LEMMA P2PStep == PInv /\ [Next]_vars => PInv'
<1> SUFFICES ASSUME PInv, [Next]_vars PROVE PInv'
  OBVIOUS
<1>1. CASE UNCHANGED vars
  <2>1. TypeOK' /\ \A c \in Channels : Same(c)
    BY <1>1 DEF vars, PInv, TypeOK, Same
  <2> QED BY <2>1, SameKeeps DEF PInv
<1> QED
  BY <1>1, BeginSendKeeps, PostKeeps, PostFailsKeeps, PollKeeps, TakeKeeps, LateWriteKeeps
     DEF Next, SendStep, RecvStep

\* The inductive invariant: what is under a key was sent on its channel, on a
\* channel whose calls are answered numbers only grow, and on one used as
\* documented the only message in flight is the last one sent.
THEOREM P2PInvariance == Spec => []PInv
<1> QED BY P2PInit, P2PStep, PTL DEF Spec

\* No recv returns a message of another source, destination or tag, or one
\* that was never sent, whatever fails and however late.
THEOREM Provenance == Spec => []TakenWasSent
<1>1. PInv => TakenWasSent
  BY DEF PInv, ChannelInv, TakenWasSent
<1> QED BY <1>1, P2PInvariance, PTL

\* Where calls are answered, messages are received in order and at most once,
\* even if sends overtake receives.
THEOREM Order == Spec => []InOrder
<1>1. PInv => InOrder
  BY DEF PInv, ChannelInv, InOrder, Steady
<1> QED BY <1>1, P2PInvariance, PTL

-----------------------------------------------------------------------------
(* A channel used as documented is a mailbox.                               *)

Boxes == [c \in Kept |-> InFlight(c)]
Takings == [c \in Kept |-> taken[c]]

LEMMA InFlightIsLocal ==
    ASSUME NEW c \in Channels, Same(c)
    PROVE  InFlight(c)' = InFlight(c) /\ taken'[c] = taken[c]
BY KeysNameChannels DEF Same, InFlight

\* A step that leaves alone what is in flight and what was taken.
LEMMA QuietSteps ==
    ASSUME \A c \in Kept : InFlight(c)' = InFlight(c) /\ taken'[c] = taken[c]
    PROVE  UNCHANGED <<Boxes, Takings>>
BY DEF Boxes, Takings

\* The message in flight on a channel used as documented.
LEMMA WhatIsInFlight ==
    ASSUME PInv, NEW c \in Kept
    PROVE  /\ c \in Channels /\ RecvKey(c) = SendKey(c) /\ TypeOK
           /\ sending[c] => InFlight(c) = NoMessage /\ receiving[c] # "delete"
           /\ receiving[c] = "delete" => InFlight(c) = inHand[c] /\ inHand[c] # NoMessage
           /\ inHand[c] # NoMessage => inHand[c] = store[SendKey(c)]
           /\ sending[c] => sent[c] \in 1 .. MaxCalls
           /\ sending[c] => \A i \in 1 .. Len(taken[c]) : taken[c][i] # Msg(c, sent[c])
<1>1. c \in Channels /\ c \in Steady /\ RecvKey(c) = SendKey(c)
  BY KeysNameChannels DEF Kept, Steady
<1>2. TypeOK /\ ValuesWereSent(c) /\ NumbersGrow(c) /\ OneInFlight(c)
  BY <1>1 DEF PInv, ChannelInv
<1>3. ASSUME sending[c], NEW i \in 1 .. Len(taken[c]) PROVE taken[c][i] # Msg(c, sent[c])
  <2>1. taken[c][i].num < sent[c] /\ sent[c] \in Nat /\ Msg(c, sent[c]).num = sent[c]
    BY <1>1, <1>2, <1>3, NumbersAreTyped DEF NumbersGrow, NewerThanTaken, Msg
  <2> QED BY <2>1
<1>4. sending[c] => sent[c] \in 1 .. MaxCalls
  BY <1>1, <1>2, P2PAssumption DEF ValuesWereSent, TypeOK
<1> QED BY <1>1, <1>2, <1>3, <1>4 DEF OneInFlight, ValuesWereSent, InFlight

\* A send puts the message in the box.
LEMMA PostSends ==
    ASSUME PInv, NEW c \in Channels, Post(c)
    PROVE  [Box!Next]_<<Boxes, Takings>>
<1> DEFINE m == Msg(c, sent[c])
<1>1. \A d \in Kept \ {c} : InFlight(d)' = InFlight(d) /\ taken'[d] = taken[d]
  <2>1. \A d \in Channels \ {c} : Same(d)
    BY PostKeeps
  <2> QED BY <2>1, InFlightIsLocal DEF Kept, Steady
<1>2. CASE c \notin Kept
  BY <1>1, <1>2, QuietSteps
<1>3. CASE c \in Kept
  <2>1. /\ store'[RecvKey(c)] = m /\ receiving' = receiving /\ taken' = taken /\ sending[c]
    BY <1>3, WhatIsInFlight, KeysNameChannels DEF Post, Apply, Posting, TypeOK
  <2>2. InFlight(c) = NoMessage /\ InFlight(c)' = m
    BY <1>3, <2>1, WhatIsInFlight DEF InFlight, RecvKey
  <2>3. m \in Sendable /\ \A i \in 1 .. Len(taken[c]) : taken[c][i] # m
    BY <1>3, <2>1, WhatIsInFlight DEF Sendable
  <2> HIDE DEF m
  <2>4. Boxes' = [Boxes EXCEPT ![c] = m]
    BY <1>1, <1>3, <2>2 DEF Boxes
  <2>5. Boxes[c] = NoMessage /\ Takings[c] = taken[c] /\ Takings' = Takings
    BY <1>3, <2>1, <2>2 DEF Boxes, Takings
  <2>6. Box!Send(c, m)
    BY <2>3, <2>4, <2>5 DEF Box!Send, Box!IsNew, Boxes, Takings
  <2> QED BY <1>3, <2>3, <2>6 DEF Box!Next
<1> QED BY <1>2, <1>3

\* The delete takes it out.
LEMMA DeleteReceives ==
    ASSUME PInv, NEW c \in Channels, Delete(c) \/ DeleteFails(c)
    PROVE  [Box!Next]_<<Boxes, Takings>>
<1>1. \A d \in Kept \ {c} : InFlight(d)' = InFlight(d) /\ taken'[d] = taken[d]
  <2>1. \A d \in Channels \ {c} : Same(d)
    BY TakeKeeps
  <2> QED BY <2>1, InFlightIsLocal DEF Kept, Steady
<1>2. CASE c \notin Kept
  BY <1>1, <1>2, QuietSteps
<1>3. CASE c \in Kept
  <2>1. Delete(c)
    BY <1>3 DEF DeleteFails, Kept, Steady
  <2>2. TypeOK /\ InFlight(c) = inHand[c] /\ inHand[c] # NoMessage
    BY <1>3, <2>1, WhatIsInFlight DEF Delete
  <2>3. /\ store'[RecvKey(c)] = NoMessage /\ receiving'[c] = "idle"
        /\ taken'[c] = Append(taken[c], inHand[c])
    BY <2>1, <2>2, KeysNameChannels DEF Delete, Take, Apply, Deletion, TypeOK
  <2>4. InFlight(c)' = NoMessage
    BY <2>3 DEF InFlight, RecvKey
  <2>5. /\ Boxes' = [Boxes EXCEPT ![c] = NoMessage] /\ Boxes[c] = inHand[c]
        /\ Takings' = [Takings EXCEPT ![c] = Append(@, inHand[c])]
    BY <1>1, <1>3, <2>2, <2>3, <2>4 DEF Boxes, Takings
  <2>6. Box!Receive(c)
    BY <2>2, <2>5 DEF Box!Receive, Boxes, Takings
  <2> QED BY <1>3, <2>6 DEF Box!Next
<1> QED BY <1>2, <1>3

\* Reading it leaves it in flight.
LEMMA OthersAreQuiet ==
    ASSUME PInv, NEW c \in Channels,
           \/ BeginSend(c) \/ PostAgain(c) \/ GiveUpSend(c)
           \/ BeginRecv(c) \/ Get(c) \/ PollTimeout(c)
    PROVE  UNCHANGED <<Boxes, Takings>>
<1>1. \A d \in Kept \ {c} : InFlight(d)' = InFlight(d) /\ taken'[d] = taken[d]
  <2>1. \A d \in Channels \ {c} : Same(d)
    BY BeginSendKeeps, PostFailsKeeps, PollKeeps
  <2> QED BY <2>1, InFlightIsLocal DEF Kept, Steady
<1>2. ASSUME c \in Kept PROVE InFlight(c)' = InFlight(c) /\ taken'[c] = taken[c]
  <2>1. TypeOK
    BY DEF PInv
  <2>2. CASE BeginSend(c)
    BY <2>2 DEF BeginSend, InFlight, RecvKey
  <2>3. CASE PostAgain(c) \/ GiveUpSend(c)
    BY <1>2, <2>3 DEF PostAgain, GiveUpSend, Kept, Steady
  <2>4. CASE BeginRecv(c) \/ PollTimeout(c)
    BY <2>1, <2>4 DEF BeginRecv, PollTimeout, InFlight, RecvKey, TypeOK
  <2>5. CASE Get(c)
    BY <2>1, <2>5 DEF Get, InFlight, RecvKey, TypeOK
  <2> QED BY <2>2, <2>3, <2>4, <2>5
<1> QED BY <1>1, <1>2, QuietSteps

\* On the channels used as documented, and whose calls are answered, a message
\* that was sent is received once, before the next is sent.
THEOREM MailboxRefinement == Spec => ImplementsMailbox
<1>1. Init => Box!Init
  <2> SUFFICES ASSUME Init PROVE Box!Init
    OBVIOUS
  <2>1. \A c \in Kept : InFlight(c) = NoMessage /\ taken[c] = <<>>
    BY KeysNameChannels DEF Init, InFlight, Kept, Steady
  <2> QED BY <2>1 DEF Box!Init
<1>2. PInv /\ [Next]_vars => [Box!Next]_<<Boxes, Takings>>
  <2> SUFFICES ASSUME PInv, [Next]_vars PROVE [Box!Next]_<<Boxes, Takings>>
    OBVIOUS
  <2>1. CASE UNCHANGED vars
    <3>1. \A c \in Channels : Same(c)
      BY <2>1 DEF vars, Same
    <3> QED BY <3>1, InFlightIsLocal, QuietSteps DEF Kept, Steady
  <2>2. ASSUME NEW w \in late, LateWrite(w) PROVE UNCHANGED <<Boxes, Takings>>
    BY <2>2, LateWriteKeeps, InFlightIsLocal, QuietSteps DEF Kept, Steady
  <2> QED
    BY <2>1, <2>2, PostSends, DeleteReceives, OthersAreQuiet DEF Next, SendStep, RecvStep
<1> QED
  BY <1>1, <1>2, P2PInvariance, PTL
     DEF Spec, ImplementsMailbox, Box!Spec, Boxes, Takings
=============================================================================
