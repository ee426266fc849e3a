------------------------------ MODULE Mailbox ------------------------------
(***************************************************************************)
(* What send and recv promise on a channel with at most one message in     *)
(* flight: a message is received once, and the next one follows it.        *)
(***************************************************************************)
EXTENDS Naturals, Sequences

CONSTANTS Channels, Messages, NoMessage

VARIABLES
    box,    \* the message in flight on every channel, NoMessage if none
    taken   \* the messages received on every channel, in order

Init ==
    /\ box = [c \in Channels |-> NoMessage]
    /\ taken = [c \in Channels |-> <<>>]

IsNew(c, m) == \A i \in 1 .. Len(taken[c]) : taken[c][i] # m

Send(c, m) ==
    /\ box[c] = NoMessage /\ IsNew(c, m)
    /\ box' = [box EXCEPT ![c] = m]
    /\ UNCHANGED taken

Receive(c) ==
    /\ box[c] # NoMessage
    /\ taken' = [taken EXCEPT ![c] = Append(@, box[c])]
    /\ box' = [box EXCEPT ![c] = NoMessage]

Next == \E c \in Channels : Receive(c) \/ \E m \in Messages : Send(c, m)

Spec == Init /\ [][Next]_<<box, taken>>
=============================================================================
